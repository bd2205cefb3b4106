---------------------------- MODULE Events_proofs ----------------------------
(***************************************************************************)
(* Proofs about RigEvents for any events that rigs log, any length of      *)
(* their history and any memory that holds at least that much.             *)
(* AnnouncedOnce needs to know what the memory still holds: every notable  *)
(* event that the rig may answer with again (Remembered), because of what  *)
(* is forgotten the oldest goes first (OldestFirst), and when the memory   *)
(* is full of newer ones the rig has forgotten the oldest, too (TooMany).  *)
(* RevokedStateIsGone needs to know which event each cell stands for, and  *)
(* that no disabled event of its scope that follows it has been read       *)
(* (Truthful).  A response is handled event by event, so both invariants   *)
(* have a form for its middle, which every event is shown to carry on.     *)
(***************************************************************************)
EXTENDS RigEvents, Induction, SequenceTheorems, TLAPS

---------------------------------------------------------------------------
\* The memory of keys.

\* What taking a key out of a memory leaves, in the same order.
LEMMA Removal ==
  ASSUME NEW X, NEW s \in Seq(X), NEW e
  PROVE  \/ ~Contains(s, e) /\ RemoveFirst(s, e) = s
         \/ \E m \in 1..Len(s) :
              /\ s[m] = e /\ RemoveFirst(s, e) \in Seq(X)
              /\ Len(RemoveFirst(s, e)) = Len(s) - 1
              /\ \A i \in 1..(Len(s) - 1) :
                   RemoveFirst(s, e)[i] = IF i < m THEN s[i] ELSE s[i + 1]
<1>1. CASE ~Contains(s, e)
  BY <1>1 DEF Contains, RemoveFirst
<1>2. CASE Contains(s, e)
  <2> DEFINE I == {i \in 1..Len(s) : s[i] = e}
             m == CHOOSE i \in I : \A j \in I : i <= j
  <2>1. I # {} /\ I \subseteq Nat
    BY <1>2 DEF Contains
  <2>2. m \in I
    BY <2>1, Least
  <2>3. RemoveFirst(s, e) = RemoveAt(s, m)
    <3>1. SelectInSeq(s, LAMBDA v : v = e) = m
      BY <2>1, Zenon DEF SelectInSeq, Min
    <3> QED BY <1>2, <3>1, Zenon DEF RemoveFirst, Contains
  <2> HIDE DEF m
  <2>4. m \in 1..Len(s) /\ s[m] = e
    BY <2>2
  <2> DEFINE l == SubSeq(s, 1, m - 1)
             r == SubSeq(s, m + 1, Len(s))
  <2>5. l \in Seq(X) /\ Len(l) = m - 1 /\ \A i \in 1..(m - 1) : l[i] = s[i]
    BY <2>4
  <2>6. r \in Seq(X) /\ Len(r) = Len(s) - m /\ \A i \in 1..(Len(s) - m) : r[i] = s[m + i]
    BY <2>4
  <2>7. RemoveAt(s, m) = l \o r
    BY DEF RemoveAt
  <2> HIDE DEF l, r
  <2>8. /\ l \o r \in Seq(X) /\ Len(l \o r) = Len(l) + Len(r)
        /\ \A i \in 1..(Len(l) + Len(r)) : (l \o r)[i] = IF i <= Len(l) THEN l[i] ELSE r[i - Len(l)]
    BY <2>5, <2>6, ConcatProperties
  <2>9. ASSUME NEW i \in 1..(Len(s) - 1) PROVE (l \o r)[i] = IF i < m THEN s[i] ELSE s[i + 1]
    <3> DEFINE c == l \o r
    <3> HIDE DEF c
    <3>0. i \in 1..(Len(l) + Len(r)) /\ i \in Nat /\ m \in Nat /\ Len(l) = m - 1
      BY <2>4, <2>5, <2>6
    <3>1. CASE i < m
      <4>1. c[i] = l[i] /\ l[i] = s[i]
        BY <3>0, <3>1, <2>5, <2>8 DEF c
      <4> QED BY <3>1, <4>1 DEF c
    <3>2. CASE i >= m
      <4>1. i - (m - 1) \in 1..(Len(s) - m) /\ m + (i - (m - 1)) = i + 1
        BY <3>2, <2>4
      <4>2. c[i] = r[i - (m - 1)]
        BY <3>0, <3>2, <2>8 DEF c
      <4>3. r[i - (m - 1)] = s[i + 1]
        BY <4>1, <2>6
      <4> QED BY <3>0, <3>2, <4>2, <4>3 DEF c
    <3> QED BY <3>0, <3>1, <3>2
  <2>10. Len(l \o r) = Len(s) - 1
    BY <2>4, <2>5, <2>6, <2>8
  <2> QED BY <2>3, <2>4, <2>7, <2>8, <2>9, <2>10
<1> QED BY <1>1, <1>2

\* The keys of a memory are in this order.
Before(s, x, y) == \E a, b \in 1..Len(s) : a < b /\ s[a] = x /\ s[b] = y

\* A key that is touched goes to the end; another one, at m, is gone: the same
\* key, or else the one longest not seen, if the memory was full.
Touched(s, e, t, m) ==
  LET kept == IF m <= Len(s) THEN Len(s) - 1 ELSE Len(s) IN
  /\ Len(t) = kept + 1 /\ t[kept + 1] = e
  /\ \A i \in 1..kept : t[i] = IF i < m THEN s[i] ELSE s[i + 1]
  /\ \/ m = Len(s) + 1 /\ ~Contains(s, e) /\ Len(s) < SeenCapacity
     \/ m <= Len(s) /\ s[m] = e
     \/ m = 1 /\ Len(s) = SeenCapacity /\ ~Contains(s, e)

LEMMA TouchShape ==
  ASSUME NEW X, NEW s \in Seq(X), NEW e \in X, Len(s) <= SeenCapacity
  PROVE  /\ Touch(s, e) \in Seq(X)
         /\ \E m \in 1..(Len(s) + 1) : Touched(s, e, Touch(s, e), m)
<1> USE RigEventsAssumption
<1> DEFINE r == RemoveFirst(s, e)
           o == Append(r, e)
<1>1. Touch(s, e) = IF Len(o) > SeenCapacity THEN Tail(o) ELSE o
  BY DEF Touch
<1>2. r \in Seq(X) /\ Len(s) \in Nat
  BY Removal
<1>3. /\ o \in Seq(X) /\ Len(o) = Len(r) + 1 /\ o[Len(r) + 1] = e
      /\ \A i \in 1..Len(r) : o[i] = r[i]
  <2> HIDE DEF r
  <2> QED BY <1>2
<1>4. CASE ~Contains(s, e) /\ r = s
  <2> HIDE DEF r, o
  <2>1. CASE Len(s) < SeenCapacity
    <3>1. Touch(s, e) = o
      BY <1>1, <1>2, <1>3, <1>4, <2>1
    <3>2. Touched(s, e, o, Len(s) + 1)
      BY <1>2, <1>3, <1>4, <2>1 DEF Touched
    <3> QED BY <1>2, <1>3, <3>1, <3>2
  <2>2. CASE Len(s) = SeenCapacity
    <3>1. Touch(s, e) = Tail(o)
      BY <1>1, <1>2, <1>3, <1>4, <2>2
    <3>2. /\ Tail(o) \in Seq(X) /\ Len(Tail(o)) = Len(s)
          /\ \A i \in 1..Len(s) : Tail(o)[i] = o[i + 1]
      BY <1>2, <1>3, <1>4
    <3> DEFINE t == Tail(o)
    <3> HIDE DEF t
    <3>3. Len(s) >= 1
      BY <2>2
    <3>4. Len(t) = Len(s) /\ t[Len(s)] = e
      BY <1>2, <1>3, <1>4, <3>2, <3>3 DEF t
    <3>5. \A i \in 1..(Len(s) - 1) : t[i] = s[i + 1]
      BY <1>2, <1>3, <1>4, <3>2, <3>3 DEF t
    <3>6. Touched(s, e, t, 1)
      BY <1>2, <1>4, <2>2, <3>3, <3>4, <3>5 DEF Touched
    <3>7. 1 \in 1..(Len(s) + 1)
      BY <1>2
    <3> QED BY <3>1, <3>2, <3>6, <3>7 DEF t
  <2> QED BY <1>2, <2>1, <2>2
<1>5. CASE \E m \in 1..Len(s) :
              /\ s[m] = e /\ r \in Seq(X) /\ Len(r) = Len(s) - 1
              /\ \A i \in 1..(Len(s) - 1) : r[i] = IF i < m THEN s[i] ELSE s[i + 1]
  <2> HIDE DEF r, o
  <2>1. PICK m \in 1..Len(s) :
              /\ s[m] = e /\ r \in Seq(X) /\ Len(r) = Len(s) - 1
              /\ \A i \in 1..(Len(s) - 1) : r[i] = IF i < m THEN s[i] ELSE s[i + 1]
    BY <1>5
  <2>2. Touch(s, e) = o
    BY <1>1, <1>2, <1>3, <2>1
  <2>3. Touched(s, e, o, m)
    BY <1>2, <1>3, <2>1 DEF Touched
  <2>4. m \in 1..(Len(s) + 1)
    BY <1>2
  <2> QED BY <1>3, <2>2, <2>3, <2>4
<1> HIDE DEF r, o
<1> QED BY <1>4, <1>5, Removal DEF r

LEMMA TouchFacts ==
  ASSUME NEW X, NEW s \in Seq(X), NEW e \in X, IsInjective(s), Len(s) <= SeenCapacity
  PROVE  LET t == Touch(s, e) IN
         /\ t \in Seq(X) /\ IsInjective(t) /\ Len(t) <= SeenCapacity
         /\ e \in Range(t) /\ Range(t) \subseteq Range(s) \cup {e}
         /\ \A x, y : Before(t, x, y) => x # e /\ (y = e \/ Before(s, x, y))
         /\ \A x \in Range(s) : x \notin Range(t) =>
              Len(s) = SeenCapacity /\ e \notin Range(s) /\ x = s[1]
<1>0. SeenCapacity \in Nat /\ SeenCapacity >= 1
  BY RigEventsAssumption
<1> DEFINE t == Touch(s, e)
<1>1. t \in Seq(X)
  BY TouchShape
<1>2. PICK m \in 1..(Len(s) + 1) : Touched(s, e, t, m)
  BY TouchShape
<1> HIDE DEF t
<1>16. \/ m = Len(s) + 1 /\ ~Contains(s, e) /\ Len(s) < SeenCapacity
       \/ m <= Len(s) /\ s[m] = e
       \/ m = 1 /\ Len(s) = SeenCapacity /\ ~Contains(s, e)
  BY <1>2, Zenon DEF Touched
<1>17. /\ m = Len(s) + 1 => Len(s) < SeenCapacity
       /\ m <= Len(s) => s[m] = e \/ (m = 1 /\ Len(s) = SeenCapacity /\ ~Contains(s, e))
  <2>1. m = Len(s) + 1 => ~(m <= Len(s))
    OBVIOUS
  <2>2. Len(s) = SeenCapacity => 1 <= Len(s)
    BY <1>0
  <2>3. Len(s) = SeenCapacity => ~(Len(s) < SeenCapacity) /\ 1 # Len(s) + 1
    BY <1>0
  <2> QED BY <1>16, <2>1, <2>2, <2>3, Zenon
<1>3. Len(s) \in Nat /\ DOMAIN s = 1..Len(s) /\ Len(t) \in Nat /\ DOMAIN t = 1..Len(t)
  BY <1>1
<1> DEFINE k == IF m <= Len(s) THEN Len(s) - 1 ELSE Len(s)
           from(i) == IF i < m THEN i ELSE i + 1
<1>4. Len(t) = k + 1 /\ t[k + 1] = e
  BY <1>2 DEF Touched
<1>5. k \in Nat
  BY <1>3
<1>6. ASSUME NEW i \in 1..k
      PROVE  from(i) \in 1..Len(s) /\ t[i] = s[from(i)] /\ t[i] # e
  <2>1. t[i] = s[from(i)]
    BY <1>2 DEF Touched
  <2>2. from(i) \in 1..Len(s) /\ from(i) # m
    BY <1>3
  <2>3. s[from(i)] # e
    <3>1. CASE m <= Len(s) /\ s[m] = e
      BY <2>2, <3>1, <1>3 DEF IsInjective
    <3>2. CASE ~Contains(s, e)
      BY <2>2, <3>2 DEF Contains
    <3> QED BY <1>2, <3>1, <3>2 DEF Touched
  <2> QED BY <2>1, <2>2, <2>3
<1>7. \A i, j \in 1..k : from(i) = from(j) => i = j
  BY <1>3
<1>8. \A i, j \in 1..k : i < j => from(i) < from(j)
  BY <1>3
<1> HIDE DEF from
<1>9. \A i \in 1..Len(t) : i \in 1..k \/ i = k + 1
  BY <1>4, <1>5
<1>10. IsInjective(t)
  <2> SUFFICES ASSUME NEW i \in 1..Len(t), NEW j \in 1..Len(t), t[i] = t[j] PROVE i = j
    BY <1>3 DEF IsInjective
  <2>1. CASE i \in 1..k /\ j \in 1..k
    BY <2>1, <1>3, <1>6, <1>7 DEF IsInjective
  <2>2. CASE i = k + 1 \/ j = k + 1
    BY <2>2, <1>4, <1>6, <1>9
  <2> QED BY <1>9, <2>1, <2>2
<1>11. Len(t) <= SeenCapacity
  <2>2. CASE m <= Len(s)
    BY <1>0, <2>2, <1>3, <1>4
  <2>3. CASE m > Len(s)
    <3>1. m = Len(s) + 1
      BY <2>3, <1>3
    <3>2. Len(s) < SeenCapacity
      BY <3>1, <1>17, Zenon
    <3>3. k = Len(s)
      <4>1. Len(s) \in Nat /\ ~(m <= Len(s))
        BY <2>3, <1>3
      <4> HIDE DEF from
      <4> QED BY <4>1
    <3>4. Len(t) = k + 1 /\ Len(s) \in Nat
      BY <1>3, <1>4
    <3> HIDE DEF k
    <3> QED BY <1>0, <3>2, <3>3, <3>4
  <2> QED BY <1>3, <2>2, <2>3
<1>12. e \in Range(t)
  BY <1>3, <1>4, <1>5 DEF Range
<1>13. Range(t) \subseteq Range(s) \cup {e}
  BY <1>3, <1>4, <1>6, <1>9 DEF Range
<1>14. ASSUME NEW x, NEW y, Before(t, x, y) PROVE x # e /\ (y = e \/ Before(s, x, y))
  <2>1. PICK i, j \in 1..Len(t) : i < j /\ t[i] = x /\ t[j] = y
    BY <1>14 DEF Before
  <2>2. i \in 1..k
    BY <2>1, <1>4, <1>5
  <2>3. CASE j = k + 1
    BY <2>1, <2>2, <2>3, <1>4, <1>6
  <2>4. CASE j \in 1..k
    BY <2>1, <2>2, <2>4, <1>6, <1>8 DEF Before
  <2> QED BY <1>9, <2>3, <2>4
<1>15. ASSUME NEW x \in Range(s), x \notin Range(t)
       PROVE  Len(s) = SeenCapacity /\ e \notin Range(s) /\ x = s[1]
  <2>1. PICK a \in 1..Len(s) : s[a] = x
    BY <1>3 DEF Range
  <2>2. a = m
    <3> SUFFICES ASSUME a # m PROVE FALSE
      OBVIOUS
    <3> DEFINE i == IF a < m THEN a ELSE a - 1
    <3>1. i \in 1..k /\ from(i) = a
      BY <1>3 DEF from
    <3>2. i \in 1..Len(t)
      BY <3>1, <1>4, <1>5
    <3>3. t[i] = x
      BY <3>1, <1>6, <2>1
    <3> QED BY <3>2, <3>3, <1>3, <1>15 DEF Range
  <2>3. x # e
    BY <1>12, <1>15
  <2>4. m = 1 /\ Len(s) = SeenCapacity /\ ~Contains(s, e)
    <3>1. m <= Len(s) /\ s[m] # e
      BY <1>3, <2>1, <2>2, <2>3
    <3> QED BY <3>1, <1>17, Zenon
  <2>5. e \notin Range(s)
    BY <1>3, <2>4 DEF Contains, Range
  <2> QED BY <2>1, <2>2, <2>4, <2>5
<1> QED BY <1>1, <1>10, <1>11, <1>12, <1>13, <1>14, <1>15 DEF t

---------------------------------------------------------------------------
\* The recursion over a response.

\* The recursion over a response has a value at every event.
LEMMA LiveFolds ==
  ASSUME NEW p, NEW n \in Nat, NEW R, NEW d
  PROVE  \E g : g = [i \in 0..n |-> IF i = 0 THEN p ELSE LiveEvent(g[i - 1], R, i, d)]
<1> DEFINE F(g, m) == g = [i \in 0..m |-> IF i = 0 THEN p ELSE LiveEvent(g[i - 1], R, i, d)]
           S == {m \in 0..n : \E g : F(g, m)}
<1>1. 0 \in S
  <2>1. F([i \in 0..0 |-> p], 0)
    OBVIOUS
  <2> HIDE DEF F
  <2>2. \E g : F(g, 0)
    BY <2>1
  <2> QED BY <2>2
<1>2. \A m \in 0..n : m # n /\ m \in S => m + 1 \in S
  <2> SUFFICES ASSUME NEW m \in 0..n, m # n, m \in S PROVE m + 1 \in S
    OBVIOUS
  <2>1. PICK g : F(g, m)
    OBVIOUS
  <2> DEFINE h == [i \in 0..(m + 1) |-> IF i = m + 1 THEN LiveEvent(g[m], R, m + 1, d) ELSE g[i]]
  <2>2. \A i \in 0..m : h[i] = g[i]
    OBVIOUS
  <2>3. \A i \in 0..(m + 1) : h[i] = IF i = 0 THEN p ELSE LiveEvent(h[i - 1], R, i, d)
    <3> SUFFICES ASSUME NEW i \in 0..(m + 1)
                 PROVE  h[i] = IF i = 0 THEN p ELSE LiveEvent(h[i - 1], R, i, d)
      OBVIOUS
    <3>1. CASE i = m + 1
      BY <3>1, <2>2
    <3>2. CASE i # m + 1
      <4>1. i \in 0..m /\ (i # 0 => i - 1 \in 0..m)
        BY <3>2
      <4> QED BY <4>1, <2>1, <2>2
    <3> QED BY <3>1, <3>2
  <2>4. F(h, m + 1)
    BY <2>3
  <2> HIDE DEF F, h
  <2>5. \E k : F(k, m + 1)
    BY <2>4
  <2> QED BY <2>5
<1> HIDE DEF S
<1>3. n \in S
  BY <1>1, <1>2, UpTo
<1> QED BY <1>3 DEF S

\* The values of the recursion that Live is, from the first event to the last.
LiveRun(g, p, R, d) ==
  /\ g[0] = p /\ Live(p, R, d) = g[Len(R)]
  /\ \A i \in 1..Len(R) : g[i] = LiveEvent(g[i - 1], R, i, d)

LEMMA LiveUnfolds ==
  ASSUME NEW p, NEW R, NEW d, Len(R) \in Nat
  PROVE  \E g : LiveRun(g, p, R, d)
<1> DEFINE F(g) == g = [i \in 0..Len(R) |-> IF i = 0 THEN p ELSE LiveEvent(g[i - 1], R, i, d)]
           f == CHOOSE g : g = [i \in 0..Len(R) |-> IF i = 0 THEN p ELSE LiveEvent(g[i - 1], R, i, d)]
<1>1. F(f)
  BY LiveFolds
<1>2. Live(p, R, d) = f[Len(R)]
  BY Zenon DEF Live
<1> HIDE DEF f
<1>3. LiveRun(f, p, R, d)
  BY <1>1, <1>2 DEF LiveRun
<1> QED BY <1>3, Zenon
LEMMA BaselineFolds ==
  ASSUME NEW p, NEW n \in Nat, NEW R
  PROVE  \E g : g = [i \in 0..n |-> IF i = 0 THEN p ELSE BaselineEvent(g[i - 1], R, i)]
<1> DEFINE F(g, m) == g = [i \in 0..m |-> IF i = 0 THEN p ELSE BaselineEvent(g[i - 1], R, i)]
           S == {m \in 0..n : \E g : F(g, m)}
<1>1. 0 \in S
  <2>1. F([i \in 0..0 |-> p], 0)
    OBVIOUS
  <2> HIDE DEF F
  <2>2. \E g : F(g, 0)
    BY <2>1
  <2> QED BY <2>2
<1>2. \A m \in 0..n : m # n /\ m \in S => m + 1 \in S
  <2> SUFFICES ASSUME NEW m \in 0..n, m # n, m \in S PROVE m + 1 \in S
    OBVIOUS
  <2>1. PICK g : F(g, m)
    OBVIOUS
  <2> DEFINE h == [i \in 0..(m + 1) |-> IF i = m + 1 THEN BaselineEvent(g[m], R, m + 1) ELSE g[i]]
  <2>2. \A i \in 0..m : h[i] = g[i]
    OBVIOUS
  <2>3. \A i \in 0..(m + 1) : h[i] = IF i = 0 THEN p ELSE BaselineEvent(h[i - 1], R, i)
    <3> SUFFICES ASSUME NEW i \in 0..(m + 1)
                 PROVE  h[i] = IF i = 0 THEN p ELSE BaselineEvent(h[i - 1], R, i)
      OBVIOUS
    <3>1. CASE i = m + 1
      BY <3>1, <2>2
    <3>2. CASE i # m + 1
      <4>1. i \in 0..m /\ (i # 0 => i - 1 \in 0..m)
        BY <3>2
      <4> QED BY <4>1, <2>1, <2>2
    <3> QED BY <3>1, <3>2
  <2>4. F(h, m + 1)
    BY <2>3
  <2> HIDE DEF F, h
  <2>5. \E k : F(k, m + 1)
    BY <2>4
  <2> QED BY <2>5
<1> HIDE DEF S
<1>3. n \in S
  BY <1>1, <1>2, UpTo
<1> QED BY <1>3 DEF S

\* The values of the recursion that Baseline is.
BaselineRun(g, u, R) ==
  /\ g[0] = [updater |-> u, latest |-> Nothing]
  /\ Baseline(u, R) \in
       {g[Len(R)].updater, Put(g[Len(R)].updater, {"target"}, g[Len(R)].latest)}
  /\ \A i \in 1..Len(R) : g[i] = BaselineEvent(g[i - 1], R, i)

LEMMA BaselineUnfolds ==
  ASSUME NEW u, NEW R, Len(R) \in Nat
  PROVE  \E g : BaselineRun(g, u, R)
<1> DEFINE p == [updater |-> u, latest |-> Nothing]
           F(g) == g = [i \in 0..Len(R) |-> IF i = 0 THEN p ELSE BaselineEvent(g[i - 1], R, i)]
           f == CHOOSE g : g = [i \in 0..Len(R) |-> IF i = 0 THEN p ELSE BaselineEvent(g[i - 1], R, i)]
<1>1. F(f)
  <2> HIDE DEF p
  <2> QED BY BaselineFolds
<1>2. Baseline(u, R) = IF f[Len(R)].latest = Nothing THEN f[Len(R)].updater
                       ELSE Put(f[Len(R)].updater, {"target"}, f[Len(R)].latest)
  BY Zenon DEF Baseline
<1> HIDE DEF f
<1>3. f[0] = p /\ \A i \in 1..Len(R) : f[i] = BaselineEvent(f[i - 1], R, i)
  <2> HIDE DEF p
  <2> QED BY <1>1
<1>4. Baseline(u, R) \in {f[Len(R)].updater, Put(f[Len(R)].updater, {"target"}, f[Len(R)].latest)}
  BY <1>2
<1>5. BaselineRun(f, u, R)
  BY <1>3, <1>4, Zenon DEF BaselineRun
<1> QED BY <1>5, Zenon

---------------------------------------------------------------------------
\* What an event does to the memory.

\* What an updater consists of.
Fields == {"status", "focuserAt", "waitAt", "seen", "tombstones"}
Formed(u) == DOMAIN u = Fields /\ u.status = [c \in Cells |-> u.status[c]]

\* A change of what is shown leaves what is remembered of events alone.
Recalls(u, v) == Formed(v) /\ v.seen = u.seen /\ v.tombstones = u.tombstones

LEMMA PutRecalls == \A u, cells, value : Formed(u) => Recalls(u, Put(u, cells, value))
BY DEF Formed, Fields, Recalls, Put

LEMMA MarksRecall ==
  \A u, t : Formed(u) => Recalls(u, [u EXCEPT !.waitAt = t]) /\ Recalls(u, [u EXCEPT !.focuserAt = t])
BY DEF Formed, Fields, Recalls

LEMMA RecallsOn == \A u, v, w : Recalls(u, v) /\ Recalls(v, w) => Recalls(u, w)
BY DEF Recalls

LEMMA ApplyRecalls == \A u, e : Formed(u) => Recalls(u, ApplyEvent(u, e))
<1> SUFFICES ASSUME NEW u, NEW e, Formed(u) PROVE Recalls(u, ApplyEvent(u, e))
  OBVIOUS
<1> DEFINE base == Put(Put(u, Emptied(u, e), Nothing), Filled(u, e), e)
<1>0. Recalls(u, u)
  BY DEF Recalls
<1>1. Recalls(u, base) /\ Formed(base)
  BY PutRecalls, RecallsOn DEF Recalls
<1>2. ApplyEvent(u, e) \in {u, RecordWait(base, e), ClearWaitsAt(base, e.time),
                            [base EXCEPT !.focuserAt = e.time], base}
  BY DEF ApplyEvent
<1> HIDE DEF base
<1>3. Recalls(u, RecordWait(base, e))
  <2> DEFINE late == [base EXCEPT !.waitAt = Later(@, e.time)]
  <2>1. Formed(late) /\ Recalls(u, late)
    <3>1. Formed(late) /\ Recalls(base, late)
      BY <1>1 DEF Formed, Fields, Recalls
    <3> QED BY <1>1, <3>1, RecallsOn
  <2> HIDE DEF late
  <2>2. Recalls(u, Put(late, {"wait"}, IF e.detail = "empty" THEN Nothing ELSE e))
    BY <2>1, PutRecalls, RecallsOn, Zenon
  <2>3. RecordWait(base, e) = Put(late, {"wait"}, IF e.detail = "empty" THEN Nothing ELSE e)
    BY Zenon DEF RecordWait, late
  <2> QED BY <2>2, <2>3, Zenon
<1>4. Recalls(u, ClearWaitsAt(base, e.time))
  <2> DEFINE at == [base EXCEPT !.waitAt = e.time]
  <2>1. Formed(at) /\ Recalls(base, at)
    BY <1>1 DEF Formed, Fields, Recalls
  <2>2. Recalls(u, at)
    BY <1>1, <2>1, RecallsOn, Zenon
  <2> HIDE DEF at
  <2>3. Recalls(u, Put(at, {"wait"}, Nothing)) /\ Recalls(u, Put(base, {"wait"}, Nothing))
    BY <1>1, <2>1, <2>2, PutRecalls, RecallsOn, Zenon
  <2>4. \/ ClearWaitsAt(base, e.time) = Put(base, {"wait"}, Nothing)
        \/ ClearWaitsAt(base, e.time) = Put(at, {"wait"}, Nothing)
        \/ ClearWaitsAt(base, e.time) = base
    BY Zenon DEF ClearWaitsAt, at
  <2> QED BY <1>1, <2>3, <2>4, Zenon
<1>5. Recalls(u, [base EXCEPT !.focuserAt = e.time])
  BY <1>1, MarksRecall, RecallsOn
<1> QED BY <1>0, <1>1, <1>2, <1>3, <1>4, <1>5

LEMMA RevokeRecalls == \A u, e : Formed(u) => Recalls(u, Revoke(u, e))
<1> SUFFICES ASSUME NEW u, NEW e, Formed(u) PROVE Recalls(u, Revoke(u, e))
  OBVIOUS
<1> DEFINE gone == Put(u, Revokes(Scope(e.kind)), Nothing)
<1>1. Recalls(u, gone) /\ Formed(gone)
  BY PutRecalls DEF Recalls
<1> HIDE DEF gone
<1>2. Recalls(gone, [gone EXCEPT !.waitAt = Later(@, e.time)])
  BY <1>1 DEF Formed, Fields, Recalls
<1>3. Recalls(gone, [gone EXCEPT !.focuserAt = e.time])
  BY <1>1 DEF Formed, Fields, Recalls
<1>4. \/ Revoke(u, e) = [gone EXCEPT !.waitAt = Later(@, e.time)]
      \/ Revoke(u, e) = [gone EXCEPT !.focuserAt = e.time]
      \/ Revoke(u, e) = gone
  BY Zenon DEF Revoke, gone
<1>5. Recalls(u, [gone EXCEPT !.waitAt = Later(@, e.time)])
  BY <1>1, <1>2, RecallsOn, Zenon
<1>6. Recalls(u, [gone EXCEPT !.focuserAt = e.time])
  BY <1>1, <1>3, RecallsOn, Zenon
<1> QED BY <1>1, <1>4, <1>5, <1>6, Zenon

LEMMA RememberRecalls == \A u, e : Formed(u) => Recalls(u, Remember(u, e))
BY PutRecalls DEF Remember, Recalls

LEMMA ExpireRecalls == \A u, ended : Formed(u) => Recalls(u, ExpireTarget(u, ended))
BY PutRecalls DEF ExpireTarget, Recalls

\* What is skipped is not noted, and what is not is touched.
PassedOver(R, i) == R[i].on => BeforeBoundary(R, i) \/ ~Usable(R[i]) \/ Redundant(R[i])

LEMMA TouchForms ==
  \A u, s, t : Formed(u) =>
    /\ Formed([u EXCEPT !.seen = s]) /\ [u EXCEPT !.seen = s].seen = s
    /\ [u EXCEPT !.seen = s].tombstones = u.tombstones
    /\ Formed([u EXCEPT !.tombstones = t]) /\ [u EXCEPT !.tombstones = t].seen = u.seen
    /\ [u EXCEPT !.tombstones = t].tombstones = t
BY DEF Formed, Fields

LEMMA SeenForms ==
  \A u, e : Formed(u) =>
    LET v == [u EXCEPT !.seen = Touch(@, e)] IN
    Formed(v) /\ v.seen = Touch(u.seen, e)
<1> SUFFICES ASSUME NEW u, NEW e, Formed(u)
             PROVE  LET v == [u EXCEPT !.seen = Touch(@, e)] IN
                    Formed(v) /\ v.seen = Touch(u.seen, e)
  OBVIOUS
<1> DEFINE s == Touch(u.seen, e)
<1>1. [u EXCEPT !.seen = Touch(@, e)] = [u EXCEPT !.seen = s]
  OBVIOUS
<1> HIDE DEF s
<1>2. Formed([u EXCEPT !.seen = s]) /\ [u EXCEPT !.seen = s].seen = s
  BY TouchForms
<1> QED BY <1>1, <1>2, Zenon DEF s

LEMMA SeenShape ==
  \A u, e : Formed(u) =>
    LET v == [u EXCEPT !.seen = Touch(@, e)] IN
    Formed(v) /\ v.status = u.status /\ v.tombstones = u.tombstones
<1> SUFFICES ASSUME NEW u, NEW e, Formed(u)
             PROVE  LET v == [u EXCEPT !.seen = Touch(@, e)] IN
                    Formed(v) /\ v.status = u.status /\ v.tombstones = u.tombstones
  OBVIOUS
<1> DEFINE s == Touch(u.seen, e)
<1>1. [u EXCEPT !.seen = Touch(@, e)] = [u EXCEPT !.seen = s]
  OBVIOUS
<1> HIDE DEF s
<1>2. /\ Formed([u EXCEPT !.seen = s]) /\ [u EXCEPT !.seen = s].status = u.status
      /\ [u EXCEPT !.seen = s].tombstones = u.tombstones
  BY DEF Formed, Fields
<1> QED BY <1>1, <1>2, Zenon DEF s

LEMMA NotedShape ==
  \A u, t : Formed(u) =>
    LET v == [u EXCEPT !.tombstones = Touch(@, t)] IN
    Formed(v) /\ v.status = u.status /\ v.tombstones = Touch(u.tombstones, t)
<1> SUFFICES ASSUME NEW u, NEW t, Formed(u)
             PROVE  LET v == [u EXCEPT !.tombstones = Touch(@, t)] IN
                    Formed(v) /\ v.status = u.status /\ v.tombstones = Touch(u.tombstones, t)
  OBVIOUS
<1> DEFINE s == Touch(u.tombstones, t)
<1>1. [u EXCEPT !.tombstones = Touch(@, t)] = [u EXCEPT !.tombstones = s]
  OBVIOUS
<1> HIDE DEF s
<1>2. /\ Formed([u EXCEPT !.tombstones = s]) /\ [u EXCEPT !.tombstones = s].status = u.status
      /\ [u EXCEPT !.tombstones = s].tombstones = s
  BY DEF Formed, Fields
<1> QED BY <1>1, <1>2, Zenon DEF s

LEMMA LiveEventMemory ==
  ASSUME NEW p, NEW R, NEW i, NEW d, Formed(p.updater), DOMAIN p = {"updater", "announced"}
  PROVE  LET q == LiveEvent(p, R, i, d) IN
         /\ Formed(q.updater) /\ DOMAIN q = {"updater", "announced"}
         /\ PassedOver(R, i) =>
              q.updater.seen = p.updater.seen /\ q.announced = p.announced
         /\ ~PassedOver(R, i) =>
              /\ q.updater.seen = Touch(p.updater.seen, R[i])
              /\ \/ q.announced = p.announced
                 \/ ~Contains(p.updater.seen, R[i]) /\ q.announced = Append(p.announced, R[i])
<1> DEFINE e == R[i]
           u == p.updater
           q == LiveEvent(p, R, i, d)
           touched == [u EXCEPT !.seen = Touch(@, e)]
           noted == [u EXCEPT !.tombstones = Touch(@, Tombstone(e))]
<1>1. Formed(touched) /\ touched.seen = Touch(u.seen, e)
  BY SeenForms, Zenon
<1>2. Formed(noted) /\ noted.seen = u.seen
  BY TouchForms
<1> HIDE DEF touched, noted
<1>3. \A v : /\ DOMAIN [p EXCEPT !.updater = v] = {"updater", "announced"}
            /\ [p EXCEPT !.updater = v].updater = v
            /\ [p EXCEPT !.updater = v].announced = p.announced
  <2>1. \A v : DOMAIN [p EXCEPT !.updater = v] = {"updater", "announced"}
    BY Zenon
  <2>2. \A v : [p EXCEPT !.updater = v].updater = v
    BY Zenon
  <2>3. \A v : [p EXCEPT !.updater = v].announced = p.announced
    BY Zenon
  <2> QED BY <2>1, <2>2, <2>3
<1>4. CASE e.on /\ BeforeBoundary(R, i)
  <2>1. q = p /\ PassedOver(R, i)
    BY <1>4, Zenon DEF LiveEvent, PassedOver
  <2> QED BY <2>1
<1>5. CASE ~e.on
  <2>1. PassedOver(R, i)
    BY <1>5, Zenon DEF PassedOver
  <2>2. \/ q = [p EXCEPT !.updater = noted]
        \/ q = [p EXCEPT !.updater = Revoke(noted, e)]
    BY <1>5, Zenon DEF LiveEvent, noted
  <2>3. Formed(Revoke(noted, e)) /\ Revoke(noted, e).seen = u.seen
    BY <1>2, RevokeRecalls DEF Recalls
  <2> HIDE DEF q
  <2> QED BY <1>2, <1>3, <2>1, <2>2, <2>3 DEF q
<1>6. CASE e.on /\ ~BeforeBoundary(R, i) /\ (~Usable(e) \/ Redundant(e))
  <2>1. q = p /\ PassedOver(R, i)
    BY <1>6, Zenon DEF LiveEvent, PassedOver
  <2> QED BY <2>1
<1>7. CASE e.on /\ ~BeforeBoundary(R, i) /\ ~(~Usable(e) \/ Redundant(e))
  <2>1. ~PassedOver(R, i)
    BY <1>7, Zenon DEF PassedOver
  <2>2. CASE Contains(u.seen, e)
    <3>1. q = [p EXCEPT !.updater = touched]
      BY <1>7, <2>2, Zenon DEF LiveEvent, touched
    <3> HIDE DEF q
    <3> QED BY <1>1, <1>3, <2>1, <3>1 DEF q
  <2>3. CASE ~Contains(u.seen, e) /\ e \in d
    <3>1. q = [p EXCEPT !.updater = ApplyEvent(touched, e)]
      BY <1>7, <2>3, Zenon DEF LiveEvent, touched
    <3>2. Formed(ApplyEvent(touched, e)) /\ ApplyEvent(touched, e).seen = Touch(u.seen, e)
      BY <1>1, ApplyRecalls DEF Recalls
    <3> HIDE DEF q
    <3> QED BY <1>3, <2>1, <3>1, <3>2 DEF q
  <2>4. CASE ~Contains(u.seen, e) /\ e \notin d
    <3> DEFINE v == IF Refuses(u, e) THEN touched ELSE Remember(ApplyEvent(touched, e), e)
               a == IF Announces(u, e) THEN Append(p.announced, e) ELSE p.announced
    <3>1. q = [updater |-> v, announced |-> a]
      BY <1>7, <2>4, Zenon DEF LiveEvent, touched
    <3>2. Recalls(touched, Remember(ApplyEvent(touched, e), e))
      BY <1>1, ApplyRecalls, RememberRecalls DEF Recalls
    <3>3. Formed(v) /\ v.seen = Touch(u.seen, e)
      BY <1>1, <3>2 DEF Recalls
    <3>4. a = p.announced \/ a = Append(p.announced, e)
      OBVIOUS
    <3> HIDE DEF q, v, a
    <3>5. DOMAIN q = {"updater", "announced"} /\ q.updater = v /\ q.announced = a
      BY <3>1
    <3> QED BY <2>1, <2>4, <3>3, <3>4, <3>5 DEF q
  <2> QED BY <2>2, <2>3, <2>4
<1> QED BY <1>4, <1>5, <1>6, <1>7

LEMMA BaselineEventMemory ==
  ASSUME NEW p, NEW R, NEW i, Formed(p.updater)
  PROVE  LET q == BaselineEvent(p, R, i) IN
         /\ Formed(q.updater)
         /\ \/ PassedOver(R, i) /\ q.updater.seen = p.updater.seen
            \/ q.updater.seen = Touch(p.updater.seen, R[i])
<1> DEFINE e == R[i]
           u == p.updater
           q == BaselineEvent(p, R, i)
           noted == [u EXCEPT !.tombstones = Touch(@, Tombstone(e))]
           known == IF e.kind = "FILTERWHEEL-CHANGED" /\ e.detail # "empty"
                    THEN Put(u, {"filter"}, e) ELSE u
           told == [ApplyEvent(known, e) EXCEPT !.seen = Touch(@, e)]
<1>1. Formed(noted) /\ noted.seen = u.seen
  BY TouchForms
<1>2. Formed(Revoke(noted, e)) /\ Revoke(noted, e).seen = u.seen
  BY <1>1, RevokeRecalls DEF Recalls
<1>3. Formed(known) /\ known.seen = u.seen
  BY PutRecalls DEF Recalls
<1>4. Formed(ApplyEvent(known, e)) /\ ApplyEvent(known, e).seen = u.seen
  <2> HIDE DEF known
  <2> QED BY <1>3, ApplyRecalls DEF Recalls
<1>5. Formed(told) /\ told.seen = Touch(u.seen, e)
  <2> DEFINE a == ApplyEvent(known, e)
  <2>1. Formed(a) /\ a.seen = u.seen
    BY <1>4
  <2> HIDE DEF a
  <2>2. Formed([a EXCEPT !.seen = Touch(@, e)]) /\ [a EXCEPT !.seen = Touch(@, e)].seen = Touch(a.seen, e)
    BY <2>1, SeenForms, Zenon
  <2> QED BY <2>1, <2>2, Zenon DEF a
<1>6. CASE e.on /\ BeforeBoundary(R, i)
  <2>1. q = p /\ PassedOver(R, i)
    BY <1>6, Zenon DEF BaselineEvent, PassedOver
  <2> QED BY <2>1
<1>7. CASE ~e.on
  <2>1. q.updater = Revoke(noted, e) /\ PassedOver(R, i)
    <3>1. BaselineEvent(p, R, i) =
            [updater |-> Revoke(noted, e),
             latest |-> IF Scope(e.kind) = "TargetScheduler" THEN Nothing ELSE p.latest]
      BY <1>7, Zenon DEF BaselineEvent
    <3>2. PassedOver(R, i)
      BY <1>7, Zenon DEF PassedOver
    <3> HIDE DEF noted
    <3> QED BY <3>1, <3>2
  <2> QED BY <1>2, <2>1
<1>8. CASE e.on /\ ~BeforeBoundary(R, i) /\ Redundant(e)
  <2>1. q = p /\ PassedOver(R, i)
    BY <1>8, Zenon DEF BaselineEvent, PassedOver
  <2> QED BY <2>1
<1>9. CASE e.on /\ ~BeforeBoundary(R, i) /\ ~Redundant(e)
  <2>1. q.updater = told
    <3>1. BaselineEvent(p, R, i) =
            [updater |-> told,
             latest |-> IF NamesTarget(e) /\ NewerTarget(e, p.latest) THEN e ELSE p.latest]
      BY <1>9, Zenon DEF BaselineEvent
    <3> HIDE DEF told
    <3> QED BY <3>1
  <2> QED BY <1>5, <2>1
<1> QED BY <1>6, <1>7, <1>8, <1>9

---------------------------------------------------------------------------
\* The invariant.

\* A place in the rig's log.
Places == 1..Len(log)

\* The rig still answers with it.
Retained(i) == i > Len(log) - EventRetention

\* A disabled event of its scope has followed it.
Hidden(i) == \E j \in Places : i < j /\ ~log[j].on /\ Scope(log[j].kind) = Scope(log[i].kind)

\* An event that is remembered, whenever it is read.
Notable(i) == log[i].on /\ Usable(log[i]) /\ ~Redundant(log[i]) /\ ~Hidden(i)

\* What the steps below rely on of the types.
Shapes ==
  /\ menu \in RigMenus /\ log \in Seq(menu) /\ answered \in 0..Len(log)
  /\ Formed(updater) /\ updater.seen \in Seq(Range(log)) /\ announced \in Seq(Range(log))
  /\ IsInjective(updater.seen) /\ Len(updater.seen) <= SeenCapacity

\* What the rig has logged and answered with: reads start where the last one
\* ended, so what is still retained was given from the oldest on.
HistoryRead ==
  /\ IsInjective(log)
  /\ given \subseteq Range(log)
  /\ ~baselined => answered = 0 /\ given = {} /\ updater.seen = <<>>
  /\ \A i, j \in Places : i < j /\ log[j] \in given /\ Retained(i) => log[i] \in given
  /\ answered # 0 => \A i \in Places : Retained(i) /\ i <= answered => log[i] \in given

\* What was announced, by whichever updater, has been read by this one too, if the
\* rig still has it.
AnnouncedRead ==
  baselined => \A i \in Places : Retained(i) /\ log[i] \in Range(announced) => log[i] \in given

\* Every notable event that may come again is remembered ...
Remembered ==
  /\ Range(updater.seen) \subseteq given
  /\ \A i \in Places :
       Retained(i) /\ Notable(i) /\ log[i] \in given => log[i] \in Range(updater.seen)

\* ... and the older ones are forgotten first.
OldestFirst ==
  \A i, j \in Places : Notable(i) /\ Before(updater.seen, log[i], log[j]) => i < j

MemoryInv ==
  Shapes /\ HistoryRead /\ AnnouncedRead /\ Remembered /\ OldestFirst /\ AnnouncedOnce

---------------------------------------------------------------------------
\* In the middle of a response.

\* The place that a response starts at.
First == 1 + Later(answered, IF Len(log) > EventRetention THEN Len(log) - EventRetention ELSE 0)

\* What has been given when a response has been handled up to place k.
ReadUpTo(k) == given \cup {log[x] : x \in First..k}

\* The memory, when a response has been handled up to place k.
Midway(s, k) ==
  /\ s \in Seq(Range(log)) /\ IsInjective(s) /\ Len(s) <= SeenCapacity
  /\ Range(s) \subseteq ReadUpTo(k)
  /\ \A i \in Places :
       Retained(i) /\ Notable(i) /\ log[i] \in ReadUpTo(k) => log[i] \in Range(s)
  /\ \A i, j \in Places : Notable(i) /\ Before(s, log[i], log[j]) => i < j \/ i > k

\* What has been announced, when a response has been handled up to place k.
Told(a, k) ==
  /\ a \in Seq(Range(log)) /\ IsInjective(a)
  /\ \A i \in Places : Retained(i) /\ log[i] \in Range(a) => log[i] \in ReadUpTo(k)

LEMMA Logged ==
  ASSUME Shapes, HistoryRead
  PROVE  /\ Len(log) \in Nat /\ DOMAIN log = 1..Len(log)
         /\ Range(log) = {log[i] : i \in Places}
         /\ \A i, j \in Places : log[i] = log[j] => i = j
<1>1. log \in Seq(menu)
  BY DEF Shapes
<1>2. Len(log) \in Nat /\ DOMAIN log = 1..Len(log)
  BY <1>1
<1> QED BY <1>2 DEF HistoryRead, IsInjective, Places, Range

LEMMA Starts ==
  ASSUME Shapes
  PROVE  /\ First \in 1..(Len(log) + 1) /\ First > answered
         /\ \A i \in Places : i >= First => Retained(i)
         /\ \A i \in Places : Retained(i) /\ i < First => answered # 0 /\ i <= answered
<1>1. Len(log) \in Nat /\ answered \in 0..Len(log)
  BY DEF Shapes
<1>2. EventRetention \in Nat
  BY RigEventsAssumption
<1> QED BY <1>1, <1>2 DEF First, Later, Places, Retained

LEMMA Responded ==
  ASSUME Shapes, HistoryRead
  PROVE  LET R == EventResponse IN
         /\ R \in Seq(menu) /\ Len(R) = Len(log) - First + 1
         /\ \A i \in 1..Len(R) : R[i] = log[First - 1 + i]
         /\ Range(R) = {log[x] : x \in First..Len(log)}
<1> DEFINE R == EventResponse
<1>1. R = SubSeq(log, First, Len(log))
  BY DEF EventResponse, First
<1>2. log \in Seq(menu) /\ Len(log) \in Nat
  BY DEF Shapes
<1>3. First \in 1..(Len(log) + 1)
  BY Starts
<1> HIDE DEF R
<1>4. /\ R \in Seq(menu) /\ Len(R) = Len(log) - First + 1
      /\ \A i \in 1..Len(R) : R[i] = log[First - 1 + i]
  BY <1>1, <1>2, <1>3
<1>5. Range(R) = {log[x] : x \in First..Len(log)}
  <2>1. DOMAIN R = 1..Len(R)
    BY <1>4
  <2>2. ASSUME NEW x \in First..Len(log) PROVE log[x] \in Range(R)
    <3>1. x - First + 1 \in 1..Len(R) /\ First - 1 + (x - First + 1) = x
      BY <1>2, <1>3, <1>4
    <3> QED BY <1>4, <2>1, <3>1 DEF Range
  <2>3. ASSUME NEW i \in 1..Len(R) PROVE R[i] \in {log[x] : x \in First..Len(log)}
    <3>1. First - 1 + i \in First..Len(log)
      BY <1>2, <1>3, <1>4
    <3> QED BY <1>4, <3>1
  <2> QED BY <2>1, <2>2, <2>3 DEF Range
<1> QED BY <1>4, <1>5 DEF R

\* What comes before a boundary of the response is hidden in the log.
LEMMA Bounded ==
  ASSUME Shapes, HistoryRead, NEW i \in 1..Len(EventResponse)
  PROVE  /\ First - 1 + i \in Places
         /\ BeforeBoundary(EventResponse, i) <=> Hidden(First - 1 + i)
        /\ EventResponse[i] = log[First - 1 + i]
<1> DEFINE R == EventResponse
           k == First - 1 + i
<1>1. /\ Len(R) \in Nat /\ Len(R) = Len(log) - First + 1
      /\ \A j \in 1..Len(R) : R[j] = log[First - 1 + j]
  BY Responded
<1>2. Len(log) \in Nat /\ First \in 1..(Len(log) + 1)
  BY Starts DEF Shapes
<1>3. k \in Places /\ R[i] = log[k]
  BY <1>1, <1>2 DEF Places
<1>4. BeforeBoundary(R, i) => Hidden(k)
  <2> SUFFICES ASSUME BeforeBoundary(R, i) PROVE Hidden(k)
    OBVIOUS
  <2>1. PICK j \in (i + 1)..Len(R) : ~R[j].on /\ Scope(R[j].kind) = Scope(R[i].kind)
    BY Zenon DEF BeforeBoundary
  <2>2. R[j] = log[First - 1 + j] /\ First - 1 + j \in Places /\ k < First - 1 + j
    BY <1>1, <1>2 DEF Places
  <2>3. ~log[First - 1 + j].on /\ Scope(log[First - 1 + j].kind) = Scope(log[k].kind)
    BY <1>3, <2>1, <2>2, Zenon
  <2> QED BY <2>2, <2>3, Zenon DEF Hidden
<1>5. Hidden(k) => BeforeBoundary(R, i)
  <2> SUFFICES ASSUME Hidden(k) PROVE BeforeBoundary(R, i)
    OBVIOUS
  <2>1. PICK j \in Places : k < j /\ ~log[j].on /\ Scope(log[j].kind) = Scope(log[k].kind)
    BY Zenon DEF Hidden
  <2> DEFINE x == j - First + 1
  <2>2. x \in (i + 1)..Len(R) /\ x \in 1..Len(R) /\ First - 1 + x = j
    BY <1>1, <1>2, <2>1 DEF Places
  <2> HIDE DEF x, R
  <2>3. R[x] = log[j]
    BY <1>1, <2>2
  <2>4. ~R[x].on /\ Scope(R[x].kind) = Scope(R[i].kind)
    BY <1>3, <2>1, <2>3, Zenon
  <2> QED BY <2>2, <2>4, Zenon DEF BeforeBoundary
<1> QED BY <1>3, <1>4, <1>5

\* What a response has passed over is what is not notable.
LEMMA Passed ==
  ASSUME Shapes, HistoryRead, NEW i \in 1..Len(EventResponse)
  PROVE  /\ First - 1 + i \in Places
         /\ PassedOver(EventResponse, i) <=> ~Notable(First - 1 + i)
<1> DEFINE R == EventResponse
           k == First - 1 + i
<1>1. k \in Places /\ (BeforeBoundary(R, i) <=> Hidden(k)) /\ R[i] = log[k]
  BY Bounded
<1> HIDE DEF R, k
<1>2. PassedOver(R, i) <=> ~Notable(k)
  BY <1>1, Zenon DEF PassedOver, Notable
<1> QED BY <1>1, <1>2 DEF R, k

\* The next event adds its key to what has been given.
LEMMA ReadNext ==
  ASSUME Shapes, HistoryRead, NEW k \in (First - 1)..(Len(log) - 1)
  PROVE  /\ k + 1 \in Places /\ ReadUpTo(k + 1) = ReadUpTo(k) \cup {log[k + 1]}
         /\ Retained(k + 1)
         /\ ReadUpTo(k) \subseteq Range(log)
<1>1. Len(log) \in Nat /\ First \in 1..(Len(log) + 1)
  BY Starts, Logged
<1>2. k \in Nat /\ k + 1 \in Places
  BY <1>1 DEF Places
<1>3. First..(k + 1) = (First..k) \cup {k + 1} /\ First..k \subseteq Places
  BY <1>1, <1>2 DEF Places
<1>4. Retained(k + 1)
  <2>1. k + 1 >= First
    BY <1>1
  <2> QED BY <1>2, <2>1, Starts
<1>5. {log[x] : x \in First..(k + 1)} = {log[x] : x \in First..k} \cup {log[k + 1]}
  BY <1>3
<1>6. {log[x] : x \in First..k} \subseteq Range(log)
  BY <1>3, Logged
<1>7. given \subseteq Range(log)
  BY DEF HistoryRead
<1> QED BY <1>2, <1>4, <1>5, <1>6, <1>7, Zenon DEF ReadUpTo

\* What has been given is given, or has been handled by now.
LEMMA ReadMeans ==
  ASSUME Shapes, HistoryRead, NEW k \in (First - 1)..Len(log), NEW i \in Places, log[i] \in ReadUpTo(k)
  PROVE  log[i] \in given \/ i <= k
<1>1. Len(log) \in Nat /\ First \in 1..(Len(log) + 1)
  BY Starts, Logged
<1>2. CASE log[i] \in {log[x] : x \in First..k}
  <2>1. PICK x \in First..k : log[x] = log[i]
    BY <1>2
  <2>2. x \in Places /\ x <= k
    BY <1>1 DEF Places
  <2>3. x = i
    BY <2>1, <2>2, Logged
  <2> QED BY <2>2, <2>3
<1> QED BY <1>2 DEF ReadUpTo

\* An event that is not notable, and is not noted, changes nothing.
LEMMA MidwaySkip ==
  ASSUME Shapes, HistoryRead, NEW k \in (First - 1)..(Len(log) - 1), NEW s, Midway(s, k),
         ~Notable(k + 1)
  PROVE  Midway(s, k + 1)
<1>1. k \in Int /\ \A i \in Places : i \in Int
  BY Starts, Logged DEF Places
<1>2. s \in Seq(Range(log)) /\ IsInjective(s) /\ Len(s) <= SeenCapacity
  BY DEF Midway
<1>3. Range(s) \subseteq ReadUpTo(k + 1)
  BY ReadNext DEF Midway
<1>4. ASSUME NEW i \in Places, Retained(i), Notable(i), log[i] \in ReadUpTo(k + 1)
      PROVE  log[i] \in Range(s)
  <2>1. log[i] \in ReadUpTo(k)
    <3>1. CASE log[i] = log[k + 1]
      <4>1. i = k + 1
        BY <3>1, ReadNext, Logged
      <4> QED BY <1>4, <4>1
    <3> QED BY <1>4, <3>1, ReadNext
  <2> QED BY <1>4, <2>1 DEF Midway
<1>5. ASSUME NEW i \in Places, NEW j \in Places, Notable(i), Before(s, log[i], log[j])
      PROVE  i < j \/ i > k + 1
  <2>1. i < j \/ i > k
    BY <1>5 DEF Midway
  <2>2. i # k + 1
    BY <1>5
  <2> QED BY <1>1, <2>1, <2>2
<1> QED BY <1>2, <1>3, <1>4, <1>5 DEF Midway

\* A full memory and one more key are too many for what the rig retains.
LEMMA TooMany ==
  ASSUME Shapes, HistoryRead, NEW s \in Seq(Range(log)), IsInjective(s), Len(s) = SeenCapacity,
         NEW e, e \notin Range(s), NEW pos,
         \A x \in Range(s) \cup {e} : pos[x] \in Places /\ Retained(pos[x]) /\ log[pos[x]] = x
  PROVE  FALSE
<1>1. SeenCapacity \in Nat /\ EventRetention \in Nat /\ EventRetention <= SeenCapacity
  BY RigEventsAssumption
<1>2. Len(log) \in Nat
  BY Logged
<1>3. DOMAIN s = 1..SeenCapacity
  OBVIOUS
<1> DEFINE S == 0..SeenCapacity
           T == (Len(log) - EventRetention + 1)..Len(log)
           key(i) == IF i = 0 THEN e ELSE s[i]
           f == [i \in S |-> pos[key(i)]]
<1>4. \A i \in S : key(i) \in Range(s) \cup {e}
  BY <1>3 DEF Range
<1>5. \A i, j \in S : key(i) = key(j) => i = j
  <2> SUFFICES ASSUME NEW i \in S, NEW j \in S, key(i) = key(j) PROVE i = j
    OBVIOUS
  <2>1. CASE i # 0 /\ j # 0
    BY <2>1, <1>1, <1>3 DEF IsInjective
  <2>2. CASE i = 0 /\ j # 0
    BY <2>2, <1>1, <1>3 DEF Range
  <2>3. CASE i # 0 /\ j = 0
    BY <2>3, <1>1, <1>3 DEF Range
  <2> QED BY <2>1, <2>2, <2>3
<1> HIDE DEF key
<1>6. \A i \in S : f[i] \in T /\ log[f[i]] = key(i)
  BY <1>1, <1>2, <1>4 DEF Places, Retained
<1>7. f \in [S -> T]
  BY <1>6
<1>8. IsFiniteSet(S) /\ Cardinality(S) = SeenCapacity + 1
  BY <1>1, FS_Interval
<1>9. IsFiniteSet(T) /\ Cardinality(T) <= EventRetention
  <2> DEFINE l == Len(log) - EventRetention + 1
  <2>1. l \in Int /\ Len(log) \in Int /\ Len(log) - l + 1 = EventRetention
    BY <1>1, <1>2
  <2> HIDE DEF l
  <2>2. /\ IsFiniteSet(l..Len(log))
        /\ Cardinality(l..Len(log)) = IF l > Len(log) THEN 0 ELSE Len(log) - l + 1
    BY <2>1, FS_Interval, Zenon
  <2>3. Cardinality(l..Len(log)) <= EventRetention
    BY <1>1, <2>1, <2>2
  <2> QED BY <2>2, <2>3 DEF l
<1>10. Cardinality(T) < Cardinality(S)
  BY <1>1, <1>8, <1>9, FS_CardinalityType
<1> HIDE DEF f, S, T
<1>11. \E x, y \in S : x # y /\ f[x] = f[y]
  BY <1>7, <1>8, <1>9, <1>10, FS_PigeonHole
<1> QED BY <1>5, <1>6, <1>11

\* An event that is noted: nothing that may come again is forgotten for it.
LEMMA MidwayTouch ==
  ASSUME Shapes, HistoryRead, NEW k \in (First - 1)..(Len(log) - 1), NEW s, Midway(s, k),
         Notable(k + 1) \/ given = {}
  PROVE  Midway(Touch(s, log[k + 1]), k + 1)
<1> DEFINE e == log[k + 1]
           t == Touch(s, e)
<1>1. k \in Int /\ k + 1 \in Places /\ \A i \in Places : i \in Int
  BY Starts, Logged, ReadNext DEF Places
<1>2. s \in Seq(Range(log)) /\ IsInjective(s) /\ Len(s) <= SeenCapacity
  BY DEF Midway
<1>3. e \in Range(log)
  BY <1>1, Logged
<1>4. /\ t \in Seq(Range(log)) /\ IsInjective(t) /\ Len(t) <= SeenCapacity
      /\ e \in Range(t) /\ Range(t) \subseteq Range(s) \cup {e}
      /\ \A x, y : Before(t, x, y) => x # e /\ (y = e \/ Before(s, x, y))
      /\ \A x \in Range(s) : x \notin Range(t) =>
           Len(s) = SeenCapacity /\ e \notin Range(s) /\ x = s[1]
  BY <1>2, <1>3, TouchFacts
<1> HIDE DEF t
<1>5. Range(t) \subseteq ReadUpTo(k + 1)
  <2>1. Range(s) \subseteq ReadUpTo(k)
    BY DEF Midway
  <2> QED BY <1>4, <2>1, ReadNext
<1>6. ASSUME NEW i \in Places, Retained(i), Notable(i), log[i] \in ReadUpTo(k + 1)
      PROVE  log[i] \in Range(t)
  <2> SUFFICES ASSUME log[i] \notin Range(t) PROVE FALSE
    OBVIOUS
  <2>1. log[i] # e /\ log[i] \in ReadUpTo(k)
    BY <1>4, <1>6, ReadNext
  <2>2. log[i] \in Range(s)
    BY <1>6, <2>1 DEF Midway
  <2>3. Len(s) = SeenCapacity /\ e \notin Range(s) /\ log[i] = s[1]
    BY <1>4, <2>2
  <2>4. i <= k
    <3> SUFFICES ASSUME ~(i <= k) PROVE FALSE
      OBVIOUS
    <3>1. log[i] \in given
      BY <1>1, <2>1, ReadMeans
    <3>2. i > k + 1
      BY <1>1, <2>1
    <3>3. e \in given
      BY <1>1, <3>1, <3>2, ReadNext DEF HistoryRead
    <3>4. e \in Range(s)
      BY <1>1, <3>1, <3>3, ReadNext DEF Midway, ReadUpTo
    <3> QED BY <2>3, <3>4
  <2>5. ASSUME NEW x \in Range(s) \cup {e}
        PROVE  \E j \in Places : log[j] = x /\ Retained(j)
    <3>1. CASE x = e
      BY <1>1, <3>1, ReadNext
    <3>2. CASE x = log[i]
      BY <1>6, <3>2
    <3>3. CASE x \in Range(s) /\ x # log[i]
      <4>0. x \in Range(log)
        BY <1>2, <3>3 DEF Range
      <4>1. PICK j \in Places : log[j] = x
        BY <4>0, Logged
      <4>2. PICK b \in 1..Len(s) : s[b] = x
        BY <1>2, <3>3 DEF Range
      <4>3. 1 \in 1..Len(s) /\ 1 < b
        BY <1>2, <2>3, <3>3, <4>2
      <4>4. Before(s, log[i], log[j])
        BY <2>3, <4>1, <4>2, <4>3 DEF Before
      <4>5. i < j
        BY <1>1, <1>6, <2>4, <4>4 DEF Midway
      <4>6. Retained(j)
        <5>1. Len(log) \in Nat /\ EventRetention \in Nat /\ i \in Int /\ j \in Int
          BY <1>1, Logged, RigEventsAssumption
        <5> QED BY <1>6, <4>5, <5>1 DEF Retained
      <4> QED BY <4>1, <4>6
    <3> QED BY <3>1, <3>2, <3>3
  <2> DEFINE pos == [x \in Range(s) \cup {e} |-> CHOOSE j \in Places : log[j] = x /\ Retained(j)]
  <2>6. \A x \in Range(s) \cup {e} : pos[x] \in Places /\ Retained(pos[x]) /\ log[pos[x]] = x
    BY <2>5
  <2> HIDE DEF pos
  <2> QED BY <1>2, <2>3, <2>6, TooMany
<1>7. ASSUME NEW i \in Places, NEW j \in Places, Notable(i), Before(t, log[i], log[j])
      PROVE  i < j \/ i > k + 1
  <2>1. log[i] # e /\ (log[j] = e \/ Before(s, log[i], log[j]))
    BY <1>4, <1>7
  <2>2. i # k + 1
    BY <2>1
  <2>3. CASE log[j] = e
    <3>1. j = k + 1
      BY <1>1, <2>3, Logged
    <3> QED BY <1>1, <2>2, <3>1
  <2>4. CASE Before(s, log[i], log[j])
    <3>1. i < j \/ i > k
      BY <1>7, <2>4 DEF Midway
    <3> QED BY <1>1, <2>2, <3>1
  <2> QED BY <2>1, <2>3, <2>4
<1> QED BY <1>4, <1>5, <1>6, <1>7 DEF Midway, t

\* What is already announced and comes again is remembered.
LEMMA ToldNext ==
  ASSUME Shapes, HistoryRead, NEW k \in (First - 1)..(Len(log) - 1), NEW s, Midway(s, k),
         NEW a, Told(a, k)
  PROVE  /\ Told(a, k + 1)
         /\ Notable(k + 1) /\ ~Contains(s, log[k + 1]) => Told(Append(a, log[k + 1]), k + 1)
<1> DEFINE e == log[k + 1]
<1>1. k + 1 \in Places /\ e \in Range(log)
  BY ReadNext, Logged
<1>2. Told(a, k + 1)
  BY ReadNext DEF Told
<1>3. ASSUME Notable(k + 1), ~Contains(s, e) PROVE Told(Append(a, e), k + 1)
  <2>1. a \in Seq(Range(log)) /\ IsInjective(a) /\ s \in Seq(Range(log))
    BY DEF Told, Midway
  <2>2. e \notin Range(s)
    BY <1>3, <2>1 DEF Contains, Range
  <2>3. e \notin ReadUpTo(k)
    BY <1>1, <1>3, <2>2, ReadNext DEF Midway
  <2>4. e \notin Range(a)
    BY <1>1, <2>3, ReadNext DEF Told
  <2> DEFINE b == Append(a, e)
  <2>5. /\ b \in Seq(Range(log)) /\ Len(b) = Len(a) + 1 /\ Len(a) \in Nat
        /\ b[Len(a) + 1] = e /\ \A i \in 1..Len(a) : b[i] = a[i]
    BY <1>1, <2>1
  <2> HIDE DEF b
  <2>6. DOMAIN a = 1..Len(a) /\ DOMAIN b = 1..(Len(a) + 1)
    BY <2>1, <2>5
  <2>7. IsInjective(b)
    <3> SUFFICES ASSUME NEW i \in 1..(Len(a) + 1), NEW j \in 1..(Len(a) + 1), b[i] = b[j]
                 PROVE  i = j
      BY <2>6 DEF IsInjective
    <3>1. CASE i \in 1..Len(a) /\ j \in 1..Len(a)
      BY <3>1, <2>1, <2>5, <2>6 DEF IsInjective
    <3>2. CASE i = Len(a) + 1 /\ j \in 1..Len(a)
      BY <3>2, <2>4, <2>5, <2>6 DEF Range
    <3>3. CASE j = Len(a) + 1 /\ i \in 1..Len(a)
      BY <3>3, <2>4, <2>5, <2>6 DEF Range
    <3> QED BY <2>5, <3>1, <3>2, <3>3
  <2>8. Range(b) \subseteq Range(a) \cup {e}
    BY <2>5, <2>6 DEF Range
  <2>9. ASSUME NEW i \in Places, Retained(i), log[i] \in Range(b) PROVE log[i] \in ReadUpTo(k + 1)
    BY <1>2, <2>8, <2>9, ReadNext DEF Told
  <2> QED BY <2>5, <2>7, <2>9 DEF Told, b
<1> QED BY <1>2, <1>3

\* A response starts with the memory of the last one.
LEMMA Begins ==
  ASSUME MemoryInv
  PROVE  /\ Midway(updater.seen, First - 1)
         /\ baselined => Told(announced, First - 1)
<1>1. Shapes /\ HistoryRead /\ AnnouncedRead /\ Remembered /\ OldestFirst /\ AnnouncedOnce
  BY DEF MemoryInv
<1>2. First - 1 \in Nat /\ First..(First - 1) = {}
  BY <1>1, Starts, Logged
<1>3. ReadUpTo(First - 1) = given
  BY <1>2 DEF ReadUpTo
<1>4. Midway(updater.seen, First - 1)
  BY <1>1, <1>3 DEF Midway, Shapes, Remembered, OldestFirst
<1>5. baselined => Told(announced, First - 1)
  BY <1>1, <1>3 DEF Told, Shapes, AnnouncedRead, AnnouncedOnce
<1> QED BY <1>4, <1>5

LEMMA LiveKeeps ==
  ASSUME MemoryInv, baselined, NEW d
  PROVE  LET q == Live([updater |-> updater, announced |-> announced], EventResponse, d) IN
         Formed(q.updater) /\ Midway(q.updater.seen, Len(log)) /\ Told(q.announced, Len(log))
<1> DEFINE R == EventResponse
           p == [updater |-> updater, announced |-> announced]
<1>1. Shapes /\ HistoryRead
  BY DEF MemoryInv
<1>2. Len(R) \in Nat /\ Len(R) = Len(log) - First + 1 /\ Len(log) \in Nat /\ First \in 1..(Len(log) + 1)
  BY <1>1, Starts, Logged, Responded
<1>3. PICK g : LiveRun(g, p, R, d)
  BY <1>2, LiveUnfolds, Zenon
<1> HIDE DEF p
<1>3a. /\ g[0] = p /\ Live(p, R, d) = g[Len(R)]
       /\ \A i \in 1..Len(R) : g[i] = LiveEvent(g[i - 1], R, i, d)
  BY <1>3, Zenon DEF LiveRun
<1> USE DEF p
<1> DEFINE Fine(q, k) ==
             /\ Formed(q.updater) /\ DOMAIN q = {"updater", "announced"}
             /\ Midway(q.updater.seen, k) /\ Told(q.announced, k)
           S == {i \in 0..Len(R) : Fine(g[i], First - 1 + i)}
<1>4. 0 \in S
  <2>1. Formed(updater) /\ Midway(updater.seen, First - 1) /\ Told(announced, First - 1)
    BY <1>1, Begins DEF Shapes
  <2>2. Fine(p, First - 1)
    BY <2>1
  <2>3. First - 1 + 0 = First - 1 /\ 0 \in 0..Len(R)
    BY <1>2
  <2> HIDE DEF Fine, p, R
  <2> QED BY <1>3a, <2>2, <2>3
<1>5. ASSUME NEW i \in 0..Len(R), i # Len(R), i \in S PROVE i + 1 \in S
  <2> DEFINE k == First - 1 + i
             q == g[i]
             e == log[k + 1]
  <2>1. /\ i + 1 \in 1..Len(R) /\ k \in (First - 1)..(Len(log) - 1)
        /\ First - 1 + (i + 1) = k + 1 /\ i + 1 - 1 = i /\ i + 1 \in 0..Len(R)
    BY <1>2, <1>5
  <2>2. Fine(q, k)
    BY <1>5
  <2>3. R[i + 1] = e
    BY <1>1, <2>1, Responded
  <2>4. PassedOver(R, i + 1) <=> ~Notable(k + 1)
    BY <1>1, <2>1, Passed
  <2>5. g[i + 1] = LiveEvent(q, R, i + 1, d)
    BY <1>3a, <2>1
  <2> HIDE DEF R, k, q, e, p
  <2> DEFINE h == LiveEvent(q, R, i + 1, d)
  <2>6. /\ Formed(h.updater) /\ DOMAIN h = {"updater", "announced"}
        /\ PassedOver(R, i + 1) => h.updater.seen = q.updater.seen /\ h.announced = q.announced
        /\ ~PassedOver(R, i + 1) =>
             /\ h.updater.seen = Touch(q.updater.seen, R[i + 1])
             /\ \/ h.announced = q.announced
                \/ ~Contains(q.updater.seen, R[i + 1]) /\ h.announced = Append(q.announced, R[i + 1])
    BY <2>2, LiveEventMemory
  <2> HIDE DEF h
  <2>7. Midway(q.updater.seen, k) /\ Told(q.announced, k)
    BY <2>2
  <2>8. /\ Told(q.announced, k + 1)
        /\ Notable(k + 1) /\ ~Contains(q.updater.seen, e) => Told(Append(q.announced, e), k + 1)
    BY <1>1, <2>1, <2>7, ToldNext DEF e
  <2>9. CASE Notable(k + 1)
    <3>1. Midway(Touch(q.updater.seen, e), k + 1)
      BY <1>1, <2>1, <2>7, <2>9, MidwayTouch DEF e
    <3>2. Fine(h, k + 1)
      BY <2>3, <2>4, <2>6, <2>8, <2>9, <3>1
    <3> HIDE DEF Fine
    <3> QED BY <2>1, <2>5, <3>2 DEF h, k
  <2>10. CASE ~Notable(k + 1)
    <3>1. Midway(q.updater.seen, k + 1)
      BY <1>1, <2>1, <2>7, <2>10, MidwaySkip
    <3>2. Fine(h, k + 1)
      BY <2>4, <2>6, <2>8, <2>10, <3>1
    <3> HIDE DEF Fine
    <3> QED BY <2>1, <2>5, <3>2 DEF h, k
  <2> QED BY <2>9, <2>10
<1> HIDE DEF S
<1>6. Len(R) \in S
  <2>1. \A i \in 0..Len(R) : i \in S
    BY <1>2, <1>4, <1>5, UpTo
  <2> QED BY <1>2, <2>1
<1>7. First - 1 + Len(R) = Len(log)
  BY <1>2
<1> HIDE DEF R, p
<1> QED BY <1>3a, <1>6, <1>7 DEF S, p, R

LEMMA BaselineKeeps ==
  ASSUME MemoryInv, ~baselined
  PROVE  LET u == Baseline(updater, EventResponse) IN
         Formed(u) /\ Midway(u.seen, Len(log))
<1> DEFINE R == EventResponse
           p == [updater |-> updater, latest |-> Nothing]
<1>1. Shapes /\ HistoryRead /\ given = {}
  BY DEF MemoryInv, HistoryRead
<1>2. Len(R) \in Nat /\ Len(R) = Len(log) - First + 1 /\ Len(log) \in Nat /\ First \in 1..(Len(log) + 1)
  BY <1>1, Starts, Logged, Responded
<1>3. PICK g : BaselineRun(g, updater, R)
  BY <1>2, BaselineUnfolds, Zenon
<1>3a. /\ g[0] = p
       /\ Baseline(updater, R) \in
            {g[Len(R)].updater, Put(g[Len(R)].updater, {"target"}, g[Len(R)].latest)}
       /\ \A i \in 1..Len(R) : g[i] = BaselineEvent(g[i - 1], R, i)
  BY <1>3, Zenon DEF BaselineRun
<1> DEFINE Fine(q, k) == Formed(q.updater) /\ Midway(q.updater.seen, k)
           S == {i \in 0..Len(R) : Fine(g[i], First - 1 + i)}
<1>4. 0 \in S
  <2>1. Formed(updater) /\ Midway(updater.seen, First - 1)
    BY <1>1, Begins DEF Shapes
  <2>2. Fine(p, First - 1)
    BY <2>1
  <2>3. First - 1 + 0 = First - 1 /\ 0 \in 0..Len(R)
    BY <1>2
  <2> HIDE DEF Fine, p, R
  <2> QED BY <1>3a, <2>2, <2>3
<1>5. ASSUME NEW i \in 0..Len(R), i # Len(R), i \in S PROVE i + 1 \in S
  <2> DEFINE k == First - 1 + i
             q == g[i]
             e == log[k + 1]
             h == BaselineEvent(q, R, i + 1)
  <2>1. /\ i + 1 \in 1..Len(R) /\ k \in (First - 1)..(Len(log) - 1)
        /\ First - 1 + (i + 1) = k + 1 /\ i + 1 - 1 = i /\ i + 1 \in 0..Len(R)
    BY <1>2, <1>5
  <2>2. Fine(q, k)
    BY <1>5
  <2>3. R[i + 1] = e
    BY <1>1, <2>1, Responded
  <2>4. PassedOver(R, i + 1) <=> ~Notable(k + 1)
    BY <1>1, <2>1, Passed
  <2>5. g[i + 1] = h
    BY <1>3a, <2>1
  <2> HIDE DEF R, k, q, e, p
  <2>6. /\ Formed(h.updater)
        /\ \/ PassedOver(R, i + 1) /\ h.updater.seen = q.updater.seen
           \/ h.updater.seen = Touch(q.updater.seen, R[i + 1])
    BY <2>2, BaselineEventMemory
  <2> HIDE DEF h
  <2>7. Midway(q.updater.seen, k)
    BY <2>2
  <2>8. Midway(Touch(q.updater.seen, e), k + 1)
    BY <1>1, <2>1, <2>7, MidwayTouch DEF e
  <2>9. ~Notable(k + 1) => Midway(q.updater.seen, k + 1)
    BY <1>1, <2>1, <2>7, MidwaySkip
  <2>10. Fine(h, k + 1)
    BY <2>3, <2>4, <2>6, <2>8, <2>9
  <2> HIDE DEF Fine
  <2> QED BY <2>1, <2>5, <2>10 DEF k
<1> HIDE DEF S
<1>6. Len(R) \in S
  <2>1. \A i \in 0..Len(R) : i \in S
    BY <1>2, <1>4, <1>5, UpTo
  <2> QED BY <1>2, <2>1
<1>7. First - 1 + Len(R) = Len(log)
  BY <1>2
<1>8. Formed(g[Len(R)].updater) /\ Midway(g[Len(R)].updater.seen, Len(log))
  BY <1>6, <1>7 DEF S
<1>9. LET u == Put(g[Len(R)].updater, {"target"}, g[Len(R)].latest) IN
      Formed(u) /\ Midway(u.seen, Len(log))
  BY <1>8, PutRecalls DEF Recalls
<1> HIDE DEF R, p
<1> QED BY <1>3a, <1>8, <1>9 DEF R

---------------------------------------------------------------------------
\* The steps.

\* A step that leaves the rig and what was read alone, and only changes what is shown.
LEMMA ShownOnly ==
  ASSUME MemoryInv, UNCHANGED <<menu, log, answered, baselined, announced, given>>,
         Recalls(updater, updater')
  PROVE  MemoryInv'
<1>1. Formed(updater') /\ updater'.seen = updater.seen
  BY DEF Recalls
<1> QED BY <1>1 DEF MemoryInv, Shapes, HistoryRead, AnnouncedRead, Remembered, OldestFirst,
                    AnnouncedOnce, Notable, Hidden, Retained, Places, Before

LEMMA LogKeeps == ASSUME MemoryInv, NEW e \in menu, LogEvent(e) PROVE MemoryInv'
<1>1. Shapes /\ HistoryRead /\ AnnouncedRead /\ Remembered /\ OldestFirst /\ AnnouncedOnce
  BY DEF MemoryInv
<1>2. /\ ~Contains(log, e) /\ log' = Append(log, e)
      /\ UNCHANGED <<menu, answered, baselined, updater, announced, given>>
  BY DEF LogEvent
<1>3. /\ log \in Seq(menu) /\ Len(log) \in Nat /\ DOMAIN log = 1..Len(log)
      /\ Range(log) = {log[i] : i \in Places} /\ \A i, j \in Places : log[i] = log[j] => i = j
  BY <1>1, Logged DEF Shapes
<1>4. e \notin Range(log)
  BY <1>2, <1>3 DEF Contains, Range
<1>5. /\ log' \in Seq(menu) /\ Len(log') = Len(log) + 1 /\ log'[Len(log) + 1] = e
      /\ \A i \in 1..Len(log) : log'[i] = log[i]
  BY <1>2, <1>3
<1>6. DOMAIN log' = 1..(Len(log) + 1) /\ Range(log') = Range(log) \cup {e}
  BY <1>3, <1>5 DEF Range
<1>7. /\ Places' = Places \cup {Len(log) + 1}
      /\ \A i \in Places : log'[i] = log[i] /\ log[i] \in Range(log) /\ i \in Nat
  BY <1>3, <1>5 DEF Places
<1>8. EventRetention \in Nat
  BY RigEventsAssumption
<1>9. \A i \in Places : Retained(i)' => Retained(i)
  BY <1>3, <1>5, <1>7, <1>8 DEF Retained
<1>10. ASSUME NEW i \in Places, Notable(i)' PROVE Notable(i)
  <2>1. Hidden(i) => Hidden(i)'
    BY <1>7 DEF Hidden
  <2> QED BY <1>7, <1>10, <2>1, Zenon DEF Notable
<1>11. Shapes'
  BY <1>1, <1>2, <1>3, <1>5, <1>6 DEF Shapes
<1>12. HistoryRead'
  <2>1. IsInjective(log')
    <3> SUFFICES ASSUME NEW i \in 1..(Len(log) + 1), NEW j \in 1..(Len(log) + 1), log'[i] = log'[j]
                 PROVE  i = j
      BY <1>6 DEF IsInjective
    <3> QED BY <1>3, <1>4, <1>5, <1>7 DEF Places
  <2>2. (given \subseteq Range(log))'
    BY <1>1, <1>2, <1>6 DEF HistoryRead
  <2>3. (~baselined => answered = 0 /\ given = {} /\ updater.seen = <<>>)'
    BY <1>1, <1>2 DEF HistoryRead
  <2>4. ASSUME NEW i \in Places', NEW j \in Places', i < j, log'[j] \in given, Retained(i)'
        PROVE  log'[i] \in given
    <3>1. j \in Places
      BY <1>1, <1>4, <1>5, <1>7, <2>4 DEF HistoryRead
    <3>2. i \in Places
      BY <1>3, <1>7, <2>4, <3>1 DEF Places
    <3> QED BY <1>1, <1>7, <1>9, <2>4, <3>1, <3>2 DEF HistoryRead
  <2>5. ASSUME answered # 0, NEW i \in Places', Retained(i)', i <= answered PROVE log'[i] \in given
    <3>1. answered \in 0..Len(log)
      BY <1>1 DEF Shapes
    <3>2. i \in Places
      BY <1>3, <1>7, <2>5, <3>1 DEF Places
    <3> QED BY <1>1, <1>7, <1>9, <2>5, <3>2 DEF HistoryRead
  <2> QED BY <1>2, <2>1, <2>2, <2>3, <2>4, <2>5 DEF HistoryRead
<1>13. AnnouncedRead'
  <2> SUFFICES ASSUME baselined, NEW i \in Places', Retained(i)', log'[i] \in Range(announced)
               PROVE  log'[i] \in given
    BY <1>2 DEF AnnouncedRead
  <2>1. Range(announced) \subseteq Range(log)
    <3>1. announced \in Seq(Range(log))
      BY <1>1 DEF Shapes
    <3> QED BY <3>1 DEF Range
  <2>2. i \in Places
    BY <1>4, <1>5, <1>7, <2>1
  <2> QED BY <1>1, <1>7, <1>9, <2>2 DEF AnnouncedRead
<1>14. Remembered'
  <2>1. ASSUME NEW i \in Places', Retained(i)', Notable(i)', log'[i] \in given
        PROVE  log'[i] \in Range(updater.seen)
    <3>1. i \in Places
      BY <1>1, <1>4, <1>5, <1>7, <2>1 DEF HistoryRead
    <3> QED BY <1>1, <1>7, <1>9, <1>10, <2>1, <3>1 DEF Remembered
  <2> QED BY <1>1, <1>2, <2>1 DEF Remembered
<1>15. OldestFirst'
  <2> SUFFICES ASSUME NEW i \in Places', NEW j \in Places', Notable(i)',
                      Before(updater.seen, log'[i], log'[j])
               PROVE  i < j
    BY <1>2 DEF OldestFirst, Before
  <2>1. log'[i] \in Range(updater.seen) /\ log'[j] \in Range(updater.seen)
    <3>1. updater.seen \in Seq(Range(log))
      BY <1>1 DEF Shapes
    <3> QED BY <3>1 DEF Before, Range
  <2>2. i \in Places /\ j \in Places
    BY <1>1, <1>4, <1>5, <1>7, <2>1 DEF Remembered, HistoryRead
  <2> QED BY <1>1, <1>7, <1>10, <2>2 DEF OldestFirst
<1>16. AnnouncedOnce'
  BY <1>1, <1>2 DEF AnnouncedOnce
<1> QED BY <1>11, <1>12, <1>13, <1>14, <1>15, <1>16 DEF MemoryInv

LEMMA ReplayKeeps == ASSUME MemoryInv, Replay PROVE MemoryInv'
<1>1. Shapes /\ HistoryRead /\ AnnouncedRead /\ Remembered /\ OldestFirst /\ AnnouncedOnce
  BY DEF MemoryInv
<1>2. UNCHANGED <<menu, log, baselined, updater, announced, given>> /\ answered' = 0
  BY DEF Replay
<1>3. /\ Places' = Places /\ \A i : Retained(i)' <=> Retained(i)
      /\ \A i : Notable(i)' <=> Notable(i)
  BY <1>2 DEF Places, Retained, Notable, Hidden
<1>4. Shapes'
  <2>1. 0 \in 0..Len(log)
    BY <1>1, Logged
  <2> QED BY <1>1, <1>2, <2>1 DEF Shapes
<1>5. HistoryRead' /\ AnnouncedRead'
  BY <1>1, <1>2, <1>3 DEF HistoryRead, AnnouncedRead
<1>6. Remembered' /\ OldestFirst' /\ AnnouncedOnce'
  BY <1>1, <1>2, <1>3 DEF Remembered, OldestFirst, AnnouncedOnce, Before
<1> QED BY <1>4, <1>5, <1>6 DEF MemoryInv

LEMMA RebuildKeeps == ASSUME MemoryInv, RebuildUpdater PROVE MemoryInv'
<1>1. Len(log) \in Nat /\ SeenCapacity \in Nat
  BY Logged, RigEventsAssumption DEF MemoryInv
<1>2. /\ UNCHANGED <<menu, log, announced>> /\ ~baselined' /\ answered' = 0 /\ given' = {}
      /\ updater' = NewUpdater
  BY DEF RebuildUpdater
<1>3. Formed(updater') /\ updater'.seen = <<>>
  BY <1>2 DEF NewUpdater, Formed, Fields
<1>4. Shapes'
  BY <1>1, <1>2, <1>3 DEF MemoryInv, Shapes, IsInjective
<1>5. HistoryRead' /\ AnnouncedRead' /\ Remembered' /\ AnnouncedOnce'
  BY <1>2, <1>3 DEF MemoryInv, HistoryRead, AnnouncedRead, Remembered, AnnouncedOnce, Range
<1>6. OldestFirst'
  BY <1>3 DEF OldestFirst, Before
<1> QED BY <1>4, <1>5, <1>6 DEF MemoryInv

\* A response has been handled, live or as the baseline.
LEMMA ReadKeeps ==
  ASSUME MemoryInv, UNCHANGED <<menu, log>>, baselined' = TRUE, answered' = Len(log),
         given' = given \cup Range(EventResponse),
         Formed(updater'), Midway(updater'.seen, Len(log)), Told(announced', Len(log))
  PROVE  MemoryInv'
<1>1. Shapes /\ HistoryRead
  BY DEF MemoryInv
<1>2. /\ Len(log) \in Nat /\ Range(log) = {log[i] : i \in Places}
      /\ \A i, j \in Places : log[i] = log[j] => i = j
  BY <1>1, Logged
<1>3. First \in 1..(Len(log) + 1) /\ \A i \in Places : i \in Nat /\ i <= Len(log)
  BY <1>1, <1>2, Starts DEF Places
<1>4. given' = ReadUpTo(Len(log)) /\ Range(EventResponse) = {log[x] : x \in First..Len(log)}
  BY <1>1, Responded DEF ReadUpTo
<1>5. \A i \in Places : i >= First => log[i] \in given'
  BY <1>2, <1>3, <1>4 DEF ReadUpTo
<1>6. ASSUME NEW i \in Places, i < First, Retained(i) PROVE log[i] \in given
  BY <1>1, <1>6, Starts DEF HistoryRead
<1>7. \A i \in Places : Retained(i) => log[i] \in given'
  BY <1>3, <1>4, <1>5, <1>6 DEF ReadUpTo
<1>8. /\ Places' = Places /\ \A i : Retained(i)' <=> Retained(i)
      /\ \A i : Notable(i)' <=> Notable(i)
  BY DEF Places, Retained, Notable, Hidden
<1>9. Shapes'
  <2>1. Len(log) \in 0..Len(log)
    BY <1>2
  <2> QED BY <1>1, <2>1 DEF Shapes, Midway, Told
<1>10. HistoryRead'
  <2>1. given' \subseteq Range(log)
    <3>1. First..Len(log) \subseteq Places
      BY <1>3 DEF Places
    <3> QED BY <1>1, <1>2, <1>4, <3>1 DEF HistoryRead, ReadUpTo
  <2> QED BY <1>1, <1>7, <1>8, <2>1 DEF HistoryRead
<1>11. AnnouncedRead'
  BY <1>7, <1>8 DEF AnnouncedRead
<1>12. Remembered'
  BY <1>4, <1>8 DEF Remembered, Midway
<1>13. OldestFirst'
  <2> SUFFICES ASSUME NEW i \in Places, NEW j \in Places, Notable(i),
                      Before(updater'.seen, log[i], log[j])
               PROVE  i < j
    BY <1>8 DEF OldestFirst, Before
  <2>1. i < j \/ i > Len(log)
    BY DEF Midway
  <2> QED BY <1>2, <1>3, <2>1
<1>14. AnnouncedOnce'
  BY DEF AnnouncedOnce, Told
<1> QED BY <1>9, <1>10, <1>11, <1>12, <1>13, <1>14 DEF MemoryInv

LEMMA PollKeeps == ASSUME MemoryInv, PollEvents PROVE MemoryInv'
<1>1. /\ baselined /\ UNCHANGED <<menu, log, baselined>> /\ answered' = Len(log)
      /\ given' = given \cup Range(EventResponse)
  BY DEF PollEvents
<1>2. PICK d, ended :
        LET p == Live([updater |-> updater, announced |-> announced], EventResponse, d)
        IN  updater' = ExpireTarget(p.updater, ended) /\ announced' = p.announced
  BY Zenon DEF PollEvents
<1> DEFINE p == Live([updater |-> updater, announced |-> announced], EventResponse, d)
<1>3. Formed(p.updater) /\ Midway(p.updater.seen, Len(log)) /\ Told(p.announced, Len(log))
  BY <1>1, LiveKeeps
<1>4. updater' = ExpireTarget(p.updater, ended) /\ announced' = p.announced
  BY <1>2
<1> HIDE DEF p
<1>5. Formed(updater') /\ updater'.seen = p.updater.seen
  BY <1>3, <1>4, ExpireRecalls DEF Recalls
<1> QED BY <1>1, <1>3, <1>4, <1>5, ReadKeeps

LEMMA BaselineStepKeeps == ASSUME MemoryInv, BaselineEvents PROVE MemoryInv'
<1>1. /\ ~baselined /\ UNCHANGED <<menu, log, announced>> /\ answered' = Len(log) /\ baselined' = TRUE
      /\ given' = given \cup Range(EventResponse)
  BY DEF BaselineEvents
<1>2. PICK ended : updater' = ExpireTarget(Baseline(updater, EventResponse), ended)
  BY Zenon DEF BaselineEvents
<1> DEFINE u == Baseline(updater, EventResponse)
<1>3. Formed(u) /\ Midway(u.seen, Len(log))
  BY <1>1, BaselineKeeps
<1> HIDE DEF u
<1>4. Formed(updater') /\ updater'.seen = u.seen
  BY <1>2, <1>3, ExpireRecalls DEF Recalls, u
<1>5. Told(announced, Len(log))
  <2>1. Shapes /\ HistoryRead /\ AnnouncedOnce
    BY DEF MemoryInv
  <2>2. answered = 0
    BY <1>1, <2>1 DEF HistoryRead
  <2>3. \A i \in Places : Retained(i) => log[i] \in ReadUpTo(Len(log))
    <3>1. Len(log) \in Nat /\ First \in 1..(Len(log) + 1)
      BY <2>1, Logged, Starts
    <3>2. \A i \in Places : Retained(i) => i \in First..Len(log)
      BY <2>1, <2>2, <3>1, Starts DEF Places
    <3> QED BY <3>2 DEF ReadUpTo
  <2> QED BY <2>1, <2>3 DEF Told, Shapes, AnnouncedOnce
<1> QED BY <1>1, <1>3, <1>4, <1>5, ReadKeeps

LEMMA TargetKeeps ==
  ASSUME MemoryInv, NEW name, NEW enabled, PollSequenceTarget(name, enabled)
  PROVE  MemoryInv'
<1>1. UNCHANGED <<menu, log, answered, baselined, announced, given>>
  BY DEF PollSequenceTarget
<1>2. PICK ended \in BOOLEAN :
        LET u == ExpireTarget(updater, ended) IN
        \/ updater' = Put(u, {"target"}, Nothing)
        \/ updater' = u
        \/ updater' = Put(u, {"target"}, [kind |-> "sequence tree", detail |-> name])
  BY Zenon DEF PollSequenceTarget
<1> DEFINE u == ExpireTarget(updater, ended)
<1>3. Recalls(updater, u) /\ Formed(u)
  BY ExpireRecalls DEF MemoryInv, Shapes, Recalls
<1> HIDE DEF u
<1>4. Recalls(updater, updater')
  <2>1. \A v, cells : Recalls(updater, Put(u, cells, v))
    BY <1>3, PutRecalls, RecallsOn, Zenon
  <2> QED BY <1>2, <1>3, <2>1, Zenon DEF u
<1> QED BY <1>1, <1>4, ShownOnly

LEMMA MemoryStarts == RigEventsInit => MemoryInv
<1> SUFFICES ASSUME RigEventsInit PROVE MemoryInv
  OBVIOUS
<1>1. /\ menu \in RigMenus /\ log = <<>> /\ answered = 0 /\ baselined = FALSE
      /\ updater = NewUpdater /\ announced = <<>> /\ given = {}
  BY DEF RigEventsInit
<1>2. Formed(updater) /\ updater.seen = <<>>
  BY <1>1 DEF NewUpdater, Formed, Fields
<1>3. SeenCapacity \in Nat
  BY RigEventsAssumption
<1>4. Shapes
  BY <1>1, <1>2, <1>3 DEF Shapes, IsInjective
<1>5. HistoryRead /\ AnnouncedRead /\ OldestFirst /\ AnnouncedOnce
  BY <1>1, <1>2 DEF HistoryRead, AnnouncedRead, OldestFirst, AnnouncedOnce, Places, IsInjective, Before
<1>6. Remembered
  BY <1>1, <1>2 DEF Remembered, Range
<1> QED BY <1>4, <1>5, <1>6 DEF MemoryInv

LEMMA MemoryStep == MemoryInv /\ [RigEventsNext]_rigEventsVars => MemoryInv'
<1> SUFFICES ASSUME MemoryInv, [RigEventsNext]_rigEventsVars PROVE MemoryInv'
  OBVIOUS
<1>1. CASE \E e \in menu : LogEvent(e)
  BY <1>1, LogKeeps
<1>2. CASE Replay
  BY <1>2, ReplayKeeps
<1>3. CASE BaselineEvents
  BY <1>3, BaselineStepKeeps
<1>4. CASE PollEvents
  BY <1>4, PollKeeps
<1>5. CASE \E name \in {"a", "b"}, enabled \in BOOLEAN : PollSequenceTarget(name, enabled)
  BY <1>5, TargetKeeps
<1>6. CASE RebuildUpdater
  BY <1>6, RebuildKeeps
<1>7. CASE UNCHANGED rigEventsVars
  <2>1. UNCHANGED <<menu, log, answered, baselined, announced, given>> /\ updater' = updater
    BY <1>7 DEF rigEventsVars
  <2>2. Recalls(updater, updater')
    BY <2>1 DEF Recalls, MemoryInv, Shapes
  <2> QED BY <2>1, <2>2, ShownOnly
<1> QED BY <1>1, <1>2, <1>3, <1>4, <1>5, <1>6, <1>7 DEF RigEventsNext

THEOREM MemoryHolds == RigEventsSpec => []MemoryInv
BY MemoryStarts, MemoryStep, PTL DEF RigEventsSpec

\* An event is announced at most once, however often the rig replays its
\* history and whichever updater reads it (BoundedSeenSet, process_live_events,
\* initialize_event_baseline).
THEOREM EventsAreAnnouncedOnce == RigEventsSpec => []AnnouncedOnce
<1>1. MemoryInv => AnnouncedOnce
  BY DEF MemoryInv
<1> QED BY <1>1, MemoryHolds, PTL

---------------------------------------------------------------------------
\* What is shown.

LEMMA ScopeOf == \A s \in DOMAIN ScopeKinds : \A k \in ScopeKinds[s] : Scope(k) = s
<1> SUFFICES ASSUME NEW s \in DOMAIN ScopeKinds, NEW k \in ScopeKinds[s] PROVE Scope(k) = s
  OBVIOUS
<1>1. \A r \in DOMAIN ScopeKinds : k \in ScopeKinds[r] => r = s
  BY DEF ScopeKinds
<1> QED BY <1>1 DEF Scope

\* A disabled event of its scope takes back every cell that an event fills.
LEMMA FillsAreRevoked == \A k : Fills(k) \subseteq Revokes(Scope(k))
<1> SUFFICES ASSUME NEW k PROVE Fills(k) \subseteq Revokes(Scope(k))
  OBVIOUS
<1>1. CASE k \in {"MOUNT-PARKED", "MOUNT-UNPARKED", "MOUNT-HOMED", "MOUNT-SLEWED", "MOUNT-CENTER"}
  <2>1. Scope(k) = "Mount"
    BY <1>1, ScopeOf DEF ScopeKinds
  <2> QED BY <1>1, <2>1 DEF Fills, Revokes, ScopeKinds
<1>2. CASE k \in {"GUIDER-START", "GUIDER-STOP"}
  <2>1. Scope(k) = "Guiding"
    BY <1>2, ScopeOf DEF ScopeKinds
  <2> QED BY <1>2, <2>1 DEF Fills, Revokes, ScopeKinds
<1>3. CASE k \in {"SEQUENCE-STARTING", "SEQUENCE-FINISHED", "SEQUENCE-ENTITY-FAILED"}
  <2>1. Scope(k) = "Sequence"
    BY <1>3, ScopeOf DEF ScopeKinds
  <2> QED BY <1>3, <2>1 DEF Fills, Revokes, ScopeKinds
<1>4. CASE k \in {"SAFETY-CONNECTED", "SAFETY-DISCONNECTED", "SAFETY-CHANGED"}
  <2>1. Scope(k) = "Safety"
    BY <1>4, ScopeOf DEF ScopeKinds
  <2> QED BY <1>4, <2>1 DEF Fills, Revokes, ScopeKinds
<1>5. CASE k \in {"DOME-CONNECTED", "DOME-DISCONNECTED", "FLAT-CONNECTED", "FLAT-DISCONNECTED",
                  "WEATHER-CONNECTED", "WEATHER-DISCONNECTED", "SWITCH-CONNECTED",
                  "SWITCH-DISCONNECTED"}
  <2>1. Scope(k) = "EquipmentConnections"
    BY <1>5, ScopeOf DEF ScopeKinds
  <2> QED BY <1>5, <2>1 DEF Fills, Revokes, ScopeKinds
<1>6. CASE k \in {"DOME-SHUTTER-OPENED", "DOME-SHUTTER-CLOSED", "DOME-HOMED", "DOME-PARKED",
                  "DOME-SLEWED", "FLAT-COVER-OPENED", "FLAT-COVER-CLOSED", "FLAT-LIGHT-TOGGLED",
                  "FLAT-BRIGHTNESS-CHANGED"}
  <2>1. Scope(k) = "Observatory"
    BY <1>6, ScopeOf DEF ScopeKinds
  <2> QED BY <1>6, <2>1 DEF Fills, Revokes, ScopeKinds, DomeCells, FlatCells
<1>7. CASE k = "WEATHER-CHANGED"
  <2>1. Scope(k) = "WeatherChanges"
    BY <1>7, ScopeOf DEF ScopeKinds
  <2> QED BY <1>7, <2>1 DEF Fills, Revokes, ScopeKinds
<1>8. CASE k = "WEATHER-HIGH-WIND"
  <2>1. Scope(k) = "HighWindAlerts"
    BY <1>8, ScopeOf DEF ScopeKinds
  <2> QED BY <1>8, <2>1 DEF Fills, Revokes, ScopeKinds
<1>9. CASE k = "FOCUSER-MOVED"
  <2>1. Scope(k) = "FocuserMotion"
    BY <1>9, ScopeOf DEF ScopeKinds
  <2> QED BY <1>9, <2>1 DEF Fills, Revokes, ScopeKinds
<1>10. CASE Fills(k) = {}
  BY <1>10
<1>11. Fills(k) # {} =>
         \/ k \in {"MOUNT-PARKED", "MOUNT-UNPARKED", "MOUNT-HOMED", "MOUNT-SLEWED", "MOUNT-CENTER"}
         \/ k \in {"GUIDER-START", "GUIDER-STOP"}
         \/ k \in {"SEQUENCE-STARTING", "SEQUENCE-FINISHED", "SEQUENCE-ENTITY-FAILED"}
         \/ k \in {"SAFETY-CONNECTED", "SAFETY-DISCONNECTED", "SAFETY-CHANGED"}
         \/ k \in {"DOME-CONNECTED", "DOME-DISCONNECTED", "FLAT-CONNECTED", "FLAT-DISCONNECTED",
                   "WEATHER-CONNECTED", "WEATHER-DISCONNECTED", "SWITCH-CONNECTED",
                   "SWITCH-DISCONNECTED"}
         \/ k \in {"DOME-SHUTTER-OPENED", "DOME-SHUTTER-CLOSED", "DOME-HOMED", "DOME-PARKED",
                   "DOME-SLEWED", "FLAT-COVER-OPENED", "FLAT-COVER-CLOSED", "FLAT-LIGHT-TOGGLED",
                   "FLAT-BRIGHTNESS-CHANGED"}
         \/ k \in {"WEATHER-CHANGED"} \/ k \in {"WEATHER-HIGH-WIND"} \/ k \in {"FOCUSER-MOVED"}
  BY DEF Fills, ScopeKinds
<1> QED BY <1>1, <1>2, <1>3, <1>4, <1>5, <1>6, <1>7, <1>8, <1>9, <1>10, <1>11

\* An event e fills only cells that a disabled event of its scope takes back.
Shows(u, v, e) ==
  \A c \in Cells : \/ v.status[c] \in {u.status[c], Nothing}
                   \/ v.status[c] = e /\ c \in Revokes(Scope(e.kind))

\* The cells of a scope are taken back.
Withdraws(u, v, s) ==
  \A c \in Cells : /\ v.status[c] \in {u.status[c], Nothing}
                   /\ c \in Revokes(s) => v.status[c] = Nothing

LEMMA ShowsOn == \A u, v, w, e : Shows(u, v, e) /\ Shows(v, w, e) => Shows(u, w, e)
BY DEF Shows

LEMMA SameShows == \A u, v, e : v.status = u.status => Shows(u, v, e)
BY DEF Shows

LEMMA PutShows ==
  ASSUME NEW u, Formed(u), NEW cells, NEW e
  PROVE  /\ Shows(u, Put(u, cells, Nothing), e)
         /\ cells \subseteq Revokes(Scope(e.kind)) => Shows(u, Put(u, cells, e), e)
<1>1. \A value : \A c \in Cells :
        Put(u, cells, value).status[c] = IF c \in cells THEN value ELSE u.status[c]
  BY DEF Put, Formed, Fields
<1> QED BY <1>1 DEF Shows

LEMMA MarkShows ==
  \A u, t, e : Formed(u) =>
    /\ Shows(u, [u EXCEPT !.waitAt = t], e) /\ Shows(u, [u EXCEPT !.focuserAt = t], e)
<1> SUFFICES ASSUME NEW u, NEW t, NEW e, Formed(u)
             PROVE  /\ [u EXCEPT !.waitAt = t].status = u.status
                    /\ [u EXCEPT !.focuserAt = t].status = u.status
  BY SameShows
<1> QED BY DEF Formed, Fields

LEMMA FilledCells == \A u, e : Filled(u, e) \subseteq Revokes(Scope(e.kind))
<1> SUFFICES ASSUME NEW u, NEW e PROVE Filled(u, e) \subseteq Revokes(Scope(e.kind))
  OBVIOUS
<1>1. e.kind = "SEQUENCE-FINISHED" => "failure" \in Revokes(Scope(e.kind))
  <2>1. "SEQUENCE-FINISHED" \in ScopeKinds["Sequence"] /\ "Sequence" \in DOMAIN ScopeKinds
    BY DEF ScopeKinds
  <2>2. Scope("SEQUENCE-FINISHED") = "Sequence"
    BY <2>1, ScopeOf
  <2> QED BY <2>2 DEF Revokes
<1> QED BY <1>1, FillsAreRevoked DEF Filled

LEMMA ApplyShows == \A u, e : Formed(u) => Shows(u, ApplyEvent(u, e), e)
<1> SUFFICES ASSUME NEW u, NEW e, Formed(u) PROVE Shows(u, ApplyEvent(u, e), e)
  OBVIOUS
<1> DEFINE gone == Put(u, Emptied(u, e), Nothing)
           base == Put(gone, Filled(u, e), e)
<1>1. Formed(gone) /\ Shows(u, gone, e)
  BY PutShows, PutRecalls DEF Recalls
<1>2. Formed(base) /\ Shows(gone, base, e)
  <2> HIDE DEF gone
  <2> QED BY <1>1, PutShows, PutRecalls, FilledCells DEF Recalls
<1>3. Shows(u, base, e) /\ Shows(u, u, e)
  BY <1>1, <1>2, ShowsOn, SameShows
<1>4. \/ ApplyEvent(u, e) = u
      \/ e.kind = "TS-WAITSTART" /\ ApplyEvent(u, e) = RecordWait(base, e)
      \/ ApplyEvent(u, e) = ClearWaitsAt(base, e.time)
      \/ ApplyEvent(u, e) = [base EXCEPT !.focuserAt = e.time]
      \/ ApplyEvent(u, e) = base
  BY Zenon DEF ApplyEvent
<1> HIDE DEF base, gone
<1>5. e.kind = "TS-WAITSTART" => Shows(u, RecordWait(base, e), e)
  <2> SUFFICES ASSUME e.kind = "TS-WAITSTART" PROVE Shows(base, RecordWait(base, e), e)
    BY <1>3, ShowsOn
  <2> DEFINE late == [base EXCEPT !.waitAt = Later(@, e.time)]
  <2>1. Formed(late) /\ late.status = base.status
    BY <1>2 DEF Formed, Fields
  <2>2. Shows(base, late, e)
    BY <2>1, SameShows, Zenon
  <2> HIDE DEF late
  <2>3. {"wait"} \subseteq Revokes(Scope(e.kind))
    <3>1. "TS-WAITSTART" \in ScopeKinds["TargetScheduler"] /\ "TargetScheduler" \in DOMAIN ScopeKinds
      BY DEF ScopeKinds
    <3>2. Scope("TS-WAITSTART") = "TargetScheduler"
      BY <3>1, ScopeOf
    <3> QED BY <3>2 DEF Revokes
  <2>4. Shows(late, Put(late, {"wait"}, Nothing), e) /\ Shows(late, Put(late, {"wait"}, e), e)
    BY <2>1, <2>3, PutShows
  <2>5. RecordWait(base, e) \in {Put(late, {"wait"}, Nothing), Put(late, {"wait"}, e)}
    <3>1. RecordWait(base, e) = Put(late, {"wait"}, IF e.detail = "empty" THEN Nothing ELSE e)
      BY Zenon DEF RecordWait, late
    <3> QED BY <3>1
  <2>6. Shows(late, RecordWait(base, e), e)
    BY <2>4, <2>5
  <2> QED BY <2>2, <2>6, ShowsOn, Zenon
<1>6. Shows(u, ClearWaitsAt(base, e.time), e)
  <2> DEFINE at == [base EXCEPT !.waitAt = e.time]
  <2>1. Formed(at) /\ Shows(base, at, e)
    BY <1>2, MarkShows, MarksRecall DEF Recalls
  <2>2. \/ ClearWaitsAt(base, e.time) = Put(base, {"wait"}, Nothing)
        \/ ClearWaitsAt(base, e.time) = Put(at, {"wait"}, Nothing)
        \/ ClearWaitsAt(base, e.time) = base
    BY Zenon DEF ClearWaitsAt, at
  <2> HIDE DEF at
  <2>3. Shows(base, Put(base, {"wait"}, Nothing), e) /\ Shows(at, Put(at, {"wait"}, Nothing), e)
    BY <1>2, <2>1, PutShows
  <2>4. Shows(u, Put(base, {"wait"}, Nothing), e) /\ Shows(u, Put(at, {"wait"}, Nothing), e)
    BY <1>3, <2>1, <2>3, ShowsOn, Zenon
  <2> QED BY <1>3, <2>2, <2>4, Zenon
<1>7. Shows(u, [base EXCEPT !.focuserAt = e.time], e)
  <2>1. Shows(base, [base EXCEPT !.focuserAt = e.time], e)
    BY <1>2, MarkShows, Zenon
  <2> QED BY <1>3, <2>1, ShowsOn, Zenon
<1> QED BY <1>3, <1>4, <1>5, <1>6, <1>7, Zenon

LEMMA TargetAndFilter ==
  /\ \A e : NamesTarget(e) => {"target"} \subseteq Revokes(Scope(e.kind))
  /\ \A e : e.kind = "FILTERWHEEL-CHANGED" => {"filter"} \subseteq Revokes(Scope(e.kind))
<1>1. /\ \A k \in {"TS-TARGETSTART", "TS-NEWTARGETSTART"} : k \in ScopeKinds["TargetScheduler"]
      /\ "FILTERWHEEL-CHANGED" \in ScopeKinds["FilterFocuserRotator"]
      /\ {"TargetScheduler", "FilterFocuserRotator"} \subseteq DOMAIN ScopeKinds
  BY DEF ScopeKinds
<1>2. /\ \A k \in {"TS-TARGETSTART", "TS-NEWTARGETSTART"} : Scope(k) = "TargetScheduler"
      /\ Scope("FILTERWHEEL-CHANGED") = "FilterFocuserRotator"
  BY <1>1, ScopeOf
<1>3. {"target"} \subseteq Revokes("TargetScheduler") /\ {"filter"} \subseteq Revokes("FilterFocuserRotator")
  BY DEF Revokes
<1> QED BY <1>2, <1>3 DEF NamesTarget

LEMMA RememberShows == \A u, e : Formed(u) => Shows(u, Remember(u, e), e)
<1> SUFFICES ASSUME NEW u, NEW e, Formed(u) PROVE Shows(u, Remember(u, e), e)
  OBVIOUS
<1>1. CASE NamesTarget(e)
  BY <1>1, TargetAndFilter, PutShows DEF Remember
<1>2. CASE ~NamesTarget(e) /\ e.kind = "FILTERWHEEL-CHANGED" /\ e.detail # "empty"
  BY <1>2, TargetAndFilter, PutShows DEF Remember
<1>3. CASE ~NamesTarget(e) /\ ~(e.kind = "FILTERWHEEL-CHANGED" /\ e.detail # "empty")
  BY <1>3, SameShows DEF Remember
<1> QED BY <1>1, <1>2, <1>3

LEMMA RevokeWithdraws == \A u, e : Formed(u) => Withdraws(u, Revoke(u, e), Scope(e.kind))
<1> SUFFICES ASSUME NEW u, NEW e, Formed(u) PROVE Withdraws(u, Revoke(u, e), Scope(e.kind))
  OBVIOUS
<1> DEFINE s == Scope(e.kind)
           gone == Put(u, Revokes(s), Nothing)
<1>1. Formed(gone)
  BY PutRecalls DEF Recalls
<1>2. Withdraws(u, gone, s)
  <2>1. \A c \in Cells : gone.status[c] = IF c \in Revokes(s) THEN Nothing ELSE u.status[c]
    BY DEF Put, Formed, Fields
  <2> HIDE DEF gone, s
  <2> QED BY <2>1 DEF Withdraws
<1>3. \/ Revoke(u, e) = [gone EXCEPT !.waitAt = Later(@, e.time)]
      \/ Revoke(u, e) = [gone EXCEPT !.focuserAt = e.time]
      \/ Revoke(u, e) = gone
  BY Zenon DEF Revoke, gone
<1> HIDE DEF gone, s
<1>4. [gone EXCEPT !.waitAt = Later(@, e.time)].status = gone.status
  BY <1>1 DEF Formed, Fields
<1>5. [gone EXCEPT !.focuserAt = e.time].status = gone.status
  BY <1>1 DEF Formed, Fields
<1>6. Revoke(u, e).status = gone.status
  BY <1>3, <1>4, <1>5, Zenon
<1> QED BY <1>2, <1>6 DEF Withdraws, s

LEMMA ExpireShows ==
  \A u, ended : Formed(u) =>
    \A c \in Cells : ExpireTarget(u, ended).status[c] \in {u.status[c], Nothing}
BY DEF ExpireTarget, Put, Formed, Fields

\* What one live event does to what is shown and to the tombstones.
LEMMA LiveEventShows ==
  ASSUME NEW p, NEW R, NEW i, NEW d, Formed(p.updater), DOMAIN p = {"updater", "announced"}
  PROVE  LET e == R[i]
             u == p.updater
             v == LiveEvent(p, R, i, d).updater IN
         \/ /\ ~e.on /\ v.tombstones = Touch(u.tombstones, Tombstone(e))
            /\ \/ Contains(u.tombstones, Tombstone(e)) /\ v.status = u.status
               \/ Withdraws(u, v, Scope(e.kind))
         \/ e.on /\ v.tombstones = u.tombstones
              /\ (v.status = u.status \/ (~BeforeBoundary(R, i) /\ Shows(u, v, e)))
<1> DEFINE e == R[i]
           u == p.updater
           v == LiveEvent(p, R, i, d).updater
           touched == [u EXCEPT !.seen = Touch(@, e)]
           noted == [u EXCEPT !.tombstones = Touch(@, Tombstone(e))]
<1>1. Formed(touched) /\ touched.status = u.status /\ touched.tombstones = u.tombstones
  BY SeenShape, Zenon
<1>2. Formed(noted) /\ noted.status = u.status /\ noted.tombstones = Touch(u.tombstones, Tombstone(e))
  BY NotedShape, Zenon
<1> HIDE DEF touched, noted
<1>3. \A w : [p EXCEPT !.updater = w].updater = w
  BY Zenon
<1>4. CASE ~e.on
  <2>1. \/ Contains(u.tombstones, Tombstone(e)) /\ LiveEvent(p, R, i, d) = [p EXCEPT !.updater = noted]
        \/ LiveEvent(p, R, i, d) = [p EXCEPT !.updater = Revoke(noted, e)]
    BY <1>4, Zenon DEF LiveEvent, noted
  <2>2. \/ Contains(u.tombstones, Tombstone(e)) /\ v = noted
        \/ v = Revoke(noted, e)
    BY <1>3, <2>1, Zenon
  <2>3. CASE Contains(u.tombstones, Tombstone(e)) /\ v = noted
    <3> HIDE DEF v
    <3> QED BY <1>2, <1>4, <2>3, Zenon DEF v
  <2>4. CASE v = Revoke(noted, e)
    <3> HIDE DEF v
    <3>1. v.tombstones = Touch(u.tombstones, Tombstone(e))
      BY <1>2, <2>4, RevokeRecalls DEF Recalls
    <3>2. Withdraws(noted, v, Scope(e.kind))
      BY <1>2, <2>4, RevokeWithdraws
    <3>3. Withdraws(u, v, Scope(e.kind))
      BY <1>2, <3>2 DEF Withdraws
    <3> QED BY <1>4, <3>1, <3>3, Zenon DEF v
  <2> QED BY <2>2, <2>3, <2>4
<1>5. CASE e.on /\ BeforeBoundary(R, i)
  <2>1. v = u
    BY <1>5, Zenon DEF LiveEvent
  <2> QED BY <1>5, <2>1, Zenon
<1>6. CASE e.on /\ ~BeforeBoundary(R, i) /\ (~Usable(e) \/ Redundant(e))
  <2>1. v = u
    BY <1>6, Zenon DEF LiveEvent
  <2> QED BY <1>6, <2>1, Zenon
<1>7. CASE e.on /\ ~BeforeBoundary(R, i) /\ ~(~Usable(e) \/ Redundant(e))
  <2>1. \/ LiveEvent(p, R, i, d) = [p EXCEPT !.updater = touched]
        \/ LiveEvent(p, R, i, d) = [p EXCEPT !.updater = ApplyEvent(touched, e)]
        \/ LiveEvent(p, R, i, d) =
             [updater |-> IF Refuses(u, e) THEN touched ELSE Remember(ApplyEvent(touched, e), e),
              announced |-> IF Announces(u, e) THEN Append(p.announced, e) ELSE p.announced]
    BY <1>7, Zenon DEF LiveEvent, touched
  <2>2. v \in {touched, ApplyEvent(touched, e), Remember(ApplyEvent(touched, e), e)}
    <3>1. CASE LiveEvent(p, R, i, d) = [p EXCEPT !.updater = touched]
      BY <1>3, <3>1, Zenon
    <3>2. CASE LiveEvent(p, R, i, d) = [p EXCEPT !.updater = ApplyEvent(touched, e)]
      BY <1>3, <3>2, Zenon
    <3>3. CASE LiveEvent(p, R, i, d) =
             [updater |-> IF Refuses(u, e) THEN touched ELSE Remember(ApplyEvent(touched, e), e),
              announced |-> IF Announces(u, e) THEN Append(p.announced, e) ELSE p.announced]
      BY <3>3
    <3> QED BY <2>1, <3>1, <3>2, <3>3, Zenon
  <2> DEFINE a == ApplyEvent(touched, e)
  <2>3. Formed(a) /\ a.tombstones = u.tombstones /\ Shows(touched, a, e)
    BY <1>1, ApplyRecalls, ApplyShows DEF Recalls
  <2> HIDE DEF a, v
  <2>4. Remember(a, e).tombstones = u.tombstones /\ Shows(a, Remember(a, e), e)
    BY <2>3, RememberRecalls, RememberShows DEF Recalls
  <2>5. Shows(u, touched, e)
    BY <1>1, SameShows
  <2>6. Shows(u, a, e) /\ Shows(u, Remember(a, e), e)
    BY <2>3, <2>4, <2>5, ShowsOn, Zenon
  <2>7. v.tombstones = u.tombstones /\ Shows(u, v, e)
    BY <1>1, <2>2, <2>3, <2>4, <2>5, <2>6 DEF a
  <2> QED BY <1>7, <2>7, Zenon DEF v
<1> QED BY <1>4, <1>5, <1>6, <1>7

LEMMA BaselineEventShows ==
  ASSUME NEW p, NEW R, NEW i, Formed(p.updater)
  PROVE  LET e == R[i]
             u == p.updater
             q == BaselineEvent(p, R, i)
             v == q.updater IN
         /\ \/ /\ ~e.on /\ v.tombstones = Touch(u.tombstones, Tombstone(e))
               /\ Withdraws(u, v, Scope(e.kind))
            \/ e.on /\ v.tombstones = u.tombstones
                 /\ (v.status = u.status \/ (~BeforeBoundary(R, i) /\ Shows(u, v, e)))
         /\ \/ q.latest \in {p.latest, Nothing}
            \/ q.latest = e /\ e.on /\ NamesTarget(e) /\ ~BeforeBoundary(R, i)
<1> DEFINE e == R[i]
           u == p.updater
           q == BaselineEvent(p, R, i)
           noted == [u EXCEPT !.tombstones = Touch(@, Tombstone(e))]
           known == IF e.kind = "FILTERWHEEL-CHANGED" /\ e.detail # "empty"
                    THEN Put(u, {"filter"}, e) ELSE u
           a == ApplyEvent(known, e)
           told == [a EXCEPT !.seen = Touch(@, e)]
<1>1. Formed(noted) /\ noted.status = u.status /\ noted.tombstones = Touch(u.tombstones, Tombstone(e))
  BY NotedShape, Zenon
<1>2. Formed(known) /\ known.tombstones = u.tombstones /\ Shows(u, known, e)
  BY PutRecalls, PutShows, TargetAndFilter, SameShows DEF Recalls
<1> HIDE DEF known, noted
<1>3. Formed(a) /\ a.tombstones = u.tombstones /\ Shows(known, a, e)
  BY <1>2, ApplyRecalls, ApplyShows DEF Recalls
<1>4. Shows(u, a, e)
  BY <1>2, <1>3, ShowsOn, Zenon
<1> HIDE DEF a
<1>5. told.tombstones = u.tombstones /\ Shows(u, told, e)
  <2>1. told.status = a.status /\ told.tombstones = a.tombstones
    BY <1>3, SeenShape, Zenon
  <2> HIDE DEF told
  <2>2. Shows(a, told, e)
    BY <2>1, SameShows, Zenon
  <2> QED BY <1>3, <1>4, <2>1, <2>2, ShowsOn, Zenon
<1> HIDE DEF told
<1>6. CASE e.on /\ BeforeBoundary(R, i)
  <2>1. q = p
    BY <1>6, Zenon DEF BaselineEvent
  <2>2. q.updater = u /\ q.latest = p.latest
    BY <2>1
  <2> HIDE DEF q
  <2>3. q.latest \in {p.latest, Nothing} /\ q.updater.tombstones = u.tombstones /\ q.updater.status = u.status
    BY <2>2
  <2> QED BY <1>6, <2>3, Zenon DEF q
<1>7. CASE ~e.on
  <2>1. q = [updater |-> Revoke(noted, e),
             latest |-> IF Scope(e.kind) = "TargetScheduler" THEN Nothing ELSE p.latest]
    BY <1>7, Zenon DEF BaselineEvent, noted
  <2> HIDE DEF q
  <2>2. q.updater = Revoke(noted, e) /\ q.latest \in {p.latest, Nothing}
    BY <2>1
  <2>3. q.updater.tombstones = Touch(u.tombstones, Tombstone(e))
    BY <1>1, <2>2, RevokeRecalls DEF Recalls
  <2>4. Withdraws(noted, q.updater, Scope(e.kind))
    BY <1>1, <2>2, RevokeWithdraws
  <2>5. Withdraws(u, q.updater, Scope(e.kind))
    BY <1>1, <2>4 DEF Withdraws
  <2> QED BY <1>7, <2>2, <2>3, <2>5, Zenon DEF q
<1>8. CASE e.on /\ ~BeforeBoundary(R, i) /\ Redundant(e)
  <2>1. q = p
    BY <1>8, Zenon DEF BaselineEvent
  <2>2. q.updater = u /\ q.latest = p.latest
    BY <2>1
  <2> HIDE DEF q
  <2>3. q.latest \in {p.latest, Nothing} /\ q.updater.tombstones = u.tombstones /\ q.updater.status = u.status
    BY <2>2
  <2> QED BY <1>8, <2>3, Zenon DEF q
<1>9. CASE e.on /\ ~BeforeBoundary(R, i) /\ ~Redundant(e)
  <2>1. q = [updater |-> told,
             latest |-> IF NamesTarget(e) /\ NewerTarget(e, p.latest) THEN e ELSE p.latest]
    BY <1>9, Zenon DEF BaselineEvent, told, a, known
  <2> HIDE DEF q
  <2>2. q.updater = told /\ (q.latest = p.latest \/ (NamesTarget(e) /\ q.latest = e))
    BY <2>1
  <2>3. q.latest = p.latest => q.latest \in {p.latest, Nothing}
    OBVIOUS
  <2> QED BY <1>5, <1>9, <2>2, <2>3, Zenon DEF q
<1> QED BY <1>6, <1>7, <1>8, <1>9

---------------------------------------------------------------------------
\* What a disabled event has taken back.

Trees == [kind : {"sequence tree"}, detail : {"a", "b"}]

\* Cell c may show what log[i] said: no disabled event of its scope that was logged
\* after it is among those read.
Standing(c, i, read) ==
  /\ log[i].on /\ c \in Revokes(Scope(log[i].kind))
  /\ \A j \in Places :
       i < j /\ ~log[j].on /\ Scope(log[j].kind) = Scope(log[i].kind) => log[j] \notin read

\* The keys of the disabled events among those read.
Withheld(read) == {Tombstone(x) : x \in {y \in read : ~y.on}}

Truthful(u, read) ==
  /\ u.tombstones \in Seq(Withheld(read)) /\ IsInjective(u.tombstones)
  /\ Len(u.tombstones) <= SeenCapacity
  /\ \A c \in Cells : \/ u.status[c] \in Trees \cup {Nothing}
                      \/ \E i \in Places : u.status[c] = log[i] /\ Standing(c, i, read)

\* A disabled event is known again by its time and scope: two of them that bear one
\* time have no shared event of their scope between them.
TimesTellApart ==
  \A i, j, l \in Places :
    i < j /\ j < l /\ ~log[i].on /\ ~log[l].on /\ Tombstone(log[i]) = Tombstone(log[l])
      => ~(log[j].on /\ Scope(log[j].kind) = Scope(log[i].kind))

RevocationInv == MemoryInv /\ Truthful(updater, given)

\* What is read grows by a shared event: what stands, stands.
LEMMA StandsStill ==
  ASSUME Shapes, HistoryRead, NEW k \in (First - 1)..(Len(log) - 1), log[k + 1].on,
         NEW c, NEW i, Standing(c, i, ReadUpTo(k))
  PROVE  Standing(c, i, ReadUpTo(k + 1))
<1> SUFFICES ASSUME NEW j \in Places, i < j, ~log[j].on, Scope(log[j].kind) = Scope(log[i].kind)
             PROVE  log[j] \notin ReadUpTo(k + 1)
  BY Zenon DEF Standing
<1>1. log[j] \notin ReadUpTo(k)
  BY Zenon DEF Standing
<1>2. log[j] # log[k + 1]
  BY Zenon
<1> QED BY <1>1, <1>2, ReadNext

LEMMA SharedKeepsTruth ==
  ASSUME Shapes, HistoryRead, NEW k \in (First - 1)..(Len(log) - 1), log[k + 1].on,
         NEW u, NEW v, Truthful(u, ReadUpTo(k)), v.tombstones = u.tombstones,
         v.status = u.status \/ (~Hidden(k + 1) /\ Shows(u, v, log[k + 1]))
  PROVE  Truthful(v, ReadUpTo(k + 1))
<1>1. k + 1 \in Places /\ ReadUpTo(k) \subseteq ReadUpTo(k + 1)
  BY ReadNext
<1>2. Withheld(ReadUpTo(k)) \subseteq Withheld(ReadUpTo(k + 1))
  BY <1>1 DEF Withheld
<1>3. v.tombstones \in Seq(Withheld(ReadUpTo(k + 1)))
  <2>1. u.tombstones \in Seq(Withheld(ReadUpTo(k)))
    BY DEF Truthful
  <2> QED BY <1>2, <2>1
<1>4. ASSUME NEW c \in Cells
      PROVE  \/ v.status[c] \in Trees \cup {Nothing}
             \/ \E i \in Places : v.status[c] = log[i] /\ Standing(c, i, ReadUpTo(k + 1))
  <2>1. CASE v.status[c] = u.status[c]
    <3>1. \/ u.status[c] \in Trees \cup {Nothing}
          \/ \E i \in Places : u.status[c] = log[i] /\ Standing(c, i, ReadUpTo(k))
      BY Zenon DEF Truthful
    <3> QED BY <2>1, <3>1, StandsStill
  <2>2. CASE v.status[c] = Nothing
    BY <2>2
  <2>3. CASE v.status[c] = log[k + 1] /\ c \in Revokes(Scope(log[k + 1].kind)) /\ ~Hidden(k + 1)
    <3>1. Standing(c, k + 1, ReadUpTo(k + 1))
      BY <2>3, Zenon DEF Standing, Hidden
    <3> QED BY <1>1, <2>3, <3>1
  <2> QED BY <2>1, <2>2, <2>3 DEF Shows
<1> QED BY <1>3, <1>4 DEF Truthful

\* A tombstone that is known already has nothing left to take back.
LEMMA KnownTombstone ==
  ASSUME Shapes, HistoryRead, TimesTellApart, NEW k \in (First - 1)..(Len(log) - 1), ~log[k + 1].on,
         NEW u, Truthful(u, ReadUpTo(k)), Contains(u.tombstones, Tombstone(log[k + 1])),
         NEW c, NEW i \in Places, Standing(c, i, ReadUpTo(k)),
         Scope(log[i].kind) = Scope(log[k + 1].kind)
  PROVE  k + 1 <= i
<1> DEFINE e == log[k + 1]
<1>1. k + 1 \in Places /\ \A j \in Places : j \in Nat
  BY Logged, ReadNext DEF Places
<1>2. u.tombstones \in Seq(Withheld(ReadUpTo(k)))
  BY DEF Truthful
<1>3. Tombstone(e) \in Withheld(ReadUpTo(k))
  BY <1>2 DEF Contains
<1>4. PICK x \in ReadUpTo(k) : ~x.on /\ Tombstone(x) = Tombstone(e)
  BY <1>3 DEF Withheld
<1>5. PICK m \in Places : log[m] = x
  BY <1>4, ReadNext, Logged
<1>6. ~log[m].on /\ Tombstone(log[m]) = Tombstone(e) /\ log[m] \in ReadUpTo(k)
  BY <1>4, <1>5, Zenon
<1>7. Scope(log[m].kind) = Scope(e.kind)
  BY <1>6 DEF Tombstone
<1>8. ~(i < m)
  BY <1>6, <1>7, Zenon DEF Standing
<1>9. i # m
  BY <1>6, Zenon DEF Standing
<1>10. ~(m < i /\ i < k + 1)
  BY <1>1, <1>6, <1>7, Zenon DEF Standing, TimesTellApart
<1> QED BY <1>1, <1>8, <1>9, <1>10

LEMMA DisabledKeepsTruth ==
  ASSUME Shapes, HistoryRead, TimesTellApart, NEW k \in (First - 1)..(Len(log) - 1), ~log[k + 1].on,
         NEW u, NEW v, Truthful(u, ReadUpTo(k)),
         v.tombstones = Touch(u.tombstones, Tombstone(log[k + 1])),
         \/ Contains(u.tombstones, Tombstone(log[k + 1])) /\ v.status = u.status
         \/ Withdraws(u, v, Scope(log[k + 1].kind))
  PROVE  Truthful(v, ReadUpTo(k + 1))
<1> DEFINE e == log[k + 1]
           X == Withheld(ReadUpTo(k + 1))
<1>1. k + 1 \in Places /\ ReadUpTo(k + 1) = ReadUpTo(k) \cup {e} /\ \A j \in Places : j \in Nat
  BY ReadNext, Logged DEF Places
<1>2. Withheld(ReadUpTo(k)) \subseteq X /\ Tombstone(e) \in X
  BY <1>1 DEF Withheld
<1>3. u.tombstones \in Seq(X) /\ IsInjective(u.tombstones) /\ Len(u.tombstones) <= SeenCapacity
  <2>1. /\ u.tombstones \in Seq(Withheld(ReadUpTo(k))) /\ IsInjective(u.tombstones)
        /\ Len(u.tombstones) <= SeenCapacity
    BY DEF Truthful
  <2> HIDE DEF X
  <2> QED BY <1>2, <2>1
<1> HIDE DEF X
<1>4. v.tombstones \in Seq(X) /\ IsInjective(v.tombstones) /\ Len(v.tombstones) <= SeenCapacity
  BY <1>2, <1>3, TouchFacts
<1>5. ASSUME NEW c \in Cells
      PROVE  \/ v.status[c] \in Trees \cup {Nothing}
             \/ \E i \in Places : v.status[c] = log[i] /\ Standing(c, i, ReadUpTo(k + 1))
  <2>1. v.status[c] = u.status[c] \/ v.status[c] = Nothing
    BY DEF Withdraws
  <2>2. CASE v.status[c] = u.status[c] /\ v.status[c] \notin Trees \cup {Nothing}
    <3>1. PICK i \in Places : u.status[c] = log[i] /\ Standing(c, i, ReadUpTo(k))
      BY <2>2, Zenon DEF Truthful
    <3>2. Scope(log[i].kind) = Scope(e.kind) => k + 1 <= i
      <4> SUFFICES ASSUME Scope(log[i].kind) = Scope(e.kind) PROVE k + 1 <= i
        OBVIOUS
      <4>1. CASE Contains(u.tombstones, Tombstone(e))
        BY <3>1, <4>1, KnownTombstone
      <4>2. CASE Withdraws(u, v, Scope(e.kind))
        <5>1. c \in Revokes(Scope(e.kind))
          BY <3>1 DEF Standing
        <5> QED BY <2>2, <4>2, <5>1 DEF Withdraws
      <4> QED BY <4>1, <4>2
    <3>3. Standing(c, i, ReadUpTo(k + 1))
      <4> SUFFICES ASSUME NEW j \in Places, i < j, ~log[j].on, Scope(log[j].kind) = Scope(log[i].kind)
                   PROVE  log[j] \notin ReadUpTo(k + 1)
        BY <3>1, Zenon DEF Standing
      <4>1. log[j] \notin ReadUpTo(k)
        BY <3>1, Zenon DEF Standing
      <4>2. log[j] # e
        <5> SUFFICES ASSUME log[j] = e PROVE FALSE
          OBVIOUS
        <5>1. j = k + 1
          BY <1>1, Logged
        <5> QED BY <1>1, <3>2, <5>1
      <4> QED BY <1>1, <4>1, <4>2
    <3> QED BY <2>2, <3>1, <3>3
  <2> QED BY <2>1, <2>2
<1> QED BY <1>4, <1>5 DEF Truthful, X

LEMMA TruthStarts ==
  ASSUME MemoryInv, Truthful(updater, given) PROVE Truthful(updater, ReadUpTo(First - 1))
<1>1. First - 1 \in Nat /\ First..(First - 1) = {}
  BY Starts, Logged DEF MemoryInv
<1>2. ReadUpTo(First - 1) = given
  BY <1>1 DEF ReadUpTo
<1> QED BY <1>2

LEMMA LiveStaysTrue ==
  ASSUME MemoryInv, Truthful(updater, given), TimesTellApart, NEW d
  PROVE  Truthful(Live([updater |-> updater, announced |-> announced], EventResponse, d).updater,
                  ReadUpTo(Len(log)))
<1> DEFINE R == EventResponse
           p == [updater |-> updater, announced |-> announced]
<1>1. Shapes /\ HistoryRead
  BY DEF MemoryInv
<1>2. Len(R) \in Nat /\ Len(R) = Len(log) - First + 1 /\ Len(log) \in Nat /\ First \in 1..(Len(log) + 1)
  BY <1>1, Starts, Logged, Responded
<1>3. PICK g : LiveRun(g, p, R, d)
  BY <1>2, LiveUnfolds, Zenon
<1> HIDE DEF p
<1>3a. /\ g[0] = p /\ Live(p, R, d) = g[Len(R)]
       /\ \A i \in 1..Len(R) : g[i] = LiveEvent(g[i - 1], R, i, d)
  BY <1>3, Zenon DEF LiveRun
<1> USE DEF p
<1> DEFINE Fine(q, k) ==
             /\ Formed(q.updater) /\ DOMAIN q = {"updater", "announced"}
             /\ Truthful(q.updater, ReadUpTo(k))
           S == {i \in 0..Len(R) : Fine(g[i], First - 1 + i)}
<1>4. 0 \in S
  <2>1. Formed(updater) /\ Truthful(updater, ReadUpTo(First - 1))
    BY <1>1, TruthStarts DEF Shapes
  <2>2. Fine(p, First - 1)
    BY <2>1
  <2>3. First - 1 + 0 = First - 1 /\ 0 \in 0..Len(R)
    BY <1>2
  <2> HIDE DEF Fine, p, R
  <2> QED BY <1>3a, <2>2, <2>3
<1>5. ASSUME NEW i \in 0..Len(R), i # Len(R), i \in S PROVE i + 1 \in S
  <2> DEFINE k == First - 1 + i
             q == g[i]
             e == log[k + 1]
             h == LiveEvent(q, R, i + 1, d)
  <2>1. /\ i + 1 \in 1..Len(R) /\ k \in (First - 1)..(Len(log) - 1)
        /\ First - 1 + (i + 1) = k + 1 /\ i + 1 - 1 = i /\ i + 1 \in 0..Len(R)
    BY <1>2, <1>5
  <2>2. Fine(q, k)
    BY <1>5
  <2>3. R[i + 1] = e
    BY <1>1, <2>1, Responded
  <2>4. BeforeBoundary(R, i + 1) <=> Hidden(k + 1)
    BY <1>1, <2>1, Bounded
  <2>5. g[i + 1] = h
    BY <1>3a, <2>1
  <2> HIDE DEF R, k, q, e, p
  <2>6. Formed(h.updater) /\ DOMAIN h = {"updater", "announced"}
    BY <2>2, LiveEventMemory
  <2>7. LET u == q.updater
            v == h.updater IN
         \/ /\ ~e.on /\ v.tombstones = Touch(u.tombstones, Tombstone(e))
            /\ \/ Contains(u.tombstones, Tombstone(e)) /\ v.status = u.status
               \/ Withdraws(u, v, Scope(e.kind))
         \/ e.on /\ v.tombstones = u.tombstones
              /\ (v.status = u.status \/ (~BeforeBoundary(R, i + 1) /\ Shows(u, v, e)))
    BY <2>2, <2>3, LiveEventShows
  <2> HIDE DEF h
  <2>8. Truthful(q.updater, ReadUpTo(k))
    BY <2>2
  <2>9. CASE ~e.on
    <3>1. Truthful(h.updater, ReadUpTo(k + 1))
      BY <1>1, <2>1, <2>7, <2>8, <2>9, DisabledKeepsTruth DEF e
    <3>2. Fine(h, k + 1)
      BY <2>6, <3>1
    <3> HIDE DEF Fine
    <3> QED BY <2>1, <2>5, <3>2 DEF k
  <2>10. CASE e.on
    <3>1. Truthful(h.updater, ReadUpTo(k + 1))
      BY <1>1, <2>1, <2>4, <2>7, <2>8, <2>10, SharedKeepsTruth DEF e
    <3>2. Fine(h, k + 1)
      BY <2>6, <3>1
    <3> HIDE DEF Fine
    <3> QED BY <2>1, <2>5, <3>2 DEF k
  <2> QED BY <2>9, <2>10
<1> HIDE DEF S
<1>6. Len(R) \in S
  <2>1. \A i \in 0..Len(R) : i \in S
    BY <1>2, <1>4, <1>5, UpTo
  <2> QED BY <1>2, <2>1
<1>7. First - 1 + Len(R) = Len(log)
  BY <1>2
<1> HIDE DEF R, p
<1> QED BY <1>3a, <1>6, <1>7 DEF S, p, R

LEMMA BaselineStaysTrue ==
  ASSUME MemoryInv, Truthful(updater, given), TimesTellApart
  PROVE  Truthful(Baseline(updater, EventResponse), ReadUpTo(Len(log)))
<1> DEFINE R == EventResponse
           p == [updater |-> updater, latest |-> Nothing]
<1>1. Shapes /\ HistoryRead
  BY DEF MemoryInv
<1>2. Len(R) \in Nat /\ Len(R) = Len(log) - First + 1 /\ Len(log) \in Nat /\ First \in 1..(Len(log) + 1)
  BY <1>1, Starts, Logged, Responded
<1>3. PICK g : BaselineRun(g, updater, R)
  BY <1>2, BaselineUnfolds, Zenon
<1>3a. /\ g[0] = p
       /\ Baseline(updater, R) \in
            {g[Len(R)].updater, Put(g[Len(R)].updater, {"target"}, g[Len(R)].latest)}
       /\ \A i \in 1..Len(R) : g[i] = BaselineEvent(g[i - 1], R, i)
  BY <1>3, Zenon DEF BaselineRun
<1> DEFINE Named(t) == t = Nothing \/ \E i \in Places : t = log[i] /\ t.on /\ NamesTarget(t) /\ ~Hidden(i)
           Fine(q, k) == Formed(q.updater) /\ Truthful(q.updater, ReadUpTo(k)) /\ Named(q.latest)
           S == {i \in 0..Len(R) : Fine(g[i], First - 1 + i)}
<1>4. 0 \in S
  <2>1. Formed(updater) /\ Truthful(updater, ReadUpTo(First - 1))
    BY <1>1, TruthStarts DEF Shapes
  <2>2. Fine(p, First - 1)
    BY <2>1
  <2>3. First - 1 + 0 = First - 1 /\ 0 \in 0..Len(R)
    BY <1>2
  <2> HIDE DEF Fine, p, R
  <2> QED BY <1>3a, <2>2, <2>3
<1>5. ASSUME NEW i \in 0..Len(R), i # Len(R), i \in S PROVE i + 1 \in S
  <2> DEFINE k == First - 1 + i
             q == g[i]
             e == log[k + 1]
             h == BaselineEvent(q, R, i + 1)
  <2>1. /\ i + 1 \in 1..Len(R) /\ k \in (First - 1)..(Len(log) - 1)
        /\ First - 1 + (i + 1) = k + 1 /\ i + 1 - 1 = i /\ i + 1 \in 0..Len(R)
    BY <1>2, <1>5
  <2>2. Fine(q, k)
    BY <1>5
  <2>3. R[i + 1] = e /\ k + 1 \in Places
    BY <1>1, <2>1, Responded, ReadNext
  <2>4. BeforeBoundary(R, i + 1) <=> Hidden(k + 1)
    BY <1>1, <2>1, Bounded
  <2>5. g[i + 1] = h
    BY <1>3a, <2>1
  <2> HIDE DEF R, k, q, e, p, Named
  <2>6. Formed(h.updater)
    BY <2>2, BaselineEventMemory
  <2>7. /\ LET u == q.updater
               v == h.updater IN
           \/ /\ ~e.on /\ v.tombstones = Touch(u.tombstones, Tombstone(e))
              /\ Withdraws(u, v, Scope(e.kind))
           \/ e.on /\ v.tombstones = u.tombstones
                /\ (v.status = u.status \/ (~BeforeBoundary(R, i + 1) /\ Shows(u, v, e)))
        /\ \/ h.latest \in {q.latest, Nothing}
           \/ h.latest = e /\ e.on /\ NamesTarget(e) /\ ~BeforeBoundary(R, i + 1)
    BY <2>2, <2>3, BaselineEventShows
  <2> HIDE DEF h
  <2>8. Truthful(q.updater, ReadUpTo(k)) /\ Named(q.latest)
    BY <2>2
  <2>9. Named(h.latest)
    <3>1. CASE h.latest \in {q.latest, Nothing}
      BY <2>8, <3>1 DEF Named
    <3>2. CASE h.latest = e /\ e.on /\ NamesTarget(e) /\ ~Hidden(k + 1)
      BY <2>3, <3>2, Zenon DEF Named, e
    <3> QED BY <2>4, <2>7, <3>1, <3>2, Zenon
  <2>10. Truthful(h.updater, ReadUpTo(k + 1))
    <3>1. CASE ~e.on
      BY <1>1, <2>1, <2>7, <2>8, <3>1, DisabledKeepsTruth DEF e
    <3>2. CASE e.on
      BY <1>1, <2>1, <2>4, <2>7, <2>8, <3>2, SharedKeepsTruth DEF e
    <3> QED BY <3>1, <3>2
  <2>11. Fine(h, k + 1)
    BY <2>6, <2>9, <2>10
  <2> HIDE DEF Fine
  <2> QED BY <2>1, <2>5, <2>11 DEF k
<1> HIDE DEF S
<1>6. Len(R) \in S
  <2>1. \A i \in 0..Len(R) : i \in S
    BY <1>2, <1>4, <1>5, UpTo
  <2> QED BY <1>2, <2>1
<1>7. First - 1 + Len(R) = Len(log)
  BY <1>2
<1> DEFINE q == g[Len(R)]
<1>8. Formed(q.updater) /\ Truthful(q.updater, ReadUpTo(Len(log))) /\ Named(q.latest)
  BY <1>6, <1>7 DEF S
<1> HIDE DEF q, Named
<1>9. Truthful(Put(q.updater, {"target"}, q.latest), ReadUpTo(Len(log)))
  <2> DEFINE v == Put(q.updater, {"target"}, q.latest)
  <2>1. /\ v.tombstones = q.updater.tombstones
        /\ \A c \in Cells : v.status[c] = IF c = "target" THEN q.latest ELSE q.updater.status[c]
    BY <1>8 DEF Put, Formed, Fields
  <2> HIDE DEF v
  <2>2. \/ q.latest = Nothing
        \/ \E i \in Places : q.latest = log[i] /\ Standing("target", i, ReadUpTo(Len(log)))
    <3>1. CASE q.latest # Nothing
      <4>1. PICK i \in Places : q.latest = log[i] /\ q.latest.on /\ NamesTarget(q.latest) /\ ~Hidden(i)
        BY <1>8, <3>1, Zenon DEF Named
      <4>2. "target" \in Revokes(Scope(log[i].kind)) /\ log[i].on
        BY <4>1, TargetAndFilter
      <4>3. Standing("target", i, ReadUpTo(Len(log)))
        BY <4>1, <4>2, Zenon DEF Standing, Hidden
      <4> QED BY <4>1, <4>3
    <3> QED BY <3>1
  <2> QED BY <1>8, <2>1, <2>2 DEF Truthful, v
<1> HIDE DEF R, p
<1> QED BY <1>3a, <1>8, <1>9 DEF q, R

\* Emptying a cell, and showing what the sequence tree names, leave the rest true.
LEMMA EmptiedStaysTrue ==
  ASSUME NEW u, NEW v, NEW read, Truthful(u, read), v.tombstones = u.tombstones,
         \A c \in Cells : v.status[c] \in {u.status[c], Nothing} \cup Trees
  PROVE  Truthful(v, read)
<1>1. ASSUME NEW c \in Cells
      PROVE  \/ v.status[c] \in Trees \cup {Nothing}
             \/ \E i \in Places : v.status[c] = log[i] /\ Standing(c, i, read)
  <2>1. CASE v.status[c] = u.status[c]
    BY <2>1, Zenon DEF Truthful
  <2>2. CASE v.status[c] # u.status[c]
    BY <2>2
  <2> QED BY <2>1, <2>2
<1> QED BY <1>1 DEF Truthful

LEMMA ExpiredStaysTrue ==
  ASSUME NEW u, NEW ended, NEW read, Formed(u), Truthful(u, read)
  PROVE  Truthful(ExpireTarget(u, ended), read)
<1>1. ExpireTarget(u, ended).tombstones = u.tombstones
  BY ExpireRecalls DEF Recalls
<1>2. \A c \in Cells : ExpireTarget(u, ended).status[c] \in {u.status[c], Nothing} \cup Trees
  BY ExpireShows
<1> QED BY <1>1, <1>2, EmptiedStaysTrue

\* The truth of what is shown is about the log and what was read.
LEMMA TruthPrimed ==
  ASSUME NEW u, NEW read, Truthful(u, read), log' = log
  PROVE  Truthful(u, read)'
BY DEF Truthful, Standing, Places

---------------------------------------------------------------------------
\* The steps.

LEMMA TruthOfRead ==
  ASSUME MemoryInv, NEW u, Truthful(u, ReadUpTo(Len(log))), NEW ended, Formed(u),
         updater' = ExpireTarget(u, ended), UNCHANGED log,
         given' = given \cup Range(EventResponse)
  PROVE  Truthful(updater, given)'
<1>1. given' = ReadUpTo(Len(log))
  BY Responded DEF ReadUpTo, MemoryInv
<1>2. Truthful(updater', given')
  BY <1>1, ExpiredStaysTrue
<1> QED BY <1>2 DEF Truthful, Standing, Places, Withheld

LEMMA PollTruth == ASSUME RevocationInv, TimesTellApart, PollEvents PROVE Truthful(updater, given)'
<1>1. /\ MemoryInv /\ baselined /\ UNCHANGED log /\ Truthful(updater, given)
      /\ given' = given \cup Range(EventResponse)
  BY DEF PollEvents, RevocationInv
<1>2. PICK d, ended :
        LET p == Live([updater |-> updater, announced |-> announced], EventResponse, d)
        IN  updater' = ExpireTarget(p.updater, ended) /\ announced' = p.announced
  BY Zenon DEF PollEvents
<1> DEFINE u == Live([updater |-> updater, announced |-> announced], EventResponse, d).updater
<1>3. Formed(u) /\ Truthful(u, ReadUpTo(Len(log)))
  BY <1>1, LiveKeeps, LiveStaysTrue
<1>4. updater' = ExpireTarget(u, ended)
  BY <1>2
<1> HIDE DEF u
<1> QED BY <1>1, <1>3, <1>4, TruthOfRead

LEMMA BaselineTruth ==
  ASSUME RevocationInv, TimesTellApart, BaselineEvents PROVE Truthful(updater, given)'
<1>1. /\ MemoryInv /\ ~baselined /\ UNCHANGED log /\ Truthful(updater, given)
      /\ given' = given \cup Range(EventResponse)
  BY DEF BaselineEvents, RevocationInv
<1>2. PICK ended : updater' = ExpireTarget(Baseline(updater, EventResponse), ended)
  BY Zenon DEF BaselineEvents
<1> DEFINE u == Baseline(updater, EventResponse)
<1>3. Formed(u) /\ Truthful(u, ReadUpTo(Len(log)))
  BY <1>1, BaselineKeeps, BaselineStaysTrue
<1> HIDE DEF u
<1> QED BY <1>1, <1>2, <1>3, TruthOfRead DEF u

LEMMA LogTruth ==
  ASSUME RevocationInv, NEW e \in menu, LogEvent(e) PROVE Truthful(updater, given)'
<1>1. /\ MemoryInv /\ Shapes /\ HistoryRead /\ Truthful(updater, given)
      /\ ~Contains(log, e) /\ log' = Append(log, e) /\ UNCHANGED <<updater, given>>
  BY DEF LogEvent, RevocationInv, MemoryInv
<1>2. /\ log \in Seq(menu) /\ Len(log) \in Nat /\ DOMAIN log = 1..Len(log)
      /\ given \subseteq Range(log)
  BY <1>1, Logged DEF Shapes, HistoryRead
<1>3. e \notin given
  BY <1>1, <1>2 DEF Contains, Range
<1>4. /\ Places' = Places \cup {Len(log) + 1} /\ log'[Len(log) + 1] = e
      /\ \A i \in Places : log'[i] = log[i]
  BY <1>1, <1>2 DEF Places
<1>5. ASSUME NEW c \in Cells, NEW i \in Places, Standing(c, i, given)
      PROVE  Standing(c, i, given)'
  <2>1. log'[i].on /\ c \in Revokes(Scope(log'[i].kind))
    BY <1>4, <1>5, Zenon DEF Standing
  <2>2. ASSUME NEW j \in Places', i < j, ~log'[j].on, Scope(log'[j].kind) = Scope(log'[i].kind)
        PROVE  log'[j] \notin given
    <3>1. CASE j = Len(log) + 1
      BY <1>3, <1>4, <3>1
    <3>2. CASE j \in Places
      BY <1>4, <1>5, <2>2, <3>2, Zenon DEF Standing
    <3> QED BY <1>4, <3>1, <3>2
  <2> QED BY <1>1, <2>1, <2>2, Zenon DEF Standing
<1>6. ASSUME NEW c \in Cells
      PROVE  \/ updater.status[c] \in Trees \cup {Nothing}
             \/ \E i \in Places' : updater.status[c] = log'[i] /\ Standing(c, i, given)'
  <2>1. \/ updater.status[c] \in Trees \cup {Nothing}
        \/ \E i \in Places : updater.status[c] = log[i] /\ Standing(c, i, given)
    BY <1>1, Zenon DEF Truthful
  <2> QED BY <1>4, <1>5, <2>1
<1> QED BY <1>1, <1>6 DEF Truthful, Withheld

LEMMA TargetTruth ==
  ASSUME RevocationInv, NEW name \in {"a", "b"}, NEW enabled, PollSequenceTarget(name, enabled)
  PROVE  Truthful(updater, given)'
<1>1. Formed(updater) /\ Truthful(updater, given) /\ UNCHANGED <<log, given>>
  BY DEF PollSequenceTarget, RevocationInv, MemoryInv, Shapes
<1>2. PICK ended \in BOOLEAN :
        LET u == ExpireTarget(updater, ended) IN
        \/ updater' = Put(u, {"target"}, Nothing)
        \/ updater' = u
        \/ updater' = Put(u, {"target"}, [kind |-> "sequence tree", detail |-> name])
  BY Zenon DEF PollSequenceTarget
<1> DEFINE u == ExpireTarget(updater, ended)
           t == [kind |-> "sequence tree", detail |-> name]
<1>3. Formed(u) /\ Truthful(u, given)
  BY <1>1, ExpireRecalls, ExpiredStaysTrue DEF Recalls
<1>4. t \in Trees
  BY DEF Trees
<1>5. updater' \in {u, Put(u, {"target"}, Nothing), Put(u, {"target"}, t)}
  BY <1>2
<1> HIDE DEF u, t
<1>6. \A x \in {Nothing} \cup Trees : Truthful(Put(u, {"target"}, x), given)
  <2> SUFFICES ASSUME NEW x \in {Nothing} \cup Trees PROVE Truthful(Put(u, {"target"}, x), given)
    OBVIOUS
  <2>1. Put(u, {"target"}, x).tombstones = u.tombstones
    BY <1>3, PutRecalls DEF Recalls
  <2>2. \A c \in Cells : Put(u, {"target"}, x).status[c] \in {u.status[c], Nothing} \cup Trees
    BY <1>3 DEF Put, Formed, Fields
  <2> QED BY <1>3, <2>1, <2>2, EmptiedStaysTrue
<1>7. Truthful(updater', given)
  BY <1>3, <1>4, <1>5, <1>6
<1> QED BY <1>1, <1>7 DEF Truthful, Standing, Places, Withheld

LEMMA NewIsTruthful == \A read : Truthful(NewUpdater, read)
<1>1. /\ NewUpdater.tombstones = <<>> /\ \A c \in Cells : NewUpdater.status[c] = Nothing
  BY DEF NewUpdater
<1>2. SeenCapacity \in Nat
  BY RigEventsAssumption
<1> QED BY <1>1, <1>2 DEF Truthful, IsInjective

LEMMA RebuildTruth == ASSUME RebuildUpdater PROVE Truthful(updater, given)'
<1>1. updater' = NewUpdater /\ log' = log
  BY DEF RebuildUpdater
<1>2. Truthful(updater', given')
  BY <1>1, NewIsTruthful
<1> QED BY <1>1, <1>2 DEF Truthful, Standing, Places, Withheld

LEMMA RevocationStep ==
  RevocationInv /\ TimesTellApart /\ [RigEventsNext]_rigEventsVars => RevocationInv'
<1> SUFFICES ASSUME RevocationInv, TimesTellApart, [RigEventsNext]_rigEventsVars
             PROVE  Truthful(updater, given)'
  BY MemoryStep DEF RevocationInv
<1>1. CASE \E e \in menu : LogEvent(e)
  BY <1>1, LogTruth
<1>2. CASE Replay \/ UNCHANGED rigEventsVars
  <2>1. UNCHANGED <<log, updater, given>>
    BY <1>2 DEF Replay, rigEventsVars
  <2> QED BY <2>1 DEF RevocationInv, Truthful, Standing, Places, Withheld
<1>3. CASE BaselineEvents
  BY <1>3, BaselineTruth
<1>4. CASE PollEvents
  BY <1>4, PollTruth
<1>5. CASE \E name \in {"a", "b"}, enabled \in BOOLEAN : PollSequenceTarget(name, enabled)
  BY <1>5, TargetTruth
<1>6. CASE RebuildUpdater
  BY <1>6, RebuildTruth
<1> QED BY <1>1, <1>2, <1>3, <1>4, <1>5, <1>6 DEF RigEventsNext

LEMMA RevocationMeans == RevocationInv => RevokedStateIsGone
<1> SUFFICES ASSUME RevocationInv, NEW c \in Cells, NEW d \in given, ~d.on,
                    updater.status[c] \in Range(log), Scope(updater.status[c].kind) = Scope(d.kind)
             PROVE  Position(updater.status[c]) > Position(d)
  BY DEF RevokedStateIsGone
<1>1. Shapes /\ HistoryRead /\ Truthful(updater, given)
  BY DEF RevocationInv, MemoryInv
<1>2. /\ Places = 1..Len(log) /\ Range(log) = {log[i] : i \in Places} /\ Len(log) \in Nat
      /\ \A i, j \in Places : log[i] = log[j] => i = j
  BY <1>1, Logged DEF Places
<1>3. \A i \in Places : Position(log[i]) = i
  <2> SUFFICES ASSUME NEW i \in Places PROVE Position(log[i]) = i
    OBVIOUS
  <2>1. (CHOOSE x \in Places : log[x] = log[i]) = i
    BY <1>2, Zenon
  <2> QED BY <2>1 DEF Position, Places
<1>4. updater.status[c] \notin Trees \cup {Nothing}
  <2>1. menu \in RigMenus /\ log \in Seq(menu)
    BY <1>1 DEF Shapes
  <2>2. updater.status[c] \in menu
    BY <2>1 DEF Range
  <2>3. /\ menu \subseteq [kind : STRING, time : Nat, detail : STRING, on : BOOLEAN]
        /\ Nothing \notin menu
    BY <2>1, RigEventsAssumption
  <2>4. DOMAIN updater.status[c] = {"kind", "time", "detail", "on"}
    BY <2>2, <2>3
  <2>5. \A t \in Trees : "on" \notin DOMAIN t
    BY DEF Trees
  <2> QED BY <2>2, <2>3, <2>4, <2>5
<1>5. PICK i \in Places : updater.status[c] = log[i] /\ Standing(c, i, given)
  BY <1>1, <1>4, Zenon DEF Truthful
<1>6. PICK j \in Places : d = log[j]
  BY <1>1, <1>2 DEF HistoryRead
<1>7. ~(i < j)
  BY <1>5, <1>6, Zenon DEF Standing
<1>8. i # j
  BY <1>5, <1>6, Zenon DEF Standing
<1> QED BY <1>2, <1>3, <1>5, <1>6, <1>7, <1>8

LEMMA RevocationStarts == RigEventsInit => RevocationInv
BY MemoryStarts, NewIsTruthful DEF RigEventsInit, RevocationInv

\* Nothing an updater shows comes from before a disabled event of its scope that it has
\* been given, in whatever order history is read and replayed (Revoke, the tombstones
\* and the watermarks of apply_event_state), as long as times tell the disabled
\* events of a scope apart.
THEOREM RevokedStateStaysGone ==
  RigEventsSpec /\ []TimesTellApart => []RevokedStateIsGone
<1>1. RigEventsInit => RevocationInv
  BY RevocationStarts
<1>2. RevocationInv /\ TimesTellApart /\ [RigEventsNext]_rigEventsVars => RevocationInv'
  BY RevocationStep
<1>3. RevocationInv => RevokedStateIsGone
  BY RevocationMeans
<1> QED BY <1>1, <1>2, <1>3, PTL DEF RigEventsSpec

=============================================================================
