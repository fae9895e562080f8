---------------------------- MODULE ChainLemmas -----------------------------
(***************************************************************************)
(* Functions that go through their argument piece by piece: the value of   *)
(* an argument is a part of its own, followed by the value of a smaller    *)
(* argument.  The frames of a stream and the expansion of a text are such  *)
(* functions.  They exist, they are unique, and their values are typed;    *)
(* this is induction over the size of the argument, by a smallest          *)
(* counterexample.                                                         *)
(***************************************************************************)
EXTENDS Integers, Sequences, WellFoundedInduction, TLAPS

\* f[p] joins the parts on the way from p along next, which ends outside E.
IsChain(f, D, E, next, part) ==
  f = [p \in D |-> IF p \in E THEN part[p] \o f[next[p]] ELSE part[p]]

\* A function that is defined by going on from an argument to a smaller one exists.
LEMMA ChainExists ==
  ASSUME NEW D, NEW E, NEW mu \in [D -> Nat], NEW next \in [E -> D], NEW part,
         E \subseteq D, \A p \in E : mu[next[p]] < mu[p]
  PROVE  \E f : IsChain(f, D, E, next, part)
<1> DEFINE Body(f, p) == IF p \in E THEN part[p] \o f[next[p]] ELSE part[p]
           Below(n) == {p \in D : mu[p] < n}
           Sat(f, n) == f = [p \in Below(n) |-> Body(f, p)]
           Good(n) == \E f : Sat(f, n)
<1>0. \A f, g : \A p \in E : f[next[p]] = g[next[p]] => Body(f, p) = Body(g, p)
  OBVIOUS
<1>a. \A f, g : \A p : p \notin E => Body(f, p) = Body(g, p)
  OBVIOUS
<1>b. \A p \in E : \A n : p \in Below(n) /\ n \in Nat => next[p] \in Below(n) /\ next[p] \in D
  OBVIOUS
<1>c. \A n : Below(n) \subseteq D
  OBVIOUS
<1>d. \A p \in D : mu[p] \in Nat /\ p \in Below(mu[p] + 1)
  OBVIOUS
<1>e. \A n \in Nat : \A p \in E : p \in Below(n + 1) => next[p] \in Below(n)
  OBVIOUS
<1>f. \A n \in Nat : \A p \in Below(n) : p \in Below(n + 1)
  OBVIOUS
<1>g. Below(0) = {}
  OBVIOUS
<1> HIDE DEF Body
<1>1. Good(0)
  <2> DEFINE f == [p \in Below(0) |-> <<>>]
  <2>1. f = [p \in Below(0) |-> Body(f, p)]
    <3> HIDE DEF Below
    <3> QED  BY <1>g
  <2> HIDE DEF f
  <2> QED  BY <2>1, Zenon
<1>2. ASSUME NEW n \in Nat, Good(n) PROVE Good(n + 1)
  <2> HIDE DEF Below
  <2>1. PICK g : g = [p \in Below(n) |-> Body(g, p)]
    BY <1>2, Zenon
  <2> DEFINE f == [p \in Below(n + 1) |-> Body(g, p)]
  <2>2. \A q \in Below(n) : f[q] = g[q]
    BY <1>f, <2>1
  <2>3. ASSUME NEW p \in Below(n + 1) PROVE Body(f, p) = Body(g, p)
    <3>1. CASE p \in E
      <4>1. f[next[p]] = g[next[p]]
        BY <1>e, <2>2, <3>1, Zenon
      <4> QED  BY <1>0, <3>1, <4>1, Zenon
    <3>2. CASE p \notin E
      BY <1>a, <3>2, Zenon
    <3> QED  BY <3>1, <3>2
  <2>4. f = [p \in Below(n + 1) |-> Body(f, p)]
    BY <2>3, Zenon
  <2> HIDE DEF f
  <2> QED  BY <2>4, Zenon
<1>3. \A n \in Nat : Good(n)
  <2> HIDE DEF Good
  <2> DEFINE Bad == {n \in Nat : ~Good(n)}
  <2> SUFFICES ASSUME Bad # {} PROVE FALSE
    OBVIOUS
  <2>1. PICK n \in Bad : \A y \in Bad : ~(<<y, n>> \in OpToRel(<, Nat))
    BY WFMin, NatLessThanWellFounded
  <2>2. n \in Nat /\ ~Good(n) /\ \A y \in Bad : ~(y < n)
    BY <2>1 DEF OpToRel
  <2>3. n # 0
    BY <1>1, <2>2
  <2>4. n - 1 \in Nat /\ n - 1 < n /\ (n - 1) + 1 = n
    BY <2>2, <2>3
  <2>5. Good(n - 1)
    BY <2>2, <2>4
  <2>6. Good((n - 1) + 1)
    BY <1>2, <2>4, <2>5
  <2> QED  BY <2>2, <2>4, <2>6
<1>4. ASSUME NEW m \in Nat, NEW n \in Nat, NEW f, NEW g, Sat(f, m), Sat(g, n),
             NEW r \in D, r \in Below(m), r \in Below(n)
      PROVE  f[r] = g[r]
  <2> DEFINE Bad == {k \in Nat : \E p \in D : p \in Below(m) /\ p \in Below(n) /\ mu[p] = k /\ f[p] # g[p]}
  <2> HIDE DEF Below
  <2>1. SUFFICES ASSUME f[r] # g[r] PROVE FALSE
    OBVIOUS
  <2>2. Bad # {} /\ Bad \subseteq Nat
    BY <1>4, <1>d, <2>1
  <2>3. PICK k \in Bad : \A y \in Bad : ~(<<y, k>> \in OpToRel(<, Nat))
    BY <2>2, WFMin, NatLessThanWellFounded
  <2>4. k \in Nat /\ \A y \in Bad : ~(y < k)
    BY <2>3 DEF OpToRel
  <2>5. PICK p \in D : p \in Below(m) /\ p \in Below(n) /\ mu[p] = k /\ f[p] # g[p]
    OBVIOUS
  <2>6. f[p] = Body(f, p) /\ g[p] = Body(g, p)
    BY <1>4, <2>5
  <2>7. CASE p \notin E
    BY <1>a, <2>5, <2>6, <2>7, Zenon
  <2>8. CASE p \in E
    <3>1. next[p] \in D /\ next[p] \in Below(m) /\ next[p] \in Below(n)
      BY <1>b, <1>4, <2>5, <2>8, Zenon
    <3>2. mu[next[p]] < k /\ mu[next[p]] \in Nat
      BY <1>d, <2>5, <2>8, <3>1
    <3>3. mu[next[p]] \notin Bad
      BY <2>4, <3>2
    <3>4. f[next[p]] = g[next[p]]
      BY <3>1, <3>2, <3>3
    <3> QED  BY <1>0, <2>5, <2>6, <2>8, <3>4, Zenon
  <2> QED  BY <2>7, <2>8
<1> DEFINE F(n) == CHOOSE f : Sat(f, n)
           h == [p \in D |-> F(mu[p] + 1)[p]]
<1>5. \A n \in Nat : Sat(F(n), n)
  <2> HIDE DEF Sat
  <2> QED  BY <1>3, Zenon
<1>6. ASSUME NEW p \in D PROVE h[p] = Body(h, p)
  <2> DEFINE n == mu[p] + 1
  <2>1. n \in Nat /\ p \in Below(n)
    BY <1>d
  <2>2. Sat(F(n), n)
    BY <1>5, <2>1, Zenon
  <2>3. F(n)[p] = Body(F(n), p)
    <3> HIDE DEF F, n, Below
    <3> QED  BY <2>1, <2>2
  <2>4. h[p] = F(n)[p]
    <3> HIDE DEF F
    <3> QED  OBVIOUS
  <2>5. CASE p \notin E
    <3> HIDE DEF F, h, n
    <3> QED  BY <1>a, <2>3, <2>4, <2>5, Zenon
  <2>6. CASE p \in E
    <3> DEFINE q == next[p]
               m == mu[q] + 1
    <3>1. q \in D /\ q \in Below(n) /\ m \in Nat /\ q \in Below(m)
      <4>1. q \in D /\ q \in Below(n)
        <5> HIDE DEF n, Below
        <5> QED  BY <1>b, <2>1, <2>6, Zenon
      <4> QED  BY <1>d, <4>1
    <3>2. Sat(F(m), m)
      BY <1>5, <3>1, Zenon
    <3>3. h[q] = F(m)[q]
      <4> HIDE DEF F
      <4> QED  BY <3>1
    <3>4. F(n)[q] = F(m)[q]
      <4> HIDE DEF F, n, m, q, Sat, Below
      <4> QED  BY <1>4, <2>1, <2>2, <3>1, <3>2
    <3> HIDE DEF F, h, n, m
    <3> QED  BY <1>0, <2>3, <2>4, <2>6, <3>3, <3>4
  <2> QED  BY <2>5, <2>6
<1>7. h = [p \in D |-> Body(h, p)]
  <2>1. h = [p \in D |-> h[p]]
    <3> HIDE DEF F
    <3> QED OBVIOUS
  <2> HIDE DEF h
  <2> QED  BY <1>6, <2>1
<1> HIDE DEF h
<1>8. IsChain(h, D, E, next, part)
  BY <1>7 DEF Body, IsChain
<1> QED  BY <1>8

\* What two sequences joined are.
LEMMA ConcatIs ==
  ASSUME NEW S, NEW a \in Seq(S), NEW b \in Seq(S)
  PROVE  /\ a \o b \in Seq(S) /\ Len(a \o b) = Len(a) + Len(b)
         /\ \A i \in 1 .. Len(a) + Len(b) :
              (a \o b)[i] = IF i <= Len(a) THEN a[i] ELSE b[i - Len(a)]
  OBVIOUS

LEMMA JoinType ==
  ASSUME NEW R, NEW a \in Seq(R), NEW b \in Seq(R)
  PROVE  a \o b \in Seq(R)
  OBVIOUS

\* Its values are sequences.
LEMMA ChainTyped ==
  ASSUME NEW D, NEW E, NEW R, NEW mu \in [D -> Nat], NEW next \in [E -> D],
         NEW part \in [D -> Seq(R)], E \subseteq D, \A p \in E : mu[next[p]] < mu[p],
         NEW f, IsChain(f, D, E, next, part)
  PROVE  \A p \in D : f[p] \in Seq(R)
<1> DEFINE Bad == {k \in Nat : \E p \in D : mu[p] = k /\ f[p] \notin Seq(R)}
<1>1. SUFFICES ASSUME NEW r \in D, f[r] \notin Seq(R) PROVE FALSE
  OBVIOUS
<1>2. Bad # {} /\ Bad \subseteq Nat
  BY <1>1
<1>3. PICK k \in Bad : \A y \in Bad : ~(<<y, k>> \in OpToRel(<, Nat))
  BY <1>2, WFMin, NatLessThanWellFounded
<1>4. k \in Nat /\ \A y \in Bad : ~(y < k)
  BY <1>3 DEF OpToRel
<1>5. PICK p \in D : mu[p] = k /\ f[p] \notin Seq(R)
  OBVIOUS
<1>6. CASE p \notin E
  <2>1. f[p] = part[p]
    BY <1>6 DEF IsChain
  <2> QED  BY <1>5, <2>1
<1>7. CASE p \in E
  <2>1. next[p] \in D /\ mu[next[p]] < k /\ mu[next[p]] \in Nat
    BY <1>5, <1>7
  <2>2. mu[next[p]] \notin Bad
    BY <1>4, <2>1
  <2>3. f[next[p]] \in Seq(R)
    BY <2>1, <2>2
  <2>4. f[p] = part[p] \o f[next[p]] /\ part[p] \in Seq(R)
    BY <1>7 DEF IsChain
  <2>5. part[p] \o f[next[p]] \in Seq(R)
    BY <2>3, <2>4, JoinType
  <2> QED  BY <1>5, <2>4, <2>5
<1> QED  BY <1>6, <1>7

\* There is only one.
LEMMA ChainUnique ==
  ASSUME NEW D, NEW E, NEW mu \in [D -> Nat], NEW next \in [E -> D], NEW part,
         E \subseteq D, \A p \in E : mu[next[p]] < mu[p],
         NEW f, NEW g, IsChain(f, D, E, next, part), IsChain(g, D, E, next, part)
  PROVE  \A p \in D : f[p] = g[p]
<1> DEFINE Bad == {k \in Nat : \E p \in D : mu[p] = k /\ f[p] # g[p]}
<1>1. SUFFICES ASSUME NEW r \in D, f[r] # g[r] PROVE FALSE
  OBVIOUS
<1>2. Bad # {} /\ Bad \subseteq Nat
  BY <1>1
<1>3. PICK k \in Bad : \A y \in Bad : ~(<<y, k>> \in OpToRel(<, Nat))
  BY <1>2, WFMin, NatLessThanWellFounded
<1>4. k \in Nat /\ \A y \in Bad : ~(y < k)
  BY <1>3 DEF OpToRel
<1>5. PICK p \in D : mu[p] = k /\ f[p] # g[p]
  OBVIOUS
<1>6. CASE p \notin E
  BY <1>5, <1>6 DEF IsChain
<1>7. CASE p \in E
  <2>1. next[p] \in D /\ mu[next[p]] < k /\ mu[next[p]] \in Nat
    BY <1>5, <1>7
  <2>2. mu[next[p]] \notin Bad
    BY <1>4, <2>1
  <2>3. f[next[p]] = g[next[p]]
    BY <2>1, <2>2
  <2>4. f[p] = part[p] \o f[next[p]] /\ g[p] = part[p] \o g[next[p]]
    BY <1>7 DEF IsChain
  <2> QED  BY <1>5, <2>3, <2>4
<1> QED  BY <1>6, <1>7
=============================================================================
