----------------------------- MODULE Recursion -----------------------------
(***************************************************************************)
(* The least number principle, induction over a set of numbers, and that   *)
(* a function which the models define by recursion on a number exists.     *)
(***************************************************************************)
EXTENDS Integers, TLAPS

W == INSTANCE WellFoundedInduction

\* A set of numbers that is not empty has a least one.
LEMMA LeastNumber ==
  ASSUME NEW A \in SUBSET Nat, A # {}
  PROVE  \E m \in A : \A n \in A : m <= n
<1>1. W!IsWellFoundedOn(W!OpToRel(<, Nat), Nat)
  BY W!NatLessThanWellFounded
<1>2. PICK m \in A : \A n \in A : <<n, m>> \notin W!OpToRel(<, Nat)
  BY <1>1, W!WFMin
<1>3. \A n \in A : ~(n < m)
  BY <1>2 DEF W!OpToRel
<1>4. \A n \in A : n \in Nat
  OBVIOUS
<1>5. \A n \in A : m <= n
  BY <1>3, <1>4
<1> QED
  BY <1>5

\* Induction over the numbers, for a set.
LEMMA AllNumbers ==
  ASSUME NEW A \in SUBSET Nat, 0 \in A, \A n \in A : n + 1 \in A
  PROVE  A = Nat
<1> SUFFICES ASSUME Nat \ A # {} PROVE FALSE
  OBVIOUS
<1>1. PICK m \in Nat \ A : \A n \in Nat \ A : m <= n
  BY LeastNumber
<1>2. m - 1 \in Nat /\ m - 1 \in A
  BY <1>1
<1> QED
  BY <1>1, <1>2

\* A value for each number, from the value for a smaller one: one step of the
\* recursion, as a function of the number and of that value.
Follows(f, x, stop, base, down, step) ==
  f[x] = IF x \in stop THEN base[x] ELSE step[<<x, f[down[x]]>>]

\* For a recursion on a smaller number that ends there is such a function.
LEMMA RecursionEnds ==
  ASSUME NEW V, NEW stop \in SUBSET Nat, NEW base \in [Nat -> V],
         NEW down \in [Nat -> Nat], NEW step \in [Nat \X V -> V],
         \A x \in Nat \ stop : down[x] < x
  PROVE  \E f \in [Nat -> V] : \A x \in Nat : Follows(f, x, stop, base, down, step)
<1> DEFINE Upto(n, f) == /\ f \in [0 .. n -> V]
                         /\ \A x \in 0 .. n : Follows(f, x, stop, base, down, step)
           Below(m, g) == /\ g \in [0 .. m -> V]
                          /\ \A x \in 0 .. m - 1 : Follows(g, x, stop, base, down, step)
           Bad == {n \in Nat : ~\E f : Upto(n, f)}
<1>1. Bad = {}
  <2> SUFFICES ASSUME Bad # {} PROVE FALSE
    OBVIOUS
  <2>1. PICK m \in Bad : \A n \in Bad : m <= n
    <3>1. Bad \in SUBSET Nat
      OBVIOUS
    <3> HIDE DEF Bad
    <3> QED
      BY <3>1, LeastNumber
  <2>2. m \in Nat
    OBVIOUS
  <2>3. \E g : Below(m, g)
    <3>1. CASE m = 0
      <4> DEFINE g == [x \in 0 .. m |-> base[x]]
      <4>1. g \in [0 .. m -> V]
        BY <3>1
      <4>2. 0 .. m - 1 = {}
        BY <3>1
      <4> QED
        BY <4>1, <4>2
    <3>2. CASE m > 0
      <4>1. m - 1 \in Nat /\ m - 1 \notin Bad
        <5> HIDE DEF Bad
        <5> QED
          BY <2>1, <2>2, <3>2
      <4>2. PICK f : Upto(m - 1, f)
        BY <4>1
      <4> DEFINE g == [x \in 0 .. m |-> IF x = m THEN base[x] ELSE f[x]]
      <4>3. g \in [0 .. m -> V]
        BY <2>2, <4>2
      <4>4. \A x \in 0 .. m - 1 : g[x] = f[x] /\ (x \notin stop => down[x] \in 0 .. m - 1)
        BY <2>2
      <4> HIDE DEF g
      <4>5. \A x \in 0 .. m - 1 : Follows(g, x, stop, base, down, step)
        BY <4>2, <4>4 DEF Follows
      <4> QED
        BY <4>3, <4>5
    <3>3. m = 0 \/ m > 0
      BY <2>2
    <3> HIDE DEF Below
    <3> QED
      BY <3>1, <3>2, <3>3
  <2>4. PICK g : Below(m, g)
    BY <2>3
  <2> DEFINE last == IF m \in stop THEN base[m] ELSE step[<<m, g[down[m]]>>]
             f == [x \in 0 .. m |-> IF x = m THEN last ELSE g[x]]
  <2>5. m \notin stop => down[m] \in 0 .. m - 1
    BY <2>2
  <2>6. last \in V
    <3>1. CASE m \in stop
      BY <2>2, <3>1
    <3>2. CASE m \notin stop
      <4>1. g[down[m]] \in V
        BY <2>2, <2>4, <2>5, <3>2
      <4> QED
        BY <2>2, <3>2, <4>1
    <3> QED
      BY <3>1, <3>2
  <2> HIDE DEF last
  <2>7. f \in [0 .. m -> V]
    BY <2>4, <2>6
  <2>8. ASSUME NEW x \in 0 .. m PROVE Follows(f, x, stop, base, down, step)
    <3>1. CASE x = m
      <4>1. f[x] = last /\ (x \notin stop => f[down[x]] = g[down[x]])
        BY <2>2, <2>5, <3>1
      <4> QED
        BY <3>1, <4>1 DEF Follows, last
    <3>2. CASE x # m
      <4>1. x \in 0 .. m - 1 /\ f[x] = g[x]
        BY <2>2, <3>2
      <4>2. x \notin stop => down[x] \in 0 .. m - 1 /\ f[down[x]] = g[down[x]]
        BY <2>2, <4>1
      <4> HIDE DEF f
      <4> QED
        BY <2>4, <4>1, <4>2 DEF Follows
    <3> QED
      BY <3>1, <3>2
  <2> HIDE DEF f
  <2>9. Upto(m, f)
    BY <2>7, <2>8
  <2> QED
    BY <2>1, <2>9
<1>2. \A n \in Nat : \E f : Upto(n, f)
  BY <1>1
<1>3. ASSUME NEW m \in Nat, NEW n \in Nat, NEW f, NEW g, Upto(m, f), Upto(n, g)
      PROVE  \A x \in 0 .. m : x <= n => f[x] = g[x]
  <2> DEFINE Differ == {x \in 0 .. m : x <= n /\ f[x] # g[x]}
  <2> SUFFICES ASSUME Differ # {} PROVE FALSE
    OBVIOUS
  <2>1. PICK x \in Differ : \A y \in Differ : x <= y
    <3>1. Differ \in SUBSET Nat
      OBVIOUS
    <3> HIDE DEF Differ
    <3> QED
      BY <3>1, LeastNumber
  <2>2. x \in 0 .. m /\ x \in 0 .. n /\ x \in Nat /\ f[x] # g[x]
    BY <2>1
  <2>3. x \notin stop => down[x] \in 0 .. m /\ down[x] <= n /\ down[x] < x
    BY <2>2
  <2>4. x \notin stop => f[down[x]] = g[down[x]]
    BY <2>1, <2>2, <2>3
  <2>5. Follows(f, x, stop, base, down, step) /\ Follows(g, x, stop, base, down, step)
    BY <1>3, <2>2
  <2> QED
    BY <2>2, <2>4, <2>5 DEF Follows
<1> DEFINE u == [n \in Nat |-> CHOOSE f : Upto(n, f)]
           F == [n \in Nat |-> u[n][n]]
<1>4. \A n \in Nat : Upto(n, u[n])
  BY <1>2
<1> HIDE DEF u
<1>5. F \in [Nat -> V]
  <2> SUFFICES ASSUME NEW n \in Nat PROVE u[n][n] \in V
    OBVIOUS
  <2>1. u[n] \in [0 .. n -> V] /\ n \in 0 .. n
    BY <1>4
  <2> QED
    BY <2>1
<1>6. ASSUME NEW x \in Nat PROVE Follows(F, x, stop, base, down, step)
  <2>1. Upto(x, u[x])
    BY <1>4
  <2>2. F[x] = u[x][x] /\ Follows(u[x], x, stop, base, down, step)
    BY <2>1
  <2>3. x \notin stop => F[down[x]] = u[x][down[x]]
    <3> SUFFICES ASSUME x \notin stop PROVE F[down[x]] = u[x][down[x]]
      OBVIOUS
    <3> DEFINE y == down[x]
    <3>1. y \in Nat /\ y <= x /\ y \in 0 .. y
      OBVIOUS
    <3> HIDE DEF y, Upto
    <3>2. Upto(y, u[y])
      BY <1>4, <3>1
    <3>3. u[y][y] = u[x][y]
      BY <1>3, <2>1, <3>1, <3>2
    <3>4. F[y] = u[y][y]
      BY <3>1
    <3> QED
      BY <3>3, <3>4 DEF y
  <2> HIDE DEF F
  <2> QED
    BY <2>2, <2>3 DEF Follows
<1> QED
  BY <1>5, <1>6
=============================================================================
