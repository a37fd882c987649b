----------------------------- MODULE Recursion -----------------------------
(***************************************************************************)
(* A recursive function f[a \in D] == Body(ctx, f, a) exists when every    *)
(* value depends on values for smaller arguments only.  To be instantiated *)
(* with the body of a definition and with what is known of its values in   *)
(* advance (nothing, or what keeps a nested call within the domain); ctx   *)
(* stands for whatever else the definition mentions.                       *)
(***************************************************************************)
EXTENDS Naturals, WellFoundedInduction, TLAPS

CONSTANTS Body(_, _, _),    \* the value at an argument, from the function
          Shape(_, _, _)    \* what values an argument may have

\* f satisfies the definition.
Defines(ctx, D, f) == f = [a \in D |-> Body(ctx, f, a)]

Shaped(ctx, D, f) == \A a \in D : Shape(ctx, a, f[a])

\* What Body makes of f at a depends on f below the size of a only.
Local(ctx, D, size) ==
    \A f, g : Shaped(ctx, D, f) /\ Shaped(ctx, D, g) =>
        \A a \in D :
            (\A b \in D : size[b] < size[a] => f[b] = g[b]) => Body(ctx, f, a) = Body(ctx, g, a)

\* Values of the shape lead to values of the shape, and there are some.
Closed(ctx, D) ==
    /\ \A a \in D : \E v : Shape(ctx, a, v)
    /\ \A f : Shaped(ctx, D, f) => \A a \in D : Shape(ctx, a, Body(ctx, f, a))

\* f satisfies the definition as far as the arguments of size below n.
Approximates(ctx, D, size, n, f) ==
    /\ Shaped(ctx, D, f)
    /\ \A a \in D : size[a] < n => f[a] = Body(ctx, f, a)

\* Every nonempty set of numbers has a least one.
LEMMA LeastNumber ==
    ASSUME NEW S \in SUBSET Nat, S # {}
    PROVE  \E m \in S : \A n \in S : m <= n
<1>1. PICK m \in S : \A n \in S : <<n, m>> \notin OpToRel(<, Nat)
  BY NatLessThanWellFounded, WFMin
<1>2. \A n \in S : ~ (n < m)
  BY <1>1 DEF OpToRel
<1>3. \A n \in S : m <= n
  BY <1>2
<1> QED BY <1>3

\* Induction from each number to the next one, up to n.
LEMMA UpTo ==
    ASSUME NEW n \in Nat, NEW S, 0 \in S, \A k \in 1 .. n : k - 1 \in S => k \in S
    PROVE  \A k \in 0 .. n : k \in S
<1> DEFINE Bad == {k \in 0 .. n : k \notin S}
<1> SUFFICES ASSUME Bad # {} PROVE FALSE
  OBVIOUS
<1>1. PICK k \in Bad : \A l \in Bad : k <= l
  <2>1. Bad \in SUBSET Nat
    OBVIOUS
  <2> HIDE DEF Bad
  <2> QED BY <2>1, LeastNumber
<1>2. k \in 1 .. n /\ k - 1 \in 0 .. n
  BY <1>1
<1>3. k - 1 \in S
  BY <1>1, <1>2
<1> QED BY <1>1, <1>2, <1>3

\* Induction over the elements of D, from the smaller ones to the larger ones.
LEMMA BySize ==
    ASSUME NEW D, NEW size \in [D -> Nat], NEW S,
           \A a \in D : (\A b \in D : size[b] < size[a] => b \in S) => a \in S
    PROVE  \A a \in D : a \in S
<1> DEFINE Bad == {size[a] : a \in {b \in D : b \notin S}}
<1>1. Bad \in SUBSET Nat
  OBVIOUS
<1>2. ASSUME Bad # {} PROVE FALSE
  <2>1. PICK k \in Bad : \A l \in Bad : k <= l
    <3> HIDE DEF Bad
    <3> QED BY <1>1, <1>2, LeastNumber
  <2>2. PICK a \in D : a \notin S /\ size[a] = k
    BY <2>1
  <2>3. ASSUME NEW b \in D, size[b] < size[a] PROVE b \in S
    <3>1. b \notin S => size[b] \in Bad
      OBVIOUS
    <3> HIDE DEF Bad
    <3>2. b \notin S => size[a] <= size[b]
      BY <2>1, <2>2, <3>1, Zenon
    <3>3. size[a] \in Nat /\ size[b] \in Nat
      OBVIOUS
    <3> QED BY <2>3, <3>2, <3>3
  <2> QED BY <2>2, <2>3
<1> QED BY <1>2

\* There is an approximation for every size.
LEMMA ApproximationExists ==
    ASSUME NEW ctx, NEW D, NEW size \in [D -> Nat], Local(ctx, D, size), Closed(ctx, D),
           NEW n \in Nat
    PROVE  \E f : Approximates(ctx, D, size, n, f)
<1> DEFINE Bad == {m \in Nat : ~ \E f : Approximates(ctx, D, size, m, f)}
<1> SUFFICES ASSUME Bad # {} PROVE FALSE
  OBVIOUS
<1>1. PICK m \in Bad : \A k \in Bad : m <= k
  BY LeastNumber
<1>2. m # 0
  <2> DEFINE f0 == [a \in D |-> CHOOSE v : Shape(ctx, a, v)]
  <2>1. Shaped(ctx, D, f0)
    BY DEF Closed, Shaped
  <2>2. Approximates(ctx, D, size, 0, f0)
    BY <2>1 DEF Approximates
  <2> QED BY <2>2
<1>3. m \in Nat /\ m - 1 \in Nat /\ m - 1 \notin Bad
  BY <1>1, <1>2
<1>4. PICK f : Approximates(ctx, D, size, m - 1, f)
  BY <1>3
<1> DEFINE g == [a \in D |-> Body(ctx, f, a)]
<1>5. Shaped(ctx, D, f) /\ Shaped(ctx, D, g)
  BY <1>4 DEF Approximates, Closed, Shaped
<1>6. ASSUME NEW a \in D, size[a] < m PROVE g[a] = Body(ctx, g, a)
  <2>1. ASSUME NEW b \in D, size[b] < size[a] PROVE f[b] = g[b]
    <3>1. size[b] < m - 1
      BY <1>3, <1>6, <2>1
    <3> QED BY <1>4, <3>1 DEF Approximates
  <2>2. Body(ctx, f, a) = Body(ctx, g, a)
    BY <1>5, <2>1, Zenon DEF Local
  <2> QED BY <2>2
<1>7. Approximates(ctx, D, size, m, g)
  BY <1>5, <1>6 DEF Approximates
<1> QED BY <1>7

\* Two of them agree as far as both go.
LEMMA ApproximationsAgree ==
    ASSUME NEW ctx, NEW D, NEW size \in [D -> Nat], Local(ctx, D, size),
           NEW m \in Nat, NEW n \in Nat, m <= n, NEW f, NEW g,
           Approximates(ctx, D, size, m, f), Approximates(ctx, D, size, n, g),
           NEW c \in D, size[c] < m
    PROVE  f[c] = g[c]
<1> DEFINE Bad == {size[a] : a \in {b \in D : size[b] < m /\ f[b] # g[b]}}
<1> SUFFICES ASSUME Bad # {} PROVE FALSE
  OBVIOUS
<1>1. PICK k \in Bad : \A l \in Bad : k <= l
  BY LeastNumber
<1>2. PICK a \in D : size[a] = k /\ size[a] < m /\ f[a] # g[a]
  BY <1>1
<1>3. ASSUME NEW b \in D, size[b] < size[a] PROVE f[b] = g[b]
  BY <1>1, <1>2, <1>3
<1>4. Body(ctx, f, a) = Body(ctx, g, a)
  BY <1>3, Zenon DEF Local, Approximates
<1>5. f[a] = Body(ctx, f, a) /\ g[a] = Body(ctx, g, a)
  BY <1>2 DEF Approximates
<1> QED BY <1>2, <1>4, <1>5

\* The function exists.
LEMMA FunctionExists ==
    ASSUME NEW ctx, NEW D, NEW size \in [D -> Nat], Local(ctx, D, size), Closed(ctx, D)
    PROVE  \E f : Defines(ctx, D, f) /\ Shaped(ctx, D, f)
<1> DEFINE Approx(a) == CHOOSE f : Approximates(ctx, D, size, size[a] + 1, f)
           f == [a \in D |-> Approx(a)[a]]
<1>1. ASSUME NEW a \in D PROVE Approximates(ctx, D, size, size[a] + 1, Approx(a))
  <2>1. \E h : Approximates(ctx, D, size, size[a] + 1, h)
    BY ApproximationExists
  <2> QED BY <2>1
<1> HIDE DEF Approx
<1>2. Shaped(ctx, D, f)
  BY <1>1 DEF Shaped, Approximates
<1>3. ASSUME NEW a \in D PROVE f[a] = Body(ctx, f, a)
  <2>1. Approx(a)[a] = Body(ctx, Approx(a), a)
    BY <1>1 DEF Approximates
  <2>2. ASSUME NEW b \in D, size[b] < size[a] PROVE Approx(a)[b] = f[b]
    <3>1. size[b] + 1 \in Nat /\ size[a] + 1 \in Nat /\ size[b] + 1 <= size[a] + 1
          /\ size[b] < size[b] + 1
      BY <2>2
    <3>2. Approx(b)[b] = Approx(a)[b]
      BY <1>1, <3>1, ApproximationsAgree
    <3> QED BY <3>2
  <2>3. Body(ctx, Approx(a), a) = Body(ctx, f, a)
    <3>1. Shaped(ctx, D, Approx(a))
      BY <1>1 DEF Approximates
    <3> HIDE DEF f
    <3> QED BY <1>2, <2>2, <3>1, Zenon DEF Local
  <2> QED BY <2>1, <2>3
<1>4. f = [a \in D |-> Body(ctx, f, a)]
  <2>1. f = [a \in D |-> f[a]]
    OBVIOUS
  <2> HIDE DEF f
  <2> QED BY <1>3, <2>1, Zenon
<1>5. Defines(ctx, D, f)
  BY <1>4, Zenon DEF Defines
<1> QED BY <1>2, <1>5, Zenon
=============================================================================
