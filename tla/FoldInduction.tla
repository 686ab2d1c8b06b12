---------------------------- MODULE FoldInduction ----------------------------
(***************************************************************************)
(* What a loop over numbers keeps.  A fold of the community modules is a   *)
(* recursive function on the subsets of what it goes through: it takes the *)
(* largest element last.  The loop's body is a parameter of this module,   *)
(* instantiated once for every loop.                                       *)
(***************************************************************************)
EXTENDS Naturals, WellFoundedInduction, TLAPS

CONSTANTS
    Body(_, _, _),   \* the body: parameters of the loop, number, state before
    Keeps(_, _, _),  \* what is kept: parameters of the loop, number it has come to, state
    Last(_)          \* the largest element of a set

\* The states of a loop that starts at base, by the set of numbers it has done.
IsLoop(g, p, base, T) ==
    g = [s \in SUBSET T |-> IF s = {} THEN base ELSE Body(p, Last(s), g[s \ {Last(s)}])]

LastIsLargest(T) == \A s \in SUBSET T : s # {} => Last(s) \in s /\ \A x \in s : x <= Last(s)

Below(T, m) == {x \in T : x < m}

\* Induction on the natural numbers, for a set.
LEMMA SetInduction ==
  ASSUME NEW A \in SUBSET Nat, 0 \in A, \A n \in A : n + 1 \in A
  PROVE  A = Nat
  <1> SUFFICES ASSUME Nat \ A # {} PROVE FALSE
    OBVIOUS
  <1>1. PICK x \in Nat \ A : \A y \in Nat \ A : ~(<<y, x>> \in OpToRel(<, Nat))
    BY NatLessThanWellFounded, WFMin
  <1>2. \A y \in Nat \ A : ~(y < x)
    BY <1>1 DEF OpToRel
  <1>3. x # 0 /\ x - 1 \in Nat /\ x - 1 < x /\ (x - 1) + 1 = x
    OBVIOUS
  <1> QED BY <1>2, <1>3

LEMMA BelowNext ==
  ASSUME NEW T \in SUBSET Nat, NEW m \in Nat
  PROVE  /\ Below(T, 0) = {} /\ Below(T, m) \subseteq Below(T, m + 1) /\ Below(T, m + 1) \subseteq T
         /\ \A x \in Below(T, m + 1) : x \in Nat /\ x <= m /\ (x \in Below(T, m) \/ x = m)
         /\ m \notin T => Below(T, m + 1) = Below(T, m)
         /\ m \in T => m \in Below(T, m + 1) /\ Below(T, m + 1) \ {m} = Below(T, m)
  <1>1. \A x \in T : x \in Nat
    OBVIOUS
  <1>2. \A x \in T : ~(x < 0) /\ (x < m + 1 <=> x <= m) /\ (x <= m <=> x < m \/ x = m) /\ ~(m < m)
    BY <1>1
  <1> QED BY <1>1, <1>2 DEF Below

\* The loop that has done the numbers below m, and one more of them.
LEMMA LoopBelow ==
  ASSUME NEW T \in SUBSET Nat, LastIsLargest(T), NEW p, NEW base, NEW m \in Nat,
         NEW g, IsLoop(g, p, base, Below(T, m))
  PROVE  \E h : IsLoop(h, p, base, Below(T, m + 1))
  <1> DEFINE U == Below(T, m)
            V == Below(T, m + 1)
            h == [s \in SUBSET V |-> IF m \in s THEN Body(p, m, g[s \ {m}]) ELSE g[s]]
  <1>1. U \subseteq V /\ V \subseteq T /\ \A x \in V : x \in Nat /\ x <= m /\ (x \in U \/ x = m)
    BY BelowNext
  <1>2. ASSUME NEW s \in SUBSET V
        PROVE  h[s] = IF s = {} THEN base ELSE Body(p, Last(s), h[s \ {Last(s)}])
    <2>1. CASE m \in s
      <3>1. s # {} /\ Last(s) \in s /\ \A x \in s : x <= Last(s)
        BY <1>1, <2>1 DEF LastIsLargest
      <3>2. Last(s) = m
        <4>1. Last(s) \in Nat /\ Last(s) <= m
          BY <3>1, <1>1
        <4>2. m <= Last(s)
          BY <3>1, <2>1
        <4> QED BY <4>1, <4>2
      <3>3. s \ {m} \in SUBSET V /\ m \notin s \ {m}
        OBVIOUS
      <3> QED BY <2>1, <3>1, <3>2, <3>3
    <2>2. CASE m \notin s
      <3>1. s \in SUBSET U /\ s \ {Last(s)} \in SUBSET V /\ m \notin s \ {Last(s)}
        BY <1>1, <2>2
      <3>2. h[s] = g[s] /\ h[s \ {Last(s)}] = g[s \ {Last(s)}]
        BY <2>2, <3>1
      <3>3. g[s] = IF s = {} THEN base ELSE Body(p, Last(s), g[s \ {Last(s)}])
        BY <3>1 DEF IsLoop
      <3> QED BY <3>2, <3>3
    <2> QED BY <2>1, <2>2
  <1>3. IsLoop(h, p, base, V)
    <2> HIDE DEF U, V
    <2>1. h = [s \in SUBSET V |-> h[s]]
      OBVIOUS
    <2> HIDE DEF h
    <2> QED BY <2>1, <1>2 DEF IsLoop
  <1> QED BY <1>3

\* A bounded set has a largest element.
LEMMA LargestExists ==
  ASSUME NEW s \in SUBSET Nat, s # {}, NEW bound \in Nat, \A x \in s : x < bound
  PROVE  \E x \in s : \A y \in s : y <= x
  <1> DEFINE Large(t) == \E x \in t : \A y \in t : y <= x
            A == {m \in Nat : \A t \in SUBSET Nat : t # {} /\ (\A x \in t : x < m) => Large(t)}
  <1>1. 0 \in A
    <2>1. ASSUME NEW t \in SUBSET Nat, t # {}, \A x \in t : x < 0 PROVE FALSE
      <3>1. PICK x \in t : x \in Nat
        BY <2>1
      <3> QED BY <2>1, <3>1
    <2> QED BY <2>1
  <1>2. ASSUME NEW m \in A PROVE m + 1 \in A
    <2> SUFFICES ASSUME NEW t \in SUBSET Nat, t # {}, \A x \in t : x < m + 1 PROVE Large(t)
      OBVIOUS
    <2>1. \A x \in t : x \in Nat /\ x <= m
      OBVIOUS
    <2>2. CASE m \in t
      BY <2>1, <2>2
    <2>3. CASE m \notin t
      <3>1. \A x \in t : x < m
        BY <2>1, <2>3
      <3> QED BY <3>1
    <2> QED BY <2>2, <2>3
  <1>3. A = Nat
    BY <1>1, <1>2, SetInduction
  <1> QED BY <1>3

\* A loop over a bounded set exists, for every body and every set of numbers.
THEOREM LoopExists ==
  ASSUME NEW T \in SUBSET Nat, NEW bound \in Nat, \A x \in T : x < bound, LastIsLargest(T),
         NEW p, NEW base
  PROVE  \E g : IsLoop(g, p, base, T)
  <1> DEFINE A == {m \in Nat : \E g : IsLoop(g, p, base, Below(T, m))}
  <1>1. 0 \in A
    <2> DEFINE g == [s \in {{}} |-> base]
    <2>1. Below(T, 0) = {}
      BY BelowNext
    <2>2. IsLoop(g, p, base, {})
      BY DEF IsLoop
    <2> QED BY <2>1, <2>2
  <1>2. \A m \in A : m + 1 \in A
    BY LoopBelow
  <1>3. A = Nat
    BY <1>1, <1>2, SetInduction
  <1>4. Below(T, bound) = T
    BY DEF Below
  <1> QED BY <1>3, <1>4

\* A loop keeps what its body keeps: the state at its end is as good as the first one.
THEOREM LoopKeeps ==
  ASSUME NEW T \in SUBSET Nat, NEW bound \in Nat, \A x \in T : x < bound, LastIsLargest(T),
         NEW p, NEW base, NEW g, IsLoop(g, p, base, T),
         Keeps(p, 0, base),
         \A m \in Nat : \A s : Keeps(p, m, s) => IF m \in T THEN Keeps(p, m + 1, Body(p, m, s))
                                           ELSE Keeps(p, m + 1, s)
  PROVE  Keeps(p, bound, g[T])
  <1> DEFINE A == {m \in Nat : Keeps(p, m, g[Below(T, m)])}
  <1>1. 0 \in A
    <2>1. Below(T, 0) = {} /\ {} \in SUBSET T
      BY BelowNext
    <2> QED BY <2>1 DEF IsLoop
  <1>2. ASSUME NEW m \in A PROVE m + 1 \in A
    <2>1. CASE m \notin T
      <3>1. Below(T, m + 1) = Below(T, m)
        BY <2>1, BelowNext
      <3> QED BY <2>1, <3>1
    <2>2. CASE m \in T
      <3> DEFINE s == Below(T, m + 1)
      <3>1. s \in SUBSET T /\ m \in s /\ s \ {m} = Below(T, m) /\ \A x \in s : x \in Nat /\ x <= m
        BY <2>2, BelowNext
      <3>2. Last(s) \in s /\ \A x \in s : x <= Last(s)
        BY <3>1 DEF LastIsLargest
      <3>3. Last(s) = m
        BY <3>1, <3>2
      <3>4. g[s] = Body(p, m, g[Below(T, m)])
        BY <3>1, <3>3 DEF IsLoop
      <3> QED BY <2>2, <3>4
    <2> QED BY <2>1, <2>2
  <1>3. A = Nat
    BY <1>1, <1>2, SetInduction
  <1>4. Below(T, bound) = T
    BY DEF Below
  <1> QED BY <1>3, <1>4
=============================================================================
