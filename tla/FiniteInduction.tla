-------------------------- MODULE FiniteInduction ---------------------------
(* Induction over data, stated with sets where one would write a predicate. *)
(* What holds of the empty set and is kept by one more element holds of     *)
(* every finite set, and what holds of 0 and is kept by one more holds of   *)
(* every number.  From these: greatest elements, functions defined by       *)
(* recursion, and filtered sequences.                                       *)
EXTENDS Integers, Sequences, FiniteSetTheorems, TLAPS

(* Sets of a family that holds the empty set and, with a set, the set and   *)
(* one more element. *)
LEMMA SetInduction ==
  ASSUME NEW S, NEW F, {} \in F,
         \A T \in F, x \in S : T \subseteq S /\ x \notin T => T \cup {x} \in F
  PROVE  FiniteSubsetsOf(S) \subseteq F
  <1> DEFINE Bad == FiniteSubsetsOf(S) \ F
  <1> SUFFICES ASSUME Bad # {} PROVE FALSE
    OBVIOUS
  <1>1. PICK t \in Bad : \A u \in Bad : <<u, t>> \notin StrictSubsetOrdering(S)
    BY FS_StrictSubsetOrderingWellFounded, WFMin
  <1>2. t # {} /\ t \subseteq S /\ IsFiniteSet(t) /\ t \notin F
    BY DEF FiniteSubsetsOf
  <1>3. PICK x \in t : TRUE
    BY <1>2
  <1> DEFINE u == t \ {x}
  <1>4. u \in FiniteSubsetsOf(S)
    BY <1>2, FS_RemoveElement DEF FiniteSubsetsOf
  <1>5. <<u, t>> \in StrictSubsetOrdering(S)
    BY <1>2, <1>3 DEF StrictSubsetOrdering
  <1>6. u \in F
    BY <1>1, <1>4, <1>5
  <1>7. u \subseteq S /\ x \in S /\ x \notin u /\ u \cup {x} = t
    BY <1>2, <1>3
  <1> QED BY <1>2, <1>6, <1>7

(* Numbers of a set that holds 0 and, below a bound, each next number. *)
LEMMA UpToInduction ==
  ASSUME NEW n \in Nat, NEW F, 0 \in F, \A i \in 0..n - 1 : i \in F => i + 1 \in F
  PROVE  0..n \subseteq F
  <1> DEFINE Lower == {1..i : i \in {j \in 0..n : j \notin F}}
  <1> SUFFICES ASSUME Lower # {} PROVE FALSE
    OBVIOUS
  <1>1. Lower \subseteq FiniteSubsetsOf(1..n)
    <2> SUFFICES ASSUME NEW i \in 0..n PROVE 1..i \in FiniteSubsetsOf(1..n)
      OBVIOUS
    <2>1. IsFiniteSet(1..i)
      BY FS_Interval
    <2> QED BY <2>1 DEF FiniteSubsetsOf
  <1>2. PICK t \in Lower : \A u \in Lower : <<u, t>> \notin StrictSubsetOrdering(1..n)
    BY <1>1, FS_StrictSubsetOrderingWellFounded, WFMin
  <1>3. PICK i \in 0..n : i \notin F /\ t = 1..i
    BY DEF Lower
  <1>4. i > 0 /\ i - 1 \in 0..n - 1
    BY <1>3
  <1>5. i - 1 \notin F
    BY <1>3, <1>4
  <1>6. 1..i - 1 \in Lower
    BY <1>4, <1>5
  <1>7. <<1..i - 1, t>> \in StrictSubsetOrdering(1..n)
    BY <1>3, <1>4 DEF StrictSubsetOrdering
  <1> QED BY <1>2, <1>6, <1>7

(* A finite set of numbers has a greatest one. *)
LEMMA GreatestExists ==
  ASSUME NEW S \in SUBSET Nat, IsFiniteSet(S), S # {}
  PROVE  \E m \in S : \A x \in S : m >= x
  <1> DEFINE F == {T \in SUBSET Nat : T # {} => \E m \in T : \A x \in T : m >= x}
  <1>1. {} \in F
    OBVIOUS
  <1>2. ASSUME NEW T \in F, NEW x \in Nat, x \notin T
        PROVE  T \cup {x} \in F
    <2>1. CASE T = {}
      BY <2>1
    <2>2. CASE T # {}
      <3>1. PICK m \in T : \A y \in T : m >= y
        BY <2>2
      <3>2. \E k \in T \cup {x} : \A y \in T \cup {x} : k >= y
        BY <3>1
      <3> QED BY <3>2
    <2> QED BY <2>1, <2>2
  <1>3. S \in FiniteSubsetsOf(Nat)
    BY DEF FiniteSubsetsOf
  <1> HIDE DEF F
  <1>4. S \in F
    BY <1>1, <1>2, <1>3, SetInduction
  <1> QED BY <1>4 DEF F

(* The image of a finite set is finite. *)
LEMMA ImageFinite ==
  ASSUME NEW S, IsFiniteSet(S), NEW f
  PROVE  IsFiniteSet({f[x] : x \in S})
  <1> DEFINE g == [x \in S |-> f[x]]
             T == {f[x] : x \in S}
  <1>1. g \in [S -> T] /\ \A t \in T : \E x \in S : g[x] = t
    OBVIOUS
  <1>2. g \in Surjection(S, T)
    BY <1>1 DEF Surjection
  <1> QED BY <1>2, FS_Surjection

-----------------------------------------------------------------------------
(* The function on 0..n that goes on from s0 by the steps of a function. *)
ByRecursion(g, n, s0, step) ==
  \A i \in 0..n : g[i] = IF i = 0 THEN s0 ELSE step[<<g[i - 1], i>>]

(* There is one, when the steps stay in a set. *)
LEMMA RecursionExists ==
  ASSUME NEW n \in Nat, NEW S, NEW s0 \in S, NEW step \in [S \X (1..n) -> S]
  PROVE  \E g \in [0..n -> S] : ByRecursion(g, n, s0, step)
  <1> DEFINE Good(k, g) == \A i \in 0..k : g[i] = IF i = 0 THEN s0 ELSE step[<<g[i - 1], i>>]
             F == {k \in 0..n : \E g \in [0..k -> S] : Good(k, g)}
  <1>1. 0 \in F
    <2> DEFINE g == [i \in 0..0 |-> s0]
    <2>1. g \in [0..0 -> S]
      OBVIOUS
    <2>2. Good(0, g)
      OBVIOUS
    <2>3. 0 \in 0..n
      OBVIOUS
    <2> HIDE DEF g, Good
    <2> QED BY <2>1, <2>2, <2>3
  <1>2. ASSUME NEW k \in 0..n - 1, k \in F
        PROVE  k + 1 \in F
    <2>1. PICK g \in [0..k -> S] : Good(k, g)
      BY <1>2
    <2> DEFINE h == [i \in 0..k + 1 |-> IF i = k + 1 THEN step[<<g[k], k + 1>>] ELSE g[i]]
    <2>2. <<g[k], k + 1>> \in S \X (1..n)
      BY <2>1
    <2>3. h \in [0..k + 1 -> S]
      BY <2>1, <2>2
    <2>4. \A i \in 0..k : h[i] = g[i] /\ i # k + 1
      OBVIOUS
    <2>5. ASSUME NEW i \in 0..k + 1
          PROVE  h[i] = IF i = 0 THEN s0 ELSE step[<<h[i - 1], i>>]
      <3>1. CASE i = k + 1
        <4>1. k \in 0..k /\ i - 1 = k /\ i # 0 /\ h[i] = step[<<g[k], k + 1>>]
          BY <3>1
        <4>2. h[i - 1] = g[k]
          BY <4>1, <2>4
        <4> QED BY <4>1, <4>2, <3>1
      <3>2. CASE i \in 1..k
        <4>1. h[i] = g[i] /\ h[i - 1] = g[i - 1]
          BY <3>2, <2>4
        <4> QED BY <4>1, <3>2, <2>1
      <3>3. CASE i = 0
        <4>1. 0 \in 0..k
          OBVIOUS
        <4>2. g[0] = s0
          BY <4>1, <2>1
        <4> QED BY <4>1, <4>2, <2>4, <3>3
      <3> QED BY <3>1, <3>2, <3>3
    <2> HIDE DEF h
    <2>6. k + 1 \in 0..n
      OBVIOUS
    <2> QED BY <2>3, <2>5, <2>6
  <1> HIDE DEF F
  <1>3. n \in F
    BY <1>1, <1>2, UpToInduction
  <1> QED BY <1>3 DEF F, ByRecursion

(* The elements of a sequence that are not in a set, by recursion. *)
Filtered(order, popped) ==
  LET kept[i \in 0..Len(order)] ==
        IF i = 0 THEN << >>
        ELSE IF order[i] \in popped THEN kept[i - 1] ELSE Append(kept[i - 1], order[i])
  IN  kept[Len(order)]

(* It is reached element by element. *)
LEMMA FilteredByStep ==
  ASSUME NEW T, NEW order \in Seq(T), NEW popped
  PROVE  \E kept \in [0..Len(order) -> Seq(T)] :
           /\ kept[0] = << >>
           /\ \A i \in 1..Len(order) :
                kept[i] = IF order[i] \in popped THEN kept[i - 1]
                          ELSE Append(kept[i - 1], order[i])
           /\ Filtered(order, popped) = kept[Len(order)]
  <1> DEFINE n == Len(order)
             step == [p \in Seq(T) \X (1..n) |->
                       IF order[p[2]] \in popped THEN p[1] ELSE Append(p[1], order[p[2]])]
  <1>1. step \in [Seq(T) \X (1..n) -> Seq(T)] /\ n \in Nat /\ << >> \in Seq(T)
    OBVIOUS
  <1>2. PICK g \in [0..n -> Seq(T)] : ByRecursion(g, n, << >>, step)
    <2> DEFINE S == Seq(T)
               s0 == << >>
    <2>1. s0 \in S /\ step \in [S \X (1..n) -> S] /\ n \in Nat
      BY <1>1
    <2> HIDE DEF step, n, S, s0
    <2>2. \E g \in [0..n -> S] : ByRecursion(g, n, s0, step)
      BY <2>1, RecursionExists
    <2> QED BY <2>2 DEF S, s0
  <1>3. \A i \in 0..n : g[i] = IF i = 0 THEN << >>
               ELSE IF order[i] \in popped THEN g[i - 1] ELSE Append(g[i - 1], order[i])
    BY <1>2 DEF ByRecursion
  <1> DEFINE kept == CHOOSE k : k = [i \in 0..Len(order) |-> IF i = 0 THEN << >>
               ELSE IF order[i] \in popped THEN k[i - 1] ELSE Append(k[i - 1], order[i])]
  <1>4. g = [i \in 0..Len(order) |-> IF i = 0 THEN << >>
               ELSE IF order[i] \in popped THEN g[i - 1] ELSE Append(g[i - 1], order[i])]
    BY <1>3
  <1>5. kept = [i \in 0..Len(order) |-> IF i = 0 THEN << >>
               ELSE IF order[i] \in popped THEN kept[i - 1] ELSE Append(kept[i - 1], order[i])]
    BY <1>4
  <1>6. Filtered(order, popped) = kept[Len(order)]
    BY DEF Filtered
  <1> HIDE DEF kept
  <1>7. kept[0] = << >>
    BY <1>5
  <1>8. \A i \in 1..Len(order) :
          kept[i] = IF order[i] \in popped THEN kept[i - 1] ELSE Append(kept[i - 1], order[i])
    <2> SUFFICES ASSUME NEW i \in 1..Len(order)
                 PROVE  kept[i] = IF order[i] \in popped THEN kept[i - 1]
                                  ELSE Append(kept[i - 1], order[i])
      OBVIOUS
    <2>1. i \in 0..Len(order) /\ i # 0
      OBVIOUS
    <2> QED BY <1>5, <2>1
  <1>9. kept \in [0..Len(order) -> Seq(T)]
    <2> DEFINE F == {i \in 0..n : kept[i] \in Seq(T)}
    <2>1. 0 \in F
      BY <1>7
    <2>2. ASSUME NEW i \in 0..n - 1, i \in F PROVE i + 1 \in F
      <3>1. i + 1 \in 1..n /\ i + 1 - 1 = i
        OBVIOUS
      <3>2. kept[i] \in Seq(T) /\ order[i + 1] \in T
        BY <2>2, <3>1
      <3>3. kept[i + 1] = IF order[i + 1] \in popped THEN kept[i] ELSE Append(kept[i], order[i + 1])
        BY <1>8, <3>1
      <3>4. kept[i + 1] \in Seq(T)
        BY <3>2, <3>3
      <3> QED BY <3>1, <3>4
    <2> HIDE DEF F
    <2>3. 0..n \subseteq F
      BY <2>1, <2>2, <1>1, UpToInduction
    <2> QED BY <2>3, <1>5 DEF F
  <1> QED BY <1>6, <1>7, <1>8, <1>9

(* The other elements, in no greater number, once each if they were there  *)
(* once each. *)
Keeps(r, order, popped) ==
  /\ Len(r) <= Len(order)
  /\ (\E i \in 1..Len(order) : order[i] \in popped) => Len(r) < Len(order)
  /\ \A x : (\E i \in 1..Len(r) : r[i] = x)
              <=> (\E i \in 1..Len(order) : order[i] = x /\ x \notin popped)
  /\ (\A i, j \in 1..Len(order) : order[i] = order[j] => i = j)
       => \A i, j \in 1..Len(r) : r[i] = r[j] => i = j

(* This is what filtering leaves. *)
LEMMA FilteredKeeps ==
  ASSUME NEW T, NEW order \in Seq(T), NEW popped, NEW r, r = Filtered(order, popped)
  PROVE  r \in Seq(T) /\ Keeps(r, order, popped)
  <1> DEFINE n == Len(order)
  <1>0. n \in Nat /\ \A i \in 1..n : order[i] \in T
    OBVIOUS
  <1>1. PICK kept \in [0..n -> Seq(T)] :
          /\ kept[0] = << >>
          /\ \A i \in 1..n :
               kept[i] = IF order[i] \in popped THEN kept[i - 1] ELSE Append(kept[i - 1], order[i])
          /\ r = kept[n]
    BY FilteredByStep
  <1> DEFINE Short(i)  == /\ Len(kept[i]) <= i
                          /\ (\E j \in 1..i : order[j] \in popped) => Len(kept[i]) < i
             Same(i)   == \A x : (\E j \in 1..Len(kept[i]) : kept[i][j] = x)
                                   <=> (\E j \in 1..i : order[j] = x /\ x \notin popped)
             Once(i)   == (\A a, b \in 1..n : order[a] = order[b] => a = b)
                            => \A a, b \in 1..Len(kept[i]) : kept[i][a] = kept[i][b] => a = b
             F         == {i \in 0..n : Short(i) /\ Same(i) /\ Once(i)}
  <1>2. 0 \in F
    BY <1>0, <1>1
  <1>3. ASSUME NEW i \in 0..n - 1, i \in F
        PROVE  i + 1 \in F
    <2> DEFINE s == kept[i]
               x == order[i + 1]
               t == kept[i + 1]
    <2>0. i \in Nat /\ i + 1 \in 1..n /\ i + 1 - 1 = i /\ i \in 0..n /\ i + 1 \in 0..n
      BY <1>0
    <2>1. /\ i \in Nat /\ i + 1 \in 1..n /\ i + 1 - 1 = i /\ i \in 0..n /\ i + 1 \in 0..n
          /\ s \in Seq(T) /\ t \in Seq(T) /\ x \in T
      BY <2>0, <1>0, <1>1
    <2>2. t = IF x \in popped THEN s ELSE Append(s, x)
      BY <1>1, <2>1
    <2>3. Short(i) /\ Same(i) /\ Once(i)
      BY <1>3
    <2>4. \A j : j \in 1..i + 1 <=> j \in 1..i \/ j = i + 1
      BY <2>1
    <2>5. CASE x \in popped
      <3>1. t = s
        BY <2>2, <2>5
      <3>2. Short(i + 1)
        BY <3>1, <2>1, <2>3, <2>4
      <3>3. Same(i + 1)
        <4> SUFFICES ASSUME NEW y
                     PROVE  (\E j \in 1..Len(t) : t[j] = y)
                              <=> (\E j \in 1..i + 1 : order[j] = y /\ y \notin popped)
          OBVIOUS
        <4>1. (\E j \in 1..i + 1 : order[j] = y /\ y \notin popped)
                <=> (\E j \in 1..i : order[j] = y /\ y \notin popped)
          BY <2>4, <2>5
        <4> QED BY <4>1, <3>1, <2>3
      <3>4. Once(i + 1)
        BY <3>1, <2>3
      <3> QED BY <3>2, <3>3, <3>4, <2>1
    <2>6. CASE x \notin popped
      <3>1. t = Append(s, x)
        BY <2>2, <2>6
      <3>2. /\ Len(t) = Len(s) + 1 /\ t[Len(s) + 1] = x
            /\ \A j \in 1..Len(s) : t[j] = s[j]
            /\ Len(s) \in Nat
        BY <3>1, <2>1
      <3>3. \A j : j \in 1..Len(t) <=> j \in 1..Len(s) \/ j = Len(s) + 1
        BY <3>2
      <3>4. Short(i + 1)
        <4>1. Len(t) <= i + 1
          BY <3>2, <2>1, <2>3
        <4>2. ASSUME NEW j \in 1..i + 1, order[j] \in popped PROVE Len(t) < i + 1
          <5>1. j \in 1..i
            BY <4>2, <2>4, <2>6
          <5> QED BY <5>1, <4>2, <3>2, <2>1, <2>3
        <4> QED BY <4>1, <4>2
      <3>5. Same(i + 1)
        <4> SUFFICES ASSUME NEW y
                     PROVE  (\E j \in 1..Len(t) : t[j] = y)
                              <=> (\E j \in 1..i + 1 : order[j] = y /\ y \notin popped)
          OBVIOUS
        <4>1. (\E j \in 1..Len(t) : t[j] = y) <=> (\E j \in 1..Len(s) : s[j] = y) \/ x = y
          BY <3>2, <3>3
        <4>2. (\E j \in 1..i + 1 : order[j] = y /\ y \notin popped)
                <=> (\E j \in 1..i : order[j] = y /\ y \notin popped) \/ x = y
          BY <2>4, <2>6
        <4> QED BY <4>1, <4>2, <2>3
      <3>6. Once(i + 1)
        <4> SUFFICES ASSUME \A a, b \in 1..n : order[a] = order[b] => a = b,
                            NEW a \in 1..Len(t), NEW b \in 1..Len(t), t[a] = t[b]
                     PROVE  a = b
          OBVIOUS
        <4>1. \A c \in 1..Len(s) : s[c] # x
          <5> SUFFICES ASSUME NEW c \in 1..Len(s), s[c] = x PROVE FALSE
            OBVIOUS
          <5>1. PICK j \in 1..i : order[j] = x
            BY <2>3
          <5>2. j \in 1..n /\ j # i + 1
            BY <2>1
          <5> QED BY <5>1, <5>2, <2>1
        <4>2. CASE a \in 1..Len(s) /\ b \in 1..Len(s)
          BY <4>2, <3>2, <2>3
        <4>3. CASE a = Len(s) + 1 /\ b = Len(s) + 1
          BY <4>3
        <4>4. CASE a \in 1..Len(s) /\ b = Len(s) + 1
          BY <4>4, <3>2, <4>1
        <4>5. CASE b \in 1..Len(s) /\ a = Len(s) + 1
          BY <4>5, <3>2, <4>1
        <4> QED BY <3>3, <4>2, <4>3, <4>4, <4>5
      <3> HIDE DEF Short, Same, Once
      <3> QED BY <3>4, <3>5, <3>6, <2>1
    <2> QED BY <2>5, <2>6
  <1> HIDE DEF F
  <1>4. n \in F
    <2> HIDE DEF n
    <2>1. 0..n \subseteq F
      BY <1>0, <1>2, <1>3, UpToInduction
    <2> QED BY <2>1, <1>0
  <1>5. Short(n) /\ Same(n) /\ Once(n)
    BY <1>4 DEF F
  <1>6. r \in Seq(T) /\ n \in 0..n
    BY <1>0, <1>1
  <1>7. /\ Len(r) <= Len(order)
        /\ ((\E i \in 1..Len(order) : order[i] \in popped) => Len(r) < Len(order))
    BY <1>5, <1>1
  <1>8. \A x : (\E i \in 1..Len(r) : r[i] = x)
                 <=> (\E i \in 1..Len(order) : order[i] = x /\ x \notin popped)
    BY <1>5, <1>1
  <1>9. (\A i, j \in 1..Len(order) : order[i] = order[j] => i = j)
           => \A i, j \in 1..Len(r) : r[i] = r[j] => i = j
    BY <1>5, <1>1
  <1> QED BY <1>6, <1>7, <1>8, <1>9 DEF Keeps
=============================================================================
