---------------------------- MODULE Sums_proofs ----------------------------
(***************************************************************************)
(* Lemmas about SumFunctionOnSet, by which the models add up units,        *)
(* outputs and payments.  It is defined by a recursive function on the     *)
(* subsets of a finite set, and the library's induction over finite sets   *)
(* cannot be cited with the provers at hand; each lemma therefore looks at *)
(* a smallest set for which it would be false (Smallest) and takes one      *)
(* element out of it.                                                      *)
(***************************************************************************)
EXTENDS Integers, FiniteSets, Functions, FiniteSetTheorems, WellFoundedInduction, TLAPS

Some(s) == CHOOSE x \in s : TRUE

\* h adds up f over the sets s of finite S
Adds(h, f, S) ==
    h = [s \in SUBSET S |-> IF s = {} THEN 0
                            ELSE f[Some(s)] + h[s \ {Some(s)}]]

\* Of the subsets of a finite set that have a property, some is smallest.
LEMMA Smallest ==
  ASSUME NEW S, IsFiniteSet(S), NEW X \in SUBSET (SUBSET S), X # {}
  PROVE  \E T \in X : \A U \in X : U \subseteq T => U = T
<1>1. X \subseteq FiniteSubsetsOf(S)
  BY FS_Subset DEF FiniteSubsetsOf
<1>2. PICK T \in X : \A U \in X : ~(<<U, T>> \in StrictSubsetOrdering(S))
  BY <1>1, WFMin, FS_StrictSubsetOrderingWellFounded
<1> QED
  BY <1>2 DEF StrictSubsetOrdering

\* A sum is the value of an adding function; which one it is, is left open.
LEMMA SumIs ==
  ASSUME NEW f, NEW S
  PROVE  SumFunctionOnSet(f, S) = (CHOOSE h : Adds(h, f, S))[S]
  BY Zenon DEF SumFunctionOnSet, FoldFunctionOnSet, MapThenFoldSet, Adds, Some

\* What an adding function says of one set.
LEMMA AddsAt ==
  ASSUME NEW f, NEW S, NEW h, Adds(h, f, S), NEW s \in SUBSET S
  PROVE  /\ s = {} => h[s] = 0
         /\ s # {} => h[s] = f[Some(s)] + h[s \ {Some(s)}]
  BY DEF Adds

\* All of them agree, ...
LEMMA AddsAgree ==
  ASSUME NEW f, NEW S, NEW T \in SUBSET S, IsFiniteSet(T),
         NEW g, Adds(g, f, S), NEW h, Adds(h, f, T)
  PROVE  g[T] = h[T]
<1> DEFINE X == {s \in SUBSET T : g[s] # h[s]}
<1>1. SUFFICES ASSUME X # {} PROVE FALSE
  OBVIOUS
<1>0. X \in SUBSET (SUBSET T)
  OBVIOUS
<1>a. ASSUME NEW s \in SUBSET S
      PROVE  /\ s = {} => g[s] = 0
             /\ s # {} => g[s] = f[Some(s)] + g[s \ {Some(s)}]
  BY AddsAt
<1>b. ASSUME NEW s \in SUBSET T
      PROVE  /\ s = {} => h[s] = 0
             /\ s # {} => h[s] = f[Some(s)] + h[s \ {Some(s)}]
  BY AddsAt
<1>2. PICK s \in X : \A u \in X : u \subseteq s => u = s
  <2> HIDE DEF X
  <2> QED
    BY <1>0, <1>1, Smallest
<1>2a. s \in SUBSET T /\ s \in SUBSET S /\ g[s] # h[s]
  BY <1>2
<1>3. s # {}
  BY <1>2a, <1>a, <1>b
<1>5. PICK c : c = Some(s)
  OBVIOUS
<1>6. c \in s
  BY <1>3, <1>5 DEF Some
<1>7. s \ {c} \in SUBSET T /\ s \ {c} # s
  BY <1>2, <1>6
<1>8. g[s \ {c}] = h[s \ {c}]
  BY <1>2, <1>7
<1>9. g[s] = f[c] + g[s \ {c}] /\ h[s] = f[c] + h[s \ {c}]
  BY <1>2a, <1>3, <1>5, <1>a, <1>b
<1> QED
  BY <1>2a, <1>8, <1>9

\* ... and there is one.
LEMMA AddsExists ==
  ASSUME NEW f, NEW S, IsFiniteSet(S)
  PROVE  \E h : Adds(h, f, S)
<1> DEFINE X == {s \in SUBSET S : ~\E h : Adds(h, f, s)}
<1>1. SUFFICES ASSUME X # {} PROVE FALSE
  OBVIOUS
<1>0. X \in SUBSET (SUBSET S)
  OBVIOUS
<1>2. PICK T \in X : \A u \in X : u \subseteq T => u = T
  <2> HIDE DEF X
  <2> QED
    BY <1>0, <1>1, Smallest
<1>3. PICK g : g = [s \in SUBSET T |-> CHOOSE h : Adds(h, f, s)]
  OBVIOUS
<1>4. \A s \in SUBSET T : s # T => Adds(g[s], f, s)
  BY <1>2, <1>3
<1>5. PICK k : k = [s \in SUBSET T |-> IF s # T THEN g[s][s] ELSE IF T = {} THEN 0
                    ELSE f[Some(T)] + g[T \ {Some(T)}][T \ {Some(T)}]]
  OBVIOUS
<1>6. ASSUME NEW s \in SUBSET T
      PROVE  k[s] = IF s = {} THEN 0
                    ELSE f[Some(s)] + k[s \ {Some(s)}]
  <2>1. CASE s = {}
    <3>1. ASSUME T # {}
          PROVE  k[s] = 0
      <4>1. Adds(g[s], f, s) /\ k[s] = g[s][s] /\ s \in SUBSET s
        BY <1>4, <1>5, <2>1, <3>1
      <4> QED
        BY <2>1, <4>1, AddsAt
    <3> QED
      BY <1>5, <2>1, <3>1
  <2>2. CASE s # {}
    <3>1. PICK c : c = Some(s)
      OBVIOUS
    <3>2. c \in s /\ s \ {c} \in SUBSET T /\ s \ {c} # T /\ s \ {c} \in SUBSET s /\ IsFiniteSet(s \ {c})
      BY <1>2, <2>2, <3>1, FS_Subset DEF Some
    <3>3. k[s \ {c}] = g[s \ {c}][s \ {c}]
      BY <1>5, <3>2
    <3>4. CASE s = T
      BY <1>5, <2>2, <3>1, <3>3, <3>4
    <3>5. CASE s # T
      <4>1. k[s] = g[s][s] /\ Adds(g[s], f, s) /\ Adds(g[s \ {c}], f, s \ {c})
        BY <1>4, <1>5, <3>2, <3>5
      <4>2. g[s][s \ {c}] = g[s \ {c}][s \ {c}]
        BY <3>2, <4>1, AddsAgree
      <4>3. g[s][s] = f[c] + g[s][s \ {c}]
        BY <2>2, <3>1, <4>1, AddsAt
      <4> QED
        BY <2>2, <3>1, <3>3, <4>1, <4>2, <4>3
    <3> QED
      BY <3>4, <3>5
  <2> QED
    BY <2>1, <2>2
<1>7. k = [s \in SUBSET T |-> k[s]]
  BY <1>5
<1>8. Adds(k, f, T)
  BY <1>6, <1>7 DEF Adds
<1> QED
  BY <1>2, <1>8

\* The equation the sum is defined by.
LEMMA SumStep ==
  ASSUME NEW f, NEW S, IsFiniteSet(S)
  PROVE  /\ S = {} => SumFunctionOnSet(f, S) = 0
         /\ S # {} => SumFunctionOnSet(f, S) =
                        f[Some(S)] + SumFunctionOnSet(f, S \ {Some(S)})
<1>1. ASSUME NEW T \in SUBSET S
      PROVE  \E h : Adds(h, f, T) /\ SumFunctionOnSet(f, T) = h[T] /\ IsFiniteSet(T)
  BY AddsExists, SumIs, FS_Subset
<1>2. PICK h : Adds(h, f, S) /\ SumFunctionOnSet(f, S) = h[S]
  BY <1>1
<1>3. CASE S = {}
  <2>1. S \in SUBSET S /\ Adds(h, f, S)
    BY <1>2
  <2>2. h[S] = 0
    BY <1>3, <2>1, AddsAt
  <2> QED
    BY <1>2, <1>3, <2>2
<1>4. CASE S # {}
  <2>1. PICK c : c = Some(S)
    OBVIOUS
  <2>2. S \ {c} \in SUBSET S
    OBVIOUS
  <2>3. PICK g : Adds(g, f, S \ {c}) /\ SumFunctionOnSet(f, S \ {c}) = g[S \ {c}] /\ IsFiniteSet(S \ {c})
    BY <1>1
  <2>4. h[S \ {c}] = g[S \ {c}]
    BY <1>2, <2>2, <2>3, AddsAgree
  <2>5. h[S] = f[c] + h[S \ {c}]
    BY <1>2, <1>4, <2>1, AddsAt
  <2> QED
    BY <1>2, <1>4, <2>1, <2>3, <2>4, <2>5
<1> QED
  BY <1>3, <1>4

\* The sum of nothing.
LEMMA SumEmpty ==
  ASSUME NEW f
  PROVE  SumFunctionOnSet(f, {}) = 0
  BY SumStep, FS_EmptySet

\* Splits a sum at the element it is defined to begin with.
LEMMA SumSplits ==
  ASSUME NEW f, NEW S, IsFiniteSet(S), S # {}
  PROVE  \E x \in S : SumFunctionOnSet(f, S) = f[x] + SumFunctionOnSet(f, S \ {x})
<1>1. Some(S) \in S
  BY DEF Some
<1> QED
  BY <1>1, SumStep

\* A sum depends on the values it adds up only.
LEMMA SumSame ==
  ASSUME NEW f, NEW g, NEW S, IsFiniteSet(S), \A x \in S : f[x] = g[x]
  PROVE  SumFunctionOnSet(f, S) = SumFunctionOnSet(g, S)
<1> DEFINE X == {s \in SUBSET S : SumFunctionOnSet(f, s) # SumFunctionOnSet(g, s)}
<1>0. X \in SUBSET (SUBSET S)
  OBVIOUS
<1>1. SUFFICES ASSUME X # {} PROVE FALSE
  OBVIOUS
<1>2. PICK T \in X : \A u \in X : u \subseteq T => u = T
  <2> HIDE DEF X
  <2> QED
    BY <1>0, <1>1, Smallest
<1>3. T \in SUBSET S /\ IsFiniteSet(T) /\ SumFunctionOnSet(f, T) # SumFunctionOnSet(g, T)
  BY <1>2, FS_Subset
<1>4. T # {}
  BY <1>3, SumEmpty
<1>5. PICK c : c = Some(T)
  OBVIOUS
<1>6. c \in T /\ T \ {c} # T
  BY <1>4, <1>5 DEF Some
<1>7. SumFunctionOnSet(f, T \ {c}) = SumFunctionOnSet(g, T \ {c})
  BY <1>2, <1>3, <1>6
<1>8. /\ SumFunctionOnSet(f, T) = f[c] + SumFunctionOnSet(f, T \ {c})
      /\ SumFunctionOnSet(g, T) = g[c] + SumFunctionOnSet(g, T \ {c})
  BY <1>3, <1>4, <1>5, SumStep
<1> QED
  BY <1>3, <1>6, <1>7, <1>8

\* The type of a sum.
LEMMA SumInt ==
  ASSUME NEW f, NEW S, IsFiniteSet(S), \A x \in S : f[x] \in Int
  PROVE  SumFunctionOnSet(f, S) \in Int
<1> DEFINE X == {s \in SUBSET S : SumFunctionOnSet(f, s) \notin Int}
<1>0. X \in SUBSET (SUBSET S)
  OBVIOUS
<1>1. SUFFICES ASSUME X # {} PROVE FALSE
  OBVIOUS
<1>2. PICK T \in X : \A u \in X : u \subseteq T => u = T
  <2> HIDE DEF X
  <2> QED
    BY <1>0, <1>1, Smallest
<1>3. T \in SUBSET S /\ IsFiniteSet(T) /\ SumFunctionOnSet(f, T) \notin Int
  BY <1>2, FS_Subset
<1>4. T # {}
  BY <1>3, SumEmpty
<1>5. PICK c \in T : SumFunctionOnSet(f, T) = f[c] + SumFunctionOnSet(f, T \ {c})
  BY <1>3, <1>4, SumSplits
<1>6. T \ {c} # T /\ f[c] \in Int
  BY <1>3
<1>7. SumFunctionOnSet(f, T \ {c}) \in Int
  BY <1>2, <1>3, <1>6
<1> QED
  BY <1>3, <1>5, <1>6, <1>7

\* ... of natural numbers.
LEMMA SumNat ==
  ASSUME NEW f, NEW S, IsFiniteSet(S), \A x \in S : f[x] \in Nat
  PROVE  SumFunctionOnSet(f, S) \in Nat
<1> DEFINE X == {s \in SUBSET S : SumFunctionOnSet(f, s) \notin Nat}
<1>0. X \in SUBSET (SUBSET S)
  OBVIOUS
<1>1. SUFFICES ASSUME X # {} PROVE FALSE
  OBVIOUS
<1>2. PICK T \in X : \A u \in X : u \subseteq T => u = T
  <2> HIDE DEF X
  <2> QED
    BY <1>0, <1>1, Smallest
<1>3. T \in SUBSET S /\ IsFiniteSet(T) /\ SumFunctionOnSet(f, T) \notin Nat
  BY <1>2, FS_Subset
<1>4. T # {}
  BY <1>3, SumEmpty
<1>5. PICK c \in T : SumFunctionOnSet(f, T) = f[c] + SumFunctionOnSet(f, T \ {c})
  BY <1>3, <1>4, SumSplits
<1>6. T \ {c} # T /\ f[c] \in Nat
  BY <1>3
<1>7. SumFunctionOnSet(f, T \ {c}) \in Nat
  BY <1>2, <1>3, <1>6
<1> QED
  BY <1>3, <1>5, <1>6, <1>7

\* A sum may begin with any of its elements.
LEMMA SumRemove ==
  ASSUME NEW f, NEW S, IsFiniteSet(S), \A x \in S : f[x] \in Int, NEW z \in S
  PROVE  SumFunctionOnSet(f, S) = f[z] + SumFunctionOnSet(f, S \ {z})
<1> DEFINE X == {s \in SUBSET S :
                   \E x \in s : SumFunctionOnSet(f, s) # f[x] + SumFunctionOnSet(f, s \ {x})}
<1>0. X \in SUBSET (SUBSET S)
  OBVIOUS
<1>1. SUFFICES ASSUME X # {} PROVE FALSE
  OBVIOUS
<1>2. PICK T \in X : \A u \in X : u \subseteq T => u = T
  <2> HIDE DEF X
  <2> QED
    BY <1>0, <1>1, Smallest
<1>3. T \in SUBSET S
  OBVIOUS
<1>a. PICK x \in T : SumFunctionOnSet(f, T) # f[x] + SumFunctionOnSet(f, T \ {x})
  OBVIOUS
<1>b. ASSUME NEW U \in SUBSET T, U # T, NEW y \in U
      PROVE  SumFunctionOnSet(f, U) = f[y] + SumFunctionOnSet(f, U \ {y})
  BY <1>2, <1>b
<1> HIDE DEF X
<1>4. ASSUME NEW U \in SUBSET S
      PROVE  IsFiniteSet(U) /\ SumFunctionOnSet(f, U) \in Int
  <2>1. IsFiniteSet(U)
    BY FS_Subset
  <2> QED
    BY <2>1, SumInt
<1>5. PICK c \in T : SumFunctionOnSet(f, T) = f[c] + SumFunctionOnSet(f, T \ {c})
  <2>1. IsFiniteSet(T) /\ T # {}
    BY <1>3, <1>4
  <2> QED
    BY <2>1, SumSplits
<1>6. c # x
  BY <1>a, <1>5
<1>7. SumFunctionOnSet(f, T \ {c}) = f[x] + SumFunctionOnSet(f, (T \ {c}) \ {x})
  BY <1>6, <1>b
<1>8. SumFunctionOnSet(f, T \ {x}) = f[c] + SumFunctionOnSet(f, (T \ {x}) \ {c})
  BY <1>6, <1>b
<1>9. (T \ {c}) \ {x} = (T \ {x}) \ {c}
  OBVIOUS
<1>10. SumFunctionOnSet(f, (T \ {x}) \ {c}) \in Int /\ f[x] \in Int /\ f[c] \in Int
  <2>1. (T \ {x}) \ {c} \in SUBSET S
    BY <1>3
  <2> QED
    BY <1>3, <1>4, <2>1
<1>11. PICK r \in Int : r = SumFunctionOnSet(f, (T \ {x}) \ {c})
  BY <1>10
<1>12. SumFunctionOnSet(f, T) = f[c] + (f[x] + r)
  BY <1>5, <1>7, <1>9, <1>11
<1>13. SumFunctionOnSet(f, T \ {x}) = f[c] + r
  BY <1>8, <1>11
<1>14. f[c] + (f[x] + r) = f[x] + (f[c] + r)
  BY <1>10
<1> QED
  BY <1>a, <1>12, <1>13, <1>14

\* One element more.
LEMMA SumAdd ==
  ASSUME NEW f, NEW S, IsFiniteSet(S), NEW x, x \notin S, \A y \in S \cup {x} : f[y] \in Int
  PROVE  SumFunctionOnSet(f, S \cup {x}) = f[x] + SumFunctionOnSet(f, S)
<1>1. IsFiniteSet(S \cup {x}) /\ x \in S \cup {x} /\ (S \cup {x}) \ {x} = S
  BY FS_AddElement
<1> QED
  BY <1>1, SumRemove
\* Fewer natural numbers add up to no more.
LEMMA SumSubset ==
  ASSUME NEW f, NEW S, IsFiniteSet(S), \A x \in S : f[x] \in Nat, NEW T \in SUBSET S
  PROVE  SumFunctionOnSet(f, T) <= SumFunctionOnSet(f, S)
<1> DEFINE X == {s \in SUBSET S : T \subseteq s /\ ~(SumFunctionOnSet(f, T) <= SumFunctionOnSet(f, s))}
<1>0. X \in SUBSET (SUBSET S)
  OBVIOUS
<1>1. SUFFICES ASSUME X # {} PROVE FALSE
  OBVIOUS
<1>2. PICK U \in X : \A u \in X : u \subseteq U => u = U
  <2> HIDE DEF X
  <2> QED
    BY <1>0, <1>1, Smallest
<1>3. /\ U \in SUBSET S /\ T \subseteq U /\ IsFiniteSet(U) /\ IsFiniteSet(T)
      /\ ~(SumFunctionOnSet(f, T) <= SumFunctionOnSet(f, U))
  BY <1>2, FS_Subset
<1>a. SumFunctionOnSet(f, T) \in Nat /\ SumFunctionOnSet(f, U) \in Nat
  BY <1>3, SumNat
<1>4. PICK c \in U : c \notin T
  BY <1>3, <1>a
<1>5. SumFunctionOnSet(f, U) = f[c] + SumFunctionOnSet(f, U \ {c})
  BY <1>3, SumRemove
<1>6. SumFunctionOnSet(f, T) <= SumFunctionOnSet(f, U \ {c})
  BY <1>2, <1>3, <1>4
<1>7. IsFiniteSet(U \ {c}) /\ \A x \in U \ {c} : f[x] \in Nat
  BY <1>3, FS_Subset
<1>8. SumFunctionOnSet(f, U \ {c}) \in Nat /\ f[c] \in Nat
  BY <1>3, <1>7, SumNat
<1> QED
  BY <1>3, <1>a, <1>5, <1>6, <1>8

=============================================================================
