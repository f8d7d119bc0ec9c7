----------------------------- MODULE FiniteSums -----------------------------
(***************************************************************************)
(* What MapThenSumSet of the community modules computes for a function     *)
(* over a finite set: the facts about sums that the proofs about PaySession*)
(* usage and about rent need.                                              *)
(*                                                                         *)
(* Each fact is proved from a smallest counterexample (LeastSet).          *)
(***************************************************************************)
EXTENDS FiniteSetsExt, FiniteSetTheorems, TLAPS

\* The sum of g over T.
SumOver(g, T) == MapThenSumSet(LAMBDA x : g[x], T)

\* The element that the fold takes next, and the function it computes.
Taken(s) == CHOOSE x \in s : TRUE
Sums(f, g, T) ==
  f = [s \in SUBSET T |->
         IF s = {} THEN 0 ELSE g[Taken(s)] + f[s \ {Taken(s)}]]

\* The fold takes an element of the set.
LEMMA TakenIn ==
  ASSUME NEW s, s # {}
  PROVE  Taken(s) \in s
BY DEF Taken

\* The library's fold, unfolded.
LEMMA SumUnfold ==
  ASSUME NEW g, NEW T
  PROVE  SumOver(g, T) = (CHOOSE f : Sums(f, g, T))[T]
BY DEF SumOver, MapThenSumSet, MapThenFoldSet, Sums, Taken

\* Any collection of subsets of a finite set has a member that is least: no
\* proper subset of it belongs to the collection.
LEMMA LeastSet ==
  ASSUME NEW T, IsFiniteSet(T), NEW B \in SUBSET (SUBSET T), B # {}
  PROVE  \E s \in B : \A u \in SUBSET s : u # s => u \notin B
<1> DEFINE R == StrictSubsetOrdering(T)
<1>1. IsWellFoundedOn(R, SUBSET T)
  BY FS_StrictSubsetOrderingWellFounded, FS_FiniteSubsetsOfFinite
<1>2. PICK s \in B : \A u \in B : <<u, s>> \notin R
  <2> HIDE DEF R
  <2>1. QED
    BY <1>1, WFMin
<1>3. ASSUME NEW u \in SUBSET s, u # s, u \in B
      PROVE  FALSE
  <2>1. <<u, s>> \in R
    BY <1>3 DEF StrictSubsetOrdering
  <2> HIDE DEF R
  <2>2. QED
    BY <1>2, <1>3, <2>1
<1>4. QED
  BY <1>3

-----------------------------------------------------------------------------
(***************************************************************************)
(* The fold is well defined.                                               *)
(***************************************************************************)
\* Two such functions agree wherever both are defined.
LEMMA SumsAgree ==
  ASSUME NEW g, NEW T, IsFiniteSet(T), NEW U, NEW f, NEW h,
         Sums(f, g, T), Sums(h, g, U), NEW s \in SUBSET (T \cap U)
  PROVE  f[s] = h[s]
<1> DEFINE B == {u \in SUBSET (T \cap U) : f[u] # h[u]}
<1>1. SUFFICES ASSUME B # {} PROVE FALSE
  OBVIOUS
<1>2. B \in SUBSET (SUBSET T)
  OBVIOUS
<1>3. PICK u \in B : \A v \in SUBSET u : v # u => v \notin B
  <2> HIDE DEF B
  <2>1. QED
    BY <1>1, <1>2, LeastSet
<1>4. u \in SUBSET T /\ u \in SUBSET U
  OBVIOUS
<1>5. /\ f[u] = IF u = {} THEN 0 ELSE g[Taken(u)] + f[u \ {Taken(u)}]
      /\ h[u] = IF u = {} THEN 0 ELSE g[Taken(u)] + h[u \ {Taken(u)}]
  BY <1>4 DEF Sums
<1>6. u # {}
  BY <1>5
<1>7. /\ u \ {Taken(u)} \in SUBSET u /\ u \ {Taken(u)} # u
      /\ u \ {Taken(u)} \in SUBSET (T \cap U)
  BY <1>4, <1>6, TakenIn
<1>8. f[u \ {Taken(u)}] = h[u \ {Taken(u)}]
  BY <1>3, <1>7
<1>9. QED
  BY <1>5, <1>6, <1>8

\* The sum over w by one step, where the fold is known to be defined.
LEMMA SumStep ==
  ASSUME NEW g, NEW w, IsFiniteSet(w),
         \A v \in SUBSET w : \E f : Sums(f, g, v)
  PROVE  SumOver(g, w) =
           IF w = {} THEN 0 ELSE g[Taken(w)] + SumOver(g, w \ {Taken(w)})
<1> DEFINE v == w \ {Taken(w)}
           f == CHOOSE k : Sums(k, g, w)
           h == CHOOSE k : Sums(k, g, v)
<1>1. Sums(f, g, w) /\ Sums(h, g, v)
  <2>1. w \in SUBSET w /\ v \in SUBSET w
    OBVIOUS
  <2>2. (\E k : Sums(k, g, w)) /\ (\E k : Sums(k, g, v))
    BY <2>1
  <2>3. QED
    BY <2>2
<1>2. SumOver(g, w) = f[w] /\ SumOver(g, v) = h[v]
  BY SumUnfold
<1> HIDE DEF f, h
<1>3. f[w] = IF w = {} THEN 0 ELSE g[Taken(w)] + f[v]
  BY <1>1 DEF Sums
<1>4. f[v] = h[v]
  <2>1. v \in SUBSET (w \cap v)
    OBVIOUS
  <2> HIDE DEF v
  <2>2. QED
    BY <1>1, <2>1, SumsAgree
<1>5. QED
  BY <1>2, <1>3, <1>4

\* There is such a function over every finite set.
LEMMA SumsExist ==
  ASSUME NEW g, NEW T, IsFiniteSet(T)
  PROVE  \E f : Sums(f, g, T)
<1> DEFINE B == {s \in SUBSET T : ~ \E f : Sums(f, g, s)}
<1>1. SUFFICES ASSUME B # {} PROVE FALSE
  OBVIOUS
<1>2. PICK s \in B : \A u \in SUBSET s : u # s => u \notin B
  <2>1. B \in SUBSET (SUBSET T)
    OBVIOUS
  <2> HIDE DEF B
  <2>2. QED
    BY <1>1, <2>1, LeastSet
<1>3. \A u \in SUBSET s : u # s => \E f : Sums(f, g, u)
  BY <1>2
<1>4. ASSUME NEW w \in SUBSET s, w # s
      PROVE  SumOver(g, w) =
               IF w = {} THEN 0 ELSE g[Taken(w)] + SumOver(g, w \ {Taken(w)})
  <2>1. \A v \in SUBSET w : \E f : Sums(f, g, v)
    BY <1>3, <1>4
  <2>2. IsFiniteSet(w)
    BY <1>2, FS_Subset
  <2>3. QED
    BY <2>1, <2>2, SumStep
<1> DEFINE F == [u \in SUBSET s |->
                   IF u = {} THEN 0
                   ELSE g[Taken(u)] + SumOver(g, u \ {Taken(u)})]
<1>5. ASSUME NEW u \in SUBSET s, u # {}
      PROVE  F[u \ {Taken(u)}] = SumOver(g, u \ {Taken(u)})
  <2> DEFINE w == u \ {Taken(u)}
  <2>1. w \in SUBSET s /\ w # s
    BY <1>5, TakenIn
  <2>2. F[w] = IF w = {} THEN 0 ELSE g[Taken(w)] + SumOver(g, w \ {Taken(w)})
    BY <2>1
  <2>3. QED
    BY <1>4, <2>1, <2>2
<1>6. F = [u \in SUBSET s |->
             IF u = {} THEN 0 ELSE g[Taken(u)] + F[u \ {Taken(u)}]]
  BY <1>5
<1>7. Sums(F, g, s)
  BY <1>6 DEF Sums
<1>8. QED
  BY <1>2, <1>7

-----------------------------------------------------------------------------
(***************************************************************************)
(* The arithmetic of sums.                                                 *)
(***************************************************************************)
\* The sum by the element that the fold takes.
LEMMA SumTaken ==
  ASSUME NEW g, NEW T, IsFiniteSet(T)
  PROVE  SumOver(g, T) =
           IF T = {} THEN 0 ELSE g[Taken(T)] + SumOver(g, T \ {Taken(T)})
<1>1. \A v \in SUBSET T : \E f : Sums(f, g, v)
  BY FS_Subset, SumsExist
<1>2. QED
  BY <1>1, SumStep

\* The empty sum.
LEMMA SumEmpty ==
  ASSUME NEW g
  PROVE  SumOver(g, {}) = 0
BY FS_EmptySet, SumTaken

\* A sum of naturals is a natural number.
LEMMA SumNat ==
  ASSUME NEW g, NEW T, IsFiniteSet(T), \A x \in T : g[x] \in Nat
  PROVE  SumOver(g, T) \in Nat
<1> DEFINE B == {s \in SUBSET T : SumOver(g, s) \notin Nat}
<1>1. SUFFICES ASSUME B # {} PROVE FALSE
  OBVIOUS
<1>2. PICK s \in B : \A u \in SUBSET s : u # s => u \notin B
  <2>1. B \in SUBSET (SUBSET T)
    OBVIOUS
  <2> HIDE DEF B
  <2>2. QED
    BY <1>1, <2>1, LeastSet
<1>3. IsFiniteSet(s) /\ s # {}
  <2>1. IsFiniteSet(s)
    BY <1>2, FS_Subset
  <2>2. SumOver(g, {}) \in Nat
    BY SumEmpty
  <2>3. QED
    BY <1>2, <2>1, <2>2
<1>4. Taken(s) \in s
  BY <1>3, TakenIn
<1>5. SumOver(g, s \ {Taken(s)}) \in Nat
  BY <1>2, <1>4
<1>6. SumOver(g, s) = g[Taken(s)] + SumOver(g, s \ {Taken(s)})
  BY <1>3, SumTaken
<1>7. g[Taken(s)] \in Nat
  BY <1>2, <1>4
<1>8. SumOver(g, s) \in Nat
  BY <1>5, <1>6, <1>7
<1>9. QED
  BY <1>2, <1>8

\* A sum of zeros.
LEMMA SumZero ==
  ASSUME NEW g, NEW T, IsFiniteSet(T), \A x \in T : g[x] = 0
  PROVE  SumOver(g, T) = 0
<1> DEFINE B == {s \in SUBSET T : SumOver(g, s) # 0}
<1>1. SUFFICES ASSUME B # {} PROVE FALSE
  OBVIOUS
<1>2. PICK s \in B : \A u \in SUBSET s : u # s => u \notin B
  <2>1. B \in SUBSET (SUBSET T)
    OBVIOUS
  <2> HIDE DEF B
  <2>2. QED
    BY <1>1, <2>1, LeastSet
<1>3. IsFiniteSet(s) /\ s \in SUBSET T /\ s # {}
  BY <1>2, FS_Subset, SumEmpty
<1>4. Taken(s) \in s
  BY <1>3, TakenIn
<1>5. SumOver(g, s \ {Taken(s)}) = 0
  BY <1>2, <1>3, <1>4
<1>6. SumOver(g, s) = g[Taken(s)] + SumOver(g, s \ {Taken(s)})
  BY <1>3, SumTaken
<1>7. QED
  BY <1>2, <1>3, <1>4, <1>5, <1>6

\* Any element may be taken out.
LEMMA SumRemove ==
  ASSUME NEW g, NEW T, IsFiniteSet(T), \A x \in T : g[x] \in Nat, NEW x \in T
  PROVE  SumOver(g, T) = g[x] + SumOver(g, T \ {x})
<1> DEFINE B == {s \in SUBSET T :
                   \E y \in s : SumOver(g, s) # g[y] + SumOver(g, s \ {y})}
<1>1. SUFFICES ASSUME B # {} PROVE FALSE
  OBVIOUS
<1>2. PICK s \in B : \A u \in SUBSET s : u # s => u \notin B
  <2>1. B \in SUBSET (SUBSET T)
    OBVIOUS
  <2> HIDE DEF B
  <2>2. QED
    BY <1>1, <2>1, LeastSet
<1>3. PICK y \in s : SumOver(g, s) # g[y] + SumOver(g, s \ {y})
  BY <1>2
<1> DEFINE z == Taken(s)
<1>4. /\ IsFiniteSet(s) /\ s \in SUBSET T /\ z \in s
      /\ SumOver(g, s) = g[z] + SumOver(g, s \ {z})
  BY <1>2, <1>3, FS_Subset, SumTaken, TakenIn
<1> HIDE DEF z
<1>5. y # z
  BY <1>3, <1>4
<1>6. SumOver(g, s \ {z}) = g[y] + SumOver(g, (s \ {z}) \ {y})
  <2>1. s \ {z} \in SUBSET s /\ s \ {z} # s /\ s \ {z} \in SUBSET T
    BY <1>4
  <2>2. s \ {z} \notin B /\ y \in s \ {z}
    BY <1>2, <1>3, <1>5, <2>1
  <2>3. QED
    BY <2>1, <2>2
<1>7. SumOver(g, s \ {y}) = g[z] + SumOver(g, (s \ {y}) \ {z})
  <2>1. s \ {y} \in SUBSET s /\ s \ {y} # s /\ s \ {y} \in SUBSET T
    BY <1>3, <1>4
  <2>2. s \ {y} \notin B /\ z \in s \ {y}
    BY <1>2, <1>4, <1>5, <2>1
  <2>3. QED
    BY <2>1, <2>2
<1>8. (s \ {z}) \ {y} = (s \ {y}) \ {z}
  OBVIOUS
<1>9. g[y] \in Nat /\ g[z] \in Nat /\ SumOver(g, (s \ {y}) \ {z}) \in Nat
  <2>1. IsFiniteSet((s \ {y}) \ {z}) /\ \A v \in (s \ {y}) \ {z} : g[v] \in Nat
    BY <1>4, FS_Subset
  <2>2. QED
    BY <1>3, <1>4, <2>1, SumNat
<1>10. SumOver(g, s) = g[y] + SumOver(g, s \ {y})
  BY <1>4, <1>6, <1>7, <1>8, <1>9
<1>11. QED
  BY <1>3, <1>10

\* Equal terms have equal sums.
LEMMA SumSame ==
  ASSUME NEW g, NEW h, NEW T, IsFiniteSet(T), \A x \in T : g[x] = h[x]
  PROVE  SumOver(g, T) = SumOver(h, T)
<1> DEFINE B == {s \in SUBSET T : SumOver(g, s) # SumOver(h, s)}
<1>1. SUFFICES ASSUME B # {} PROVE FALSE
  OBVIOUS
<1>2. PICK s \in B : \A u \in SUBSET s : u # s => u \notin B
  <2>1. B \in SUBSET (SUBSET T)
    OBVIOUS
  <2> HIDE DEF B
  <2>2. QED
    BY <1>1, <2>1, LeastSet
<1>3. IsFiniteSet(s) /\ s \in SUBSET T /\ s # {}
  BY <1>2, FS_Subset, SumEmpty
<1>4. Taken(s) \in s
  BY <1>3, TakenIn
<1>5. SumOver(g, s \ {Taken(s)}) = SumOver(h, s \ {Taken(s)})
  <2>1. s \ {Taken(s)} \in SUBSET s /\ s \ {Taken(s)} # s
    BY <1>4
  <2>2. QED
    BY <1>2, <1>3, <2>1
<1>6. /\ SumOver(g, s) = g[Taken(s)] + SumOver(g, s \ {Taken(s)})
      /\ SumOver(h, s) = h[Taken(s)] + SumOver(h, s \ {Taken(s)})
  BY <1>3, SumTaken
<1>7. g[Taken(s)] = h[Taken(s)]
  BY <1>3, <1>4
<1>8. QED
  BY <1>2, <1>5, <1>6, <1>7

\* A sum splits over a subset and the rest.
LEMMA SumSplit ==
  ASSUME NEW g, NEW T, IsFiniteSet(T), \A x \in T : g[x] \in Nat,
         NEW U \in SUBSET T
  PROVE  SumOver(g, T) = SumOver(g, U) + SumOver(g, T \ U)
<1> DEFINE B == {s \in SUBSET T : SumOver(g, T) # SumOver(g, s) + SumOver(g, T \ s)}
<1>1. SUFFICES ASSUME B # {} PROVE FALSE
  OBVIOUS
<1>2. PICK s \in B : \A u \in SUBSET s : u # s => u \notin B
  <2>1. B \in SUBSET (SUBSET T)
    OBVIOUS
  <2> HIDE DEF B
  <2>2. QED
    BY <1>1, <2>1, LeastSet
<1>3. \A u \in SUBSET T : IsFiniteSet(u) /\ SumOver(g, u) \in Nat
  BY FS_Subset, SumNat
<1>4. s # {}
  <2>1. T \ {} = T /\ T \in SUBSET T /\ SumOver(g, {}) = 0
    BY SumEmpty
  <2>2. SumOver(g, T) = SumOver(g, {}) + SumOver(g, T \ {})
    BY <1>3, <2>1
  <2>3. QED
    BY <1>2, <2>2
<1>5. PICK y : y \in s
  BY <1>4
<1> DEFINE v == s \ {y}
<1>6. v \in SUBSET T /\ s \in SUBSET T /\ y \in T \ v /\ T \ s = (T \ v) \ {y}
  BY <1>2, <1>5
<1>7. SumOver(g, T) = SumOver(g, v) + SumOver(g, T \ v)
  <2>1. v \in SUBSET s /\ v # s
    BY <1>5
  <2>2. QED
    BY <1>2, <1>6, <2>1
<1>8. SumOver(g, s) = g[y] + SumOver(g, v)
  BY <1>3, <1>5, <1>6, SumRemove
<1>9. SumOver(g, T \ v) = g[y] + SumOver(g, T \ s)
  <2>1. T \ v \in SUBSET T /\ \A x \in T \ v : g[x] \in Nat
    OBVIOUS
  <2>2. QED
    BY <1>3, <1>6, <2>1, SumRemove
<1>10. /\ g[y] \in Nat /\ SumOver(g, v) \in Nat /\ SumOver(g, T \ s) \in Nat
  BY <1>3, <1>6
<1> HIDE DEF v
<1>11. SumOver(g, T) = SumOver(g, s) + SumOver(g, T \ s)
  BY <1>7, <1>8, <1>9, <1>10
<1>12. QED
  BY <1>2, <1>11

\* One term changes.
LEMMA SumChange ==
  ASSUME NEW g, NEW h, NEW T, IsFiniteSet(T), NEW x \in T,
         \A y \in T : g[y] \in Nat /\ h[y] \in Nat,
         \A y \in T \ {x} : h[y] = g[y]
  PROVE  /\ SumOver(g, T) = g[x] + SumOver(g, T \ {x})
         /\ SumOver(h, T) = h[x] + SumOver(g, T \ {x})
         /\ SumOver(g, T \ {x}) \in Nat
<1>1. IsFiniteSet(T \ {x})
  BY FS_RemoveElement
<1>2. SumOver(h, T \ {x}) = SumOver(g, T \ {x})
  BY <1>1, SumSame
<1>3. QED
  BY <1>1, <1>2, SumRemove, SumNat

=============================================================================
