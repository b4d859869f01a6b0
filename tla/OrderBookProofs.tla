--------------------------- MODULE OrderBookProofs --------------------------
(***************************************************************************)
(* LomsService implements OrderBook, and conserves goods, for every number *)
(* of workers, shards, products and orders, as long as clients keep to     *)
(* themselves and Postgres keeps what it commits.                          *)
(*                                                                         *)
(* The book adds units up over all orders, so the proof starts with sums   *)
(* over finite sets (SumFunctionOnSet of the community modules).  The      *)
(* induction principles are stated for sets instead of predicates.         *)
(***************************************************************************)
EXTENDS LomsServiceProofs, Functions, FiniteSetTheorems

\* Induction over the natural numbers, for a set of numbers.
LEMMA SetOfNatInduction ==
    ASSUME NEW P \in SUBSET Nat, 0 \in P, \A n \in P : n + 1 \in P
    PROVE  P = Nat
<1> DEFINE less == {ss \in Nat \X Nat : ss[1] < ss[2]}
<1>1. IsWellFoundedOn(less, Nat)
  BY NatLessThanWellFounded DEF OpToRel
<1>2. SUFFICES ASSUME Nat \ P # {} PROVE FALSE
  OBVIOUS
<1>3. PICK n \in Nat \ P : \A m \in Nat \ P : <<m, n>> \notin less
  <2> HIDE DEF less
  <2>1. Nat \ P \subseteq Nat
    OBVIOUS
  <2> QED  BY <1>1, <1>2, <2>1, WFMin
<1>4. n # 0 /\ n - 1 \in Nat
  OBVIOUS
<1>5. n - 1 \in P
  <2>1. <<n - 1, n>> \in less
    BY <1>4
  <2> QED  BY <1>3, <1>4, <2>1
<1> QED  BY <1>4, <1>5

\* Induction over a finite set, for a set of its subsets.
LEMMA SetOfSubsetsInduction ==
    ASSUME NEW S, IsFiniteSet(S), NEW P \in SUBSET (SUBSET S), {} \in P,
           \A T \in P : \A x \in S \ T : T \cup {x} \in P
    PROVE  P = SUBSET S
<1> DEFINE N == {n \in Nat : \A T \in SUBSET S : Cardinality(T) = n => T \in P}
<1>1. \A T \in SUBSET S : IsFiniteSet(T) /\ Cardinality(T) \in Nat
  BY FS_Subset, FS_CardinalityType
<1>2. 0 \in N
  BY <1>1, FS_EmptySet
<1>3. ASSUME NEW n \in N PROVE n + 1 \in N
  <2>1. SUFFICES ASSUME NEW T \in SUBSET S, Cardinality(T) = n + 1
                 PROVE  T \in P
    BY <1>3
  <2>2. PICK x \in T : TRUE
    BY <1>1, <2>1, FS_EmptySet
  <2>3. Cardinality(T \ {x}) = n
    BY <1>1, <2>1, <2>2, FS_RemoveElement
  <2>4. T \ {x} \in P
    BY <2>3
  <2>5. (T \ {x}) \cup {x} = T
    OBVIOUS
  <2> QED  BY <2>2, <2>4, <2>5
<1>4. N = Nat
  <2> HIDE DEF N
  <2>1. N \in SUBSET Nat
    BY DEF N
  <2> QED  BY <1>2, <1>3, <2>1, SetOfNatInduction
<1> QED  BY <1>1, <1>4

-----------------------------------------------------------------------------
Chosen(S) == CHOOSE x \in S : TRUE

\* One step of the iteration that MapThenFoldSet makes.
SumStep(f, g, s) == IF s = {} THEN 0 ELSE f[Chosen(s)] + g[s \ {Chosen(s)}]
SumsUpTo(f, S) == CHOOSE g : g = [s \in SUBSET S |-> SumStep(f, g, s)]

\* A choice from a set is in it.
LEMMA ChosenIsIn == \A S : S # {} => Chosen(S) \in S
BY DEF Chosen

\* What is chosen from a finite set and removed leaves one less.
LEMMA SmallerWithoutChosen ==
    ASSUME NEW S, IsFiniteSet(S), S # {}
    PROVE  Cardinality(S \ {Chosen(S)}) = Cardinality(S) - 1
BY ChosenIsIn, FS_RemoveElement

\* The sum of the community modules is that iteration.
LEMMA SumIsIteration ==
    \A f, S : SumFunctionOnSet(f, S) = SumsUpTo(f, S)[S]
BY DEF SumFunctionOnSet, FoldFunctionOnSet, MapThenFoldSet, SumsUpTo, SumStep, Chosen

\* The iteration is defined on every subset of a finite set.
LEMMA SumsUpToDef ==
    ASSUME NEW f, NEW S, IsFiniteSet(S)
    PROVE  \A s \in SUBSET S : SumsUpTo(f, S)[s] = SumStep(f, SumsUpTo(f, S), s)
<1> DEFINE N == {n \in Nat : \E g : \A s \in SUBSET S :
                     Cardinality(s) <= n => g[s] = SumStep(f, g, s)}
<1>1. \A s \in SUBSET S : IsFiniteSet(s) /\ Cardinality(s) \in Nat
  BY FS_Subset, FS_CardinalityType
<1>2. \A s \in SUBSET S : s # {} =>
          /\ s \ {Chosen(s)} \in SUBSET S
          /\ Cardinality(s \ {Chosen(s)}) = Cardinality(s) - 1
  BY <1>1, SmallerWithoutChosen
<1>3. 0 \in N
  <2> DEFINE g == [s \in SUBSET S |-> 0]
  <2>1. \A s \in SUBSET S : Cardinality(s) <= 0 => g[s] = SumStep(f, g, s)
    BY <1>1, FS_EmptySet DEF SumStep
  <2> QED  BY <2>1
<1>4. ASSUME NEW n \in N PROVE n + 1 \in N
  <2>1. PICK g : \A s \in SUBSET S : Cardinality(s) <= n => g[s] = SumStep(f, g, s)
    OBVIOUS
  <2> DEFINE h == [s \in SUBSET S |-> IF Cardinality(s) <= n THEN g[s] ELSE SumStep(f, g, s)]
  <2>2. ASSUME NEW s \in SUBSET S, Cardinality(s) <= n + 1
        PROVE  h[s] = SumStep(f, h, s)
    <3>1. h[s] = SumStep(f, g, s)
      BY <2>1
    <3>2. CASE s = {}
      BY <3>1, <3>2 DEF SumStep
    <3>3. CASE s # {}
      <4>1. Cardinality(s \ {Chosen(s)}) <= n /\ s \ {Chosen(s)} \in SUBSET S
        BY <1>1, <1>2, <2>2, <3>3
      <4>2. h[s \ {Chosen(s)}] = g[s \ {Chosen(s)}]
        BY <4>1
      <4> HIDE DEF h
      <4> QED  BY <3>1, <3>3, <4>2 DEF SumStep
    <3> QED  BY <3>2, <3>3
  <2> HIDE DEF h
  <2> QED  BY <2>2
<1>5. N = Nat
  <2> HIDE DEF N
  <2>1. N \in SUBSET Nat
    BY DEF N
  <2> QED  BY <1>3, <1>4, <2>1, SetOfNatInduction
<1>6. PICK g : \A s \in SUBSET S : Cardinality(s) <= Cardinality(S) => g[s] = SumStep(f, g, s)
  BY <1>1, <1>5
<1> DEFINE h == [s \in SUBSET S |-> g[s]]
<1>7. ASSUME NEW s \in SUBSET S PROVE h[s] = SumStep(f, h, s)
  <2>1. Cardinality(s) <= Cardinality(S)
    BY FS_Subset
  <2>2. h[s] = SumStep(f, g, s)
    BY <1>6, <2>1
  <2>3. s # {} => h[s \ {Chosen(s)}] = g[s \ {Chosen(s)}]
    BY <1>2
  <2> HIDE DEF h
  <2> QED  BY <2>2, <2>3 DEF SumStep
<1>8. h = [s \in SUBSET S |-> SumStep(f, h, s)]
  BY <1>7
<1> HIDE DEF h
<1>9. SumsUpTo(f, S) = [s \in SUBSET S |-> SumStep(f, SumsUpTo(f, S), s)]
  BY <1>8 DEF SumsUpTo
<1> DEFINE sums == SumsUpTo(f, S)
<1>10. sums = [s \in SUBSET S |-> SumStep(f, sums, s)]
  BY <1>9
<1>11. \A s \in SUBSET S : sums[s] = SumStep(f, sums, s)
  <2> HIDE DEF sums
  <2> QED  BY <1>10
<1> QED  BY <1>11

\* It does not matter of which set the summands are a part.
LEMMA SumsUpToAgree ==
    ASSUME NEW f, NEW S, IsFiniteSet(S), NEW T \in SUBSET S
    PROVE  SumsUpTo(f, S)[T] = SumFunctionOnSet(f, T)
<1>1. IsFiniteSet(T)
  BY FS_Subset
<1> DEFINE g == SumsUpTo(f, S)
           h == SumsUpTo(f, T)
           N == {n \in Nat : \A s \in SUBSET T : Cardinality(s) <= n => g[s] = h[s]}
<1>2. \A s \in SUBSET T : g[s] = SumStep(f, g, s) /\ h[s] = SumStep(f, h, s)
  BY <1>1, SumsUpToDef
<1> HIDE DEF g, h
<1>3. \A s \in SUBSET T : IsFiniteSet(s) /\ Cardinality(s) \in Nat
  BY <1>1, FS_Subset, FS_CardinalityType
<1>4. 0 \in N
  BY <1>2, <1>3, FS_EmptySet DEF SumStep
<1>5. ASSUME NEW n \in N PROVE n + 1 \in N
  <2>1. SUFFICES ASSUME NEW s \in SUBSET T, Cardinality(s) <= n + 1 PROVE g[s] = h[s]
    BY <1>5
  <2>2. CASE s = {}
    BY <1>2, <2>2 DEF SumStep
  <2>3. CASE s # {}
    <3>1. s \ {Chosen(s)} \in SUBSET T /\ Cardinality(s \ {Chosen(s)}) <= n
      BY <1>3, <2>1, <2>3, SmallerWithoutChosen
    <3>2. g[s \ {Chosen(s)}] = h[s \ {Chosen(s)}]
      BY <3>1
    <3> QED  BY <1>2, <2>3, <3>2 DEF SumStep
  <2> QED  BY <2>2, <2>3
<1>6. N = Nat
  <2> HIDE DEF N
  <2>1. N \in SUBSET Nat
    BY DEF N
  <2> QED  BY <1>4, <1>5, <2>1, SetOfNatInduction
<1>7. g[T] = h[T]
  BY <1>3, <1>6
<1> QED  BY <1>7, SumIsIteration DEF g, h

\* The sum over no index is 0.
LEMMA SumEmpty == \A f : SumFunctionOnSet(f, {}) = 0
<1> TAKE f
<1>1. SumsUpTo(f, {})[{}] = SumStep(f, SumsUpTo(f, {}), {})
  BY FS_EmptySet, SumsUpToDef
<1> QED  BY <1>1, SumIsIteration DEF SumStep

\* The chosen index first.
LEMMA SumChosen ==
    ASSUME NEW f, NEW S, IsFiniteSet(S), S # {}
    PROVE  SumFunctionOnSet(f, S) =
               f[Chosen(S)] + SumFunctionOnSet(f, S \ {Chosen(S)})
<1> DEFINE g == SumsUpTo(f, S)
<1>1. g[S] = SumStep(f, g, S)
  BY SumsUpToDef
<1>2. S \ {Chosen(S)} \in SUBSET S
  OBVIOUS
<1>3. g[S \ {Chosen(S)}] = SumFunctionOnSet(f, S \ {Chosen(S)})
  BY <1>2, SumsUpToAgree
<1>4. SumFunctionOnSet(f, S) = g[S]
  BY SumIsIteration
<1> HIDE DEF g
<1> QED  BY <1>1, <1>3, <1>4 DEF SumStep

\* Sums of integers are integers.
LEMMA SumType ==
    ASSUME NEW f, NEW S, IsFiniteSet(S), \A x \in S : f[x] \in Int
    PROVE  SumFunctionOnSet(f, S) \in Int
<1> DEFINE Good(T) == SumFunctionOnSet(f, T) \in Int
           N == {n \in Nat : \A T \in SUBSET S : Cardinality(T) <= n => Good(T)}
<1>1. \A T \in SUBSET S : IsFiniteSet(T) /\ Cardinality(T) \in Nat
  BY FS_Subset, FS_CardinalityType
<1>2. 0 \in N
  BY <1>1, FS_EmptySet, SumEmpty
<1>3. ASSUME NEW n \in N PROVE n + 1 \in N
  <2>1. SUFFICES ASSUME NEW T \in SUBSET S, Cardinality(T) <= n + 1 PROVE Good(T)
    BY <1>3
  <2>2. CASE T = {}
    BY <2>2, SumEmpty
  <2>3. CASE T # {}
    <3>1. /\ Chosen(T) \in S /\ T \ {Chosen(T)} \in SUBSET S
          /\ Cardinality(T \ {Chosen(T)}) <= n
      BY <1>1, <2>1, <2>3, ChosenIsIn, SmallerWithoutChosen
    <3>2. Good(T \ {Chosen(T)})
      BY <3>1
    <3> QED  BY <1>1, <2>3, <3>1, <3>2, SumChosen
  <2> QED  BY <2>2, <2>3
<1>4. N = Nat
  <2> HIDE DEF N
  <2>1. N \in SUBSET Nat
    BY DEF N
  <2> QED  BY <1>2, <1>3, <2>1, SetOfNatInduction
<1> QED  BY <1>1, <1>4
-----------------------------------------------------------------------------
\* Any index first.
LEMMA SumRemove ==
    ASSUME NEW f, NEW S, IsFiniteSet(S), \A x \in S : f[x] \in Int, NEW e \in S
    PROVE  SumFunctionOnSet(f, S) = f[e] + SumFunctionOnSet(f, S \ {e})
<1> DEFINE Good(T) == \A x \in T :
               SumFunctionOnSet(f, T) = f[x] + SumFunctionOnSet(f, T \ {x})
           N == {n \in Nat : \A T \in SUBSET S : Cardinality(T) <= n => Good(T)}
<1>1. \A T \in SUBSET S : IsFiniteSet(T) /\ Cardinality(T) \in Nat
  BY FS_Subset, FS_CardinalityType
<1>2. 0 \in N
  BY <1>1, FS_EmptySet
<1>3. ASSUME NEW n \in N PROVE n + 1 \in N
  <2>1. SUFFICES ASSUME NEW T \in SUBSET S, Cardinality(T) <= n + 1, NEW x \in T
                 PROVE  SumFunctionOnSet(f, T) = f[x] + SumFunctionOnSet(f, T \ {x})
    BY <1>3
  <2> DEFINE c == Chosen(T)
  <2>2. IsFiniteSet(T) /\ T # {}
    BY <1>1
  <2>3. c \in T
    BY <2>2, ChosenIsIn
  <2>4. SumFunctionOnSet(f, T) = f[c] + SumFunctionOnSet(f, T \ {c})
    BY <2>2, SumChosen
  <2> HIDE DEF c
  <2>5. CASE x = c
    BY <2>4, <2>5
  <2>6. CASE x # c
    <3>1. \A y \in T : T \ {y} \in SUBSET S /\ Cardinality(T \ {y}) <= n
      BY <1>1, <2>1, FS_RemoveElement
    <3>2. Good(T \ {c}) /\ Good(T \ {x})
      BY <2>3, <3>1
    <3>3. SumFunctionOnSet(f, T \ {c}) = f[x] + SumFunctionOnSet(f, (T \ {c}) \ {x})
      BY <2>6, <3>2
    <3>4. SumFunctionOnSet(f, T \ {x}) = f[c] + SumFunctionOnSet(f, (T \ {x}) \ {c})
      BY <2>3, <2>6, <3>2
    <3>5. (T \ {c}) \ {x} = (T \ {x}) \ {c}
      OBVIOUS
    <3>6. SumFunctionOnSet(f, (T \ {x}) \ {c}) \in Int /\ f[x] \in Int /\ f[c] \in Int
      <4>1. (T \ {x}) \ {c} \in SUBSET S
        OBVIOUS
      <4> QED  BY <1>1, <2>3, <4>1, SumType
    <3> DEFINE Total(U) == SumFunctionOnSet(f, U)
    <3>7. /\ Total(T) = f[c] + Total(T \ {c})
          /\ Total(T \ {c}) = f[x] + Total((T \ {x}) \ {c})
          /\ Total(T \ {x}) = f[c] + Total((T \ {x}) \ {c})
          /\ Total((T \ {x}) \ {c}) \in Int /\ f[x] \in Int /\ f[c] \in Int
      BY <2>4, <3>3, <3>4, <3>5, <3>6
    <3>8. Total(T) = f[x] + Total(T \ {x})
      <4> HIDE DEF Total
      <4> QED  BY <3>7
    <3> QED  BY <3>8
  <2> QED  BY <2>5, <2>6
<1>4. N = Nat
  <2> HIDE DEF N
  <2>1. N \in SUBSET Nat
    BY DEF N
  <2> QED  BY <1>2, <1>3, <2>1, SetOfNatInduction
<1>5. Good(S)
  BY <1>1, <1>4
<1> QED  BY <1>5

\* A sum depends on the summands only.
LEMMA SumAgree ==
    ASSUME NEW f, NEW g, NEW S, IsFiniteSet(S), \A x \in S : f[x] = g[x]
    PROVE  SumFunctionOnSet(f, S) = SumFunctionOnSet(g, S)
<1> DEFINE Good(T) == SumFunctionOnSet(f, T) = SumFunctionOnSet(g, T)
           N == {n \in Nat : \A T \in SUBSET S : Cardinality(T) <= n => Good(T)}
<1>1. \A T \in SUBSET S : IsFiniteSet(T) /\ Cardinality(T) \in Nat
  BY FS_Subset, FS_CardinalityType
<1>2. 0 \in N
  BY <1>1, FS_EmptySet, SumEmpty
<1>3. ASSUME NEW n \in N PROVE n + 1 \in N
  <2>1. SUFFICES ASSUME NEW T \in SUBSET S, Cardinality(T) <= n + 1 PROVE Good(T)
    BY <1>3
  <2>2. CASE T = {}
    BY <2>2, SumEmpty
  <2>3. CASE T # {}
    <3>1. /\ Chosen(T) \in S /\ T \ {Chosen(T)} \in SUBSET S
          /\ Cardinality(T \ {Chosen(T)}) <= n
      BY <1>1, <2>1, <2>3, ChosenIsIn, SmallerWithoutChosen
    <3>2. Good(T \ {Chosen(T)})
      BY <3>1
    <3> QED  BY <1>1, <2>3, <3>1, <3>2, SumChosen
  <2> QED  BY <2>2, <2>3
<1>4. N = Nat
  <2> HIDE DEF N
  <2>1. N \in SUBSET Nat
    BY DEF N
  <2> QED  BY <1>2, <1>3, <2>1, SetOfNatInduction
<1> QED  BY <1>1, <1>4

\* Summands that are 0 add up to 0.
LEMMA SumZero ==
    ASSUME NEW f, NEW S, IsFiniteSet(S), \A x \in S : f[x] = 0
    PROVE  SumFunctionOnSet(f, S) = 0
<1> DEFINE Good(T) == SumFunctionOnSet(f, T) = 0
           P == {T \in SUBSET S : Good(T)}
<1>1. {} \in P
  BY SumEmpty
<1>2. ASSUME NEW T \in P, NEW x \in S \ T PROVE T \cup {x} \in P
  <2>1. IsFiniteSet(T \cup {x}) /\ (T \cup {x}) \ {x} = T /\ T \cup {x} \in SUBSET S
    BY FS_Subset
  <2>2. SumFunctionOnSet(f, T \cup {x}) = f[x] + SumFunctionOnSet(f, (T \cup {x}) \ {x})
    <3>1. \A y \in T \cup {x} : f[y] \in Int
      OBVIOUS
    <3> QED  BY <2>1, <3>1, SumRemove
  <2>3. SumFunctionOnSet(f, T) = 0 /\ f[x] = 0
    OBVIOUS
  <2>4. Good(T \cup {x})
    BY <2>1, <2>2, <2>3
  <2> QED  BY <2>1, <2>4
<1>3. P = SUBSET S
  <2> HIDE DEF P
  <2>1. P \in SUBSET (SUBSET S)
    BY DEF P
  <2> QED  BY <1>1, <1>2, <2>1, SetOfSubsetsInduction
<1> QED  BY <1>3

\* One summand changes; the others stay.
LEMMA SumChange ==
    ASSUME NEW f, NEW g, NEW S, IsFiniteSet(S), NEW e \in S,
           \A x \in S : f[x] \in Int /\ g[x] \in Int,
           \A x \in S \ {e} : f[x] = g[x]
    PROVE  SumFunctionOnSet(g, S) = SumFunctionOnSet(f, S) - f[e] + g[e]
<1>1. IsFiniteSet(S \ {e})
  BY FS_Subset
<1>2. SumFunctionOnSet(f, S \ {e}) = SumFunctionOnSet(g, S \ {e})
  BY <1>1, SumAgree
<1>3. SumFunctionOnSet(f, S \ {e}) \in Int
  BY <1>1, SumType
<1>4. /\ SumFunctionOnSet(f, S) = f[e] + SumFunctionOnSet(f, S \ {e})
      /\ SumFunctionOnSet(g, S) = g[e] + SumFunctionOnSet(g, S \ {e})
  BY SumRemove
<1> QED  BY <1>2, <1>3, <1>4

\* A new index; the old summands stay.
LEMMA SumGrow ==
    ASSUME NEW f, NEW g, NEW S, IsFiniteSet(S), NEW e, e \notin S,
           \A x \in S : f[x] \in Int /\ f[x] = g[x], g[e] \in Int
    PROVE  SumFunctionOnSet(g, S \cup {e}) = SumFunctionOnSet(f, S) + g[e]
<1>1. IsFiniteSet(S \cup {e}) /\ (S \cup {e}) \ {e} = S
  BY FS_AddElement
<1>2. SumFunctionOnSet(g, S) = SumFunctionOnSet(f, S)
  BY SumAgree
<1>3. SumFunctionOnSet(f, S) \in Int
  BY SumType
<1>4. SumFunctionOnSet(g, S \cup {e}) = g[e] + SumFunctionOnSet(g, (S \cup {e}) \ {e})
  <2>1. \A x \in S \cup {e} : g[x] \in Int
    OBVIOUS
  <2>2. e \in S \cup {e}
    OBVIOUS
  <2> QED  BY <1>1, <2>1, <2>2, SumRemove
<1>5. SumFunctionOnSet(g, S \cup {e}) = g[e] + SumFunctionOnSet(f, S)
  BY <1>1, <1>2, <1>4
<1> QED  BY <1>3, <1>5

\* At most one summand is not 0.
LEMMA SumOfOne ==
    ASSUME NEW f, NEW S, IsFiniteSet(S), NEW e \in S, f[e] \in Int,
           \A x \in S \ {e} : f[x] = 0
    PROVE  SumFunctionOnSet(f, S) = f[e]
<1>1. IsFiniteSet(S \ {e})
  BY FS_Subset
<1>2. SumFunctionOnSet(f, S \ {e}) = 0
  BY <1>1, SumZero
<1>3. SumFunctionOnSet(f, S) = f[e] + SumFunctionOnSet(f, S \ {e})
  BY SumRemove
<1> QED  BY <1>2, <1>3

-----------------------------------------------------------------------------
\* The statements of a request from its checks to its second commit.
Working == {"check", "read", "write", "setStatus", "commitShard", "commitStocks"}

OrderOf(w) == orders[Db(w)][req[w].id]

Distinct(items) ==
    \A i, j \in DOMAIN items : items[i].sku = items[j].sku => i = j

\* While clients keep to themselves: whose goods a request works on, and what
\* may have happened to its order meanwhile.
GoodsOK(w) ==
    LET r == req[w] IN
    /\ pc[w] = "idle" => r.op = "none"
    /\ \A v \in Workers \ {w} :
         \/ SkusOf(r.items) \cap SkusOf(req[v].items) = {}
         \/ r.op = "pay" /\ req[v].op = "pay" /\ req[v].id = r.id
    /\ pc[w] \in Working => r.items # <<>> /\ Distinct(r.items)
    /\ pc[w] \in Working /\ r.op # "create" =>
         /\ r.items = OrderOf(w).items
         /\ \/ OrderOf(w).status = Awaiting /\ pc[w] # "commitStocks"
            \/ OrderOf(w).status = Target[r.op] /\ pc[w] = "commitStocks"
            \/ OrderOf(w).status = Paid /\ r.op = "pay" /\ pc[w] # "commitShard"

\* A pay whose order was paid meanwhile will not commit.
Live(w) ==
    /\ pc[w] \in Working
    /\ req[w].op = "pay" /\ pc[w] # "commitStocks" => OrderOf(w).status = Awaiting

\* What a live request has checked and written still fits the committed stock.
GoodsInHand(w) ==
    LET r == req[w] IN
    Live(w) =>
        /\ r.op = "create" =>
             \A j \in DOMAIN r.items :
                 (pc[w] = "check" => j < r.i) =>
                     available(stock[r.items[j].sku], r.items[j].count)
        /\ pc[w] = "write" => r.row = stock[Item(w).sku]
        /\ \A j \in DOMAIN r.items : LET sku == r.items[j].sku IN
             sku \in DOMAIN stocksTx[w] =>
                 stocksTx[w][sku] = Written(r.op, stock[sku], stock[sku], r.items[j].count)

BookInv ==
    /\ LockInv
    /\ RecordInv
    /\ \A w \in Workers : GoodsOK(w) /\ GoodsInHand(w)
    /\ \A db \in Dbs : \A id \in DOMAIN orders[db] : Distinct(orders[db][id].items)
    /\ \A s \in Skus : stock[s].available >= 0
    /\ IsFiniteSet(DOMAIN OrdersBook)
    /\ StockMatchesOrders


\* Demand of an order: the count of the one line that names the product.
LEMMA ItemsType ==
    ASSUME NEW items \in Seq(ItemRow), NEW j \in DOMAIN items
    PROVE  /\ items[j] \in ItemRow /\ items[j].count \in Nat /\ items[j].sku \in Products
           /\ IsFiniteSet(DOMAIN items) /\ DOMAIN items = 1 .. Len(items)
<1>1. DOMAIN items = 1 .. Len(items) /\ Len(items) \in Nat
  OBVIOUS
<1>2. IsFiniteSet(DOMAIN items)
  BY <1>1, FS_Interval
<1>3. items[j] \in ItemRow
  BY <1>1, ElementOfSeq
<1>4. items[j].count \in Uint16s /\ items[j].sku \in Products
  BY <1>3 DEF ItemRow
<1>5. \A n \in Uint16s : n \in Nat
  BY DEF Uint16s
<1> QED  BY <1>1, <1>2, <1>3, <1>4, <1>5

\* The abstract book adds up whole functions, with the same sum.
LEMMA WholeSum == \A f : Book!SumFunction(f) = SumFunctionOnSet(f, DOMAIN f)
<1> TAKE f
<1>1. Book!SumFunctionOnSet(f, DOMAIN f) = SumFunctionOnSet(f, DOMAIN f)
  BY Zenon DEF Book!SumFunctionOnSet, SumFunctionOnSet, Book!FoldFunctionOnSet,
               FoldFunctionOnSet, Book!MapThenFoldSet, MapThenFoldSet
<1> QED  BY <1>1, Zenon DEF Book!SumFunction

LineOf(items, sku) ==
    [i \in DOMAIN items |-> IF items[i].sku = sku THEN items[i].count ELSE 0]

\* Demand of the book, as a sum over the lines of an order.
LEMMA DemandIsSum ==
    ASSUME NEW items, NEW sku
    PROVE  Book!Demand(items, sku) = SumFunctionOnSet(LineOf(items, sku), DOMAIN items)
<1>1. Book!Demand(items, sku) = Book!SumFunction(LineOf(items, sku))
  BY DEF Book!Demand, LineOf
<1>2. DOMAIN LineOf(items, sku) = DOMAIN items
  BY DEF LineOf
<1> QED  BY <1>1, <1>2, WholeSum

\* Units are integers.
LEMMA DemandType ==
    ASSUME NEW items \in Seq(ItemRow), NEW sku
    PROVE  Book!Demand(items, sku) \in Int
<1>1. IsFiniteSet(DOMAIN items) /\ \A j \in DOMAIN items : items[j].count \in Int
  <2>1. DOMAIN items = 1 .. Len(items) /\ Len(items) \in Nat
    OBVIOUS
  <2>2. IsFiniteSet(DOMAIN items)
    BY <2>1, FS_Interval
  <2> QED  BY <2>2, ItemsType
<1>2. \A j \in DOMAIN items : LineOf(items, sku)[j] \in Int
  BY <1>1 DEF LineOf
<1> QED  BY <1>1, <1>2, SumType, DemandIsSum

\* An order with one line per product demands what the line says.
LEMMA DemandOfLine ==
    ASSUME NEW items \in Seq(ItemRow), Distinct(items), NEW j \in DOMAIN items
    PROVE  Book!Demand(items, items[j].sku) = items[j].count
<1> DEFINE f == LineOf(items, items[j].sku)
<1>1. IsFiniteSet(DOMAIN items) /\ items[j].count \in Int
  BY ItemsType
<1>2. f[j] = items[j].count /\ \A i \in DOMAIN items \ {j} : f[i] = 0
  BY DEF LineOf, Distinct
<1> HIDE DEF f
<1>3. SumFunctionOnSet(f, DOMAIN items) = f[j]
  BY <1>1, <1>2, SumOfOne
<1> QED  BY <1>2, <1>3, DemandIsSum DEF f

\* It demands nothing of the products it does not name.
LEMMA DemandOfOthers ==
    ASSUME NEW items \in Seq(ItemRow), NEW sku, sku \notin SkusOf(items)
    PROVE  Book!Demand(items, sku) = 0
<1>1. IsFiniteSet(DOMAIN items)
  <2>1. DOMAIN items = 1 .. Len(items) /\ Len(items) \in Nat
    OBVIOUS
  <2> QED  BY <2>1, FS_Interval
<1>2. \A i \in DOMAIN items : LineOf(items, sku)[i] = 0
  BY DEF LineOf, SkusOf
<1> QED  BY <1>1, <1>2, SumZero, DemandIsSum

-----------------------------------------------------------------------------
Share(order, statuses, sku) ==
    IF order.status \in statuses THEN Book!Demand(order.items, sku) ELSE 0
Shares(b, statuses, sku) == [k \in DOMAIN b |-> Share(b[k], statuses, sku)]
Booked(b, statuses, sku) == SumFunctionOnSet(Shares(b, statuses, sku), DOMAIN b)

\* BookedIn of the book, before and after a step, as a sum over the orders.
LEMMA BookedIsSum ==
    ASSUME NEW statuses, NEW sku
    PROVE  /\ Book!BookedIn(statuses, sku) = Booked(OrdersBook, statuses, sku)
           /\ Book!BookedIn(statuses, sku)' = Booked(OrdersBook', statuses, sku)
<1>1. \A b : DOMAIN Shares(b, statuses, sku) = DOMAIN b
  BY DEF Shares
<1>2. Book!BookedIn(statuses, sku) = Book!SumFunction(Shares(OrdersBook, statuses, sku))
  BY Zenon DEF Book!BookedIn, Shares, Share
<1>3. Book!BookedIn(statuses, sku)' = Book!SumFunction(Shares(OrdersBook', statuses, sku))
  BY Zenon DEF Book!BookedIn, Shares, Share
<1> QED  BY <1>1, <1>2, <1>3, WholeSum, Zenon DEF Booked

IsBook(b) ==
    /\ IsFiniteSet(DOMAIN b)
    /\ \A k \in DOMAIN b : b[k].items \in Seq(ItemRow)

\* Each order adds an integer.
LEMMA SharesType ==
    ASSUME NEW b, IsBook(b), NEW statuses, NEW sku
    PROVE  /\ \A k \in DOMAIN b : Shares(b, statuses, sku)[k] \in Int
           /\ Booked(b, statuses, sku) \in Int
<1>1. \A k \in DOMAIN b : Shares(b, statuses, sku)[k] \in Int
  BY DemandType DEF Shares, Share, IsBook
<1> QED  BY <1>1, SumType DEF Booked, IsBook

\* A new order adds its share.
LEMMA BookedGrows ==
    ASSUME NEW b, IsBook(b), NEW c, IsBook(c), NEW k, k \notin DOMAIN b,
           DOMAIN c = DOMAIN b \cup {k}, \A x \in DOMAIN b : c[x] = b[x],
           NEW statuses, NEW sku
    PROVE  Booked(c, statuses, sku) = Booked(b, statuses, sku) + Share(c[k], statuses, sku)
<1> DEFINE f == Shares(b, statuses, sku)
           g == Shares(c, statuses, sku)
<1>1. /\ \A x \in DOMAIN b : f[x] \in Int /\ f[x] = g[x]
      /\ g[k] \in Int /\ g[k] = Share(c[k], statuses, sku)
  BY SharesType DEF Shares
<1>2. IsFiniteSet(DOMAIN b)
  BY DEF IsBook
<1> HIDE DEF f, g
<1>3. SumFunctionOnSet(g, DOMAIN b \cup {k}) = SumFunctionOnSet(f, DOMAIN b) + g[k]
  BY <1>1, <1>2, SumGrow
<1> QED  BY <1>1, <1>3 DEF Booked, f, g

\* An order that changes its status changes its share.
LEMMA BookedChanges ==
    ASSUME NEW b, IsBook(b), NEW c, IsBook(c), NEW k \in DOMAIN b,
           DOMAIN c = DOMAIN b, \A x \in DOMAIN b \ {k} : c[x] = b[x],
           NEW statuses, NEW sku
    PROVE  Booked(c, statuses, sku) = Booked(b, statuses, sku)
               - Share(b[k], statuses, sku) + Share(c[k], statuses, sku)
<1> DEFINE f == Shares(b, statuses, sku)
           g == Shares(c, statuses, sku)
<1>1. /\ \A x \in DOMAIN b : f[x] \in Int /\ g[x] \in Int
      /\ \A x \in DOMAIN b \ {k} : f[x] = g[x]
      /\ f[k] = Share(b[k], statuses, sku) /\ g[k] = Share(c[k], statuses, sku)
  BY SharesType DEF Shares
<1>2. IsFiniteSet(DOMAIN b)
  BY DEF IsBook
<1> HIDE DEF f, g
<1>3. SumFunctionOnSet(g, DOMAIN b) = SumFunctionOnSet(f, DOMAIN b) - f[k] + g[k]
  BY <1>1, <1>2, SumChange
<1> QED  BY <1>1, <1>3 DEF Booked, f, g

-----------------------------------------------------------------------------
\* The conditions of lomsExclusive: clients keep to themselves, and Postgres
\* keeps what it commits.
Orderly ==
    /\ Clients = "exclusive"
    /\ Faults \subseteq {"stmt"}
    /\ ClientIds \subseteq Nat
    /\ \A s \in Skus : InitStock[s].available >= 0

\* The stock as the abstract book sees it, as a function of the variables.
SettledRow(p, tx, st, s) ==
    LET settling == {w \in Workers : p[w] = "commitStocks" /\ s \in DOMAIN tx[w]}
    IN  IF settling = {} THEN st[s] ELSE tx[CHOOSE w \in settling : TRUE][s]

\* Before and after a step, SettledStock is made of settled rows.
LEMMA SettledIs ==
    /\ SettledStock = [s \in Skus |-> SettledRow(pc, stocksTx, stock, s)]
    /\ SettledStock' = [s \in Skus |-> SettledRow(pc', stocksTx', stock', s)]
BY Zenon DEF SettledStock, SettledRow

\* Nobody is between its two commits with that row: it is what is committed.
LEMMA SettledByNone ==
    ASSUME NEW p, NEW tx, NEW st, NEW s,
           \A w \in Workers : ~ (p[w] = "commitStocks" /\ s \in DOMAIN tx[w])
    PROVE  SettledRow(p, tx, st, s) = st[s]
BY DEF SettledRow

\* Somebody is, and row locks admit no second one.
LEMMA SettledByOne ==
    ASSUME NEW p, NEW tx, NEW st, NEW s, NEW w \in Workers,
           p[w] = "commitStocks", s \in DOMAIN tx[w],
           \A v \in Workers \ {w} : DOMAIN tx[v] \cap DOMAIN tx[w] = {}
    PROVE  SettledRow(p, tx, st, s) = tx[w][s]
<1> DEFINE settling == {v \in Workers : p[v] = "commitStocks" /\ s \in DOMAIN tx[v]}
<1>1. settling = {w}
  OBVIOUS
<1>2. (CHOOSE v \in settling : TRUE) = w
  BY <1>1
<1> QED  BY <1>1, <1>2 DEF SettledRow

\* The settled row depends on the requests between their commits only.
LEMMA SettledKept ==
    ASSUME NEW p, NEW q, NEW tx, NEW ty, NEW st, NEW s,
           \A w \in Workers : (p[w] = "commitStocks") = (q[w] = "commitStocks"),
           \A w \in Workers : p[w] = "commitStocks" => tx[w] = ty[w]
    PROVE  SettledRow(p, tx, st, s) = SettledRow(q, ty, st, s)
<1> DEFINE pSettling == {w \in Workers : p[w] = "commitStocks" /\ s \in DOMAIN tx[w]}
           qSettling == {w \in Workers : q[w] = "commitStocks" /\ s \in DOMAIN ty[w]}
<1>1. pSettling = qSettling
  OBVIOUS
<1>2. (CHOOSE w \in pSettling : TRUE) = (CHOOSE w \in qSettling : TRUE)
  BY <1>1
<1>3. pSettling # {} => (CHOOSE w \in pSettling : TRUE) \in pSettling
  OBVIOUS
<1> HIDE DEF qSettling
<1>4. pSettling # {} => tx[CHOOSE w \in pSettling : TRUE] = ty[CHOOSE w \in qSettling : TRUE]
  BY <1>2, <1>3
<1>5. SettledRow(p, tx, st, s) =
        IF pSettling = {} THEN st[s] ELSE tx[CHOOSE w \in pSettling : TRUE][s]
  BY DEF SettledRow
<1>6. SettledRow(q, ty, st, s) =
        IF qSettling = {} THEN st[s] ELSE ty[CHOOSE w \in qSettling : TRUE][s]
  BY DEF SettledRow, qSettling
<1> HIDE DEF pSettling
<1> QED  BY <1>1, <1>4, <1>5, <1>6

-----------------------------------------------------------------------------
\* A step of w that leaves orders and stock alone, and neither enters nor
\* leaves the time between the commits: the abstract book does not see it.
LEMMA GoodsLocal ==
    ASSUME BookInv, LockInv', RecordInv', NEW w \in Workers,
           UNCHANGED <<orders, stock>>,
           pc[w] # "commitStocks", pc'[w] # "commitStocks",
           \A v \in Workers \ {w} : /\ pc'[v] = pc[v]
                                    /\ req'[v] = req[v]
                                    /\ stocksTx'[v] = stocksTx[v],
           GoodsOK(w)', GoodsInHand(w)'
    PROVE  BookInv' /\ UNCHANGED <<OrdersBook, SettledStock>>
<1>1. OrdersBook' = OrdersBook
  BY DEF OrdersBook
<1>2. SettledStock' = SettledStock
  <2>1. \A s \in Skus : SettledRow(pc, stocksTx, stock, s) = SettledRow(pc', stocksTx', stock, s)
    BY SettledKept
  <2> QED  BY <2>1, SettledIs
<1>3. StockMatchesOrders'
  BY <1>1, <1>2 DEF BookInv, StockMatchesOrders, Book!StockMatchesBook, Book!BookedIn
<1>4. ASSUME NEW v \in Workers, v # w PROVE GoodsOK(v)' /\ GoodsInHand(v)'
  <2>1. GoodsOK(v) /\ GoodsInHand(v)
    BY DEF BookInv
  <2>2. /\ pc'[v] = pc[v] /\ req'[v] = req[v] /\ stocksTx'[v] = stocksTx[v]
        /\ orders' = orders /\ stock' = stock
    BY <1>4
  <2>3. \A u \in Workers \ {v} :
         \/ SkusOf(req'[v].items) \cap SkusOf(req'[u].items) = {}
         \/ req'[v].op = "pay" /\ req'[u].op = "pay" /\ req'[u].id = req'[v].id
    <3> SUFFICES ASSUME NEW u \in Workers \ {v}
                 PROVE  \/ SkusOf(req'[v].items) \cap SkusOf(req'[u].items) = {}
                        \/ req'[v].op = "pay" /\ req'[u].op = "pay" /\ req'[u].id = req'[v].id
      OBVIOUS
    <3>1. CASE u = w
      BY <1>4, <3>1 DEF GoodsOK
    <3>2. CASE u # w
      <4>1. req'[u] = req[u]
        BY <3>2
      <4> QED  BY <2>1, <2>2, <4>1 DEF GoodsOK
    <3> QED  BY <3>1, <3>2
  <2>4. GoodsOK(v)'
    BY <2>1, <2>2, <2>3 DEF GoodsOK, OrderOf, Db
  <2>5. GoodsInHand(v)'
    BY <2>1, <2>2 DEF GoodsInHand, Live, OrderOf, Db, Item
  <2> QED  BY <2>4, <2>5
<1>5. \A v \in Workers : GoodsOK(v)' /\ GoodsInHand(v)'
  BY <1>4
<1>6. /\ \A db \in Dbs : \A id \in DOMAIN orders'[db] : Distinct(orders'[db][id].items)
      /\ \A s \in Skus : stock'[s].available >= 0
      /\ IsFiniteSet(DOMAIN OrdersBook')
  BY <1>1 DEF BookInv
<1> QED  BY <1>1, <1>2, <1>3, <1>5, <1>6 DEF BookInv

\* An error: the request gives up, whatever it has in hand.
LEMMA GoodsRollback ==
    ASSUME BookInv, LockInv', RecordInv', NEW w \in Workers, pc[w] # "commitStocks",
           GoTo(w, "rollback"), UNCHANGED <<orders, stock, req, stocksTx>>
    PROVE  BookInv' /\ UNCHANGED <<OrdersBook, SettledStock>>
<1>1. /\ pc'[w] = "rollback" /\ pc'[w] \notin Working
      /\ \A v \in Workers \ {w} : pc'[v] = pc[v]
  BY DEF BookInv, LockInv, Inv, TypeOK, GoTo, Working
<1>2. GoodsOK(w)
  BY DEF BookInv
<1>3. GoodsOK(w)' /\ GoodsInHand(w)'
  BY <1>1, <1>2 DEF GoodsOK, GoodsInHand, Live
<1> QED  BY <1>1, <1>3, GoodsLocal

\* A request without items shares nothing.
LEMMA NoSkus == SkusOf(<<>>) = {}
BY DEF SkusOf

\* A request that is answered holds no goods.
LEMMA GoodsAnswered ==
    ASSUME BookInv, LockInv', RecordInv', NEW w \in Workers, pc[w] # "commitStocks",
           Finish(w), UNCHANGED <<orders, stock>>
    PROVE  BookInv' /\ UNCHANGED <<OrdersBook, SettledStock>>
<1>1. /\ pc'[w] = "idle" /\ pc'[w] \notin Working
      /\ req'[w].op = "none" /\ req'[w].items = <<>>
      /\ \A v \in Workers \ {w} : /\ pc'[v] = pc[v]
                                  /\ req'[v] = req[v]
                                  /\ stocksTx'[v] = stocksTx[v]
  BY DEF BookInv, LockInv, Inv, TypeOK, GoTo, Working, Finish, NoRequest
<1>2. GoodsOK(w)' /\ GoodsInHand(w)'
  BY <1>1, NoSkus DEF GoodsOK, GoodsInHand, Live
<1> QED  BY <1>1, <1>2, GoodsLocal

\* A new create: its client holds the goods it asks for alone.
LEMMA GoodsBeginCreate ==
    ASSUME Orderly, BookInv, LockInv', RecordInv', NEW w \in Workers, BeginCreate(w)
    PROVE  BookInv' /\ UNCHANGED <<OrdersBook, SettledStock>>
<1>1. PICK user \in Users, cart \in WireCarts :
        /\ MayTouch(w, prepareModelItems(cart))
        /\ req' = [req EXCEPT ![w] =
                     [NoRequest EXCEPT !.op = "create", !.user = user,
                                       !.index = GetShardIndexByKey(user),
                                       !.items = prepareModelItems(cart)]]
  BY DEF BeginCreate
<1> DEFINE items == prepareModelItems(cart)
<1>2. /\ pc[w] = "idle" /\ pc'[w] = "generateId" /\ UNCHANGED <<orders, stock, stocksTx>>
      /\ \A v \in Workers \ {w} : pc'[v] = pc[v] /\ req'[v] = req[v]
      /\ pc'[w] \notin Working
  BY <1>1 DEF BookInv, LockInv, Inv, TypeOK, BeginCreate, GoTo, Working
<1>3. req'[w].items = items
  BY <1>1 DEF BookInv, LockInv, Inv, TypeOK, NoRequest
<1>4. req[w].op = "none"
  BY <1>2 DEF BookInv, GoodsOK
<1>5. \A v \in Workers \ {w} : SkusOf(items) \cap SkusOf(req[v].items) = {}
  BY <1>1, <1>4 DEF MayTouch, Orderly
<1> HIDE DEF items
<1>6. GoodsOK(w)' /\ GoodsInHand(w)'
  BY <1>2, <1>3, <1>5 DEF GoodsOK, GoodsInHand, Live
<1> QED  BY <1>2, <1>6, GoodsLocal

\* A new pay or cancel does not know its goods yet.
LEMMA GoodsBeginUpdate ==
    ASSUME BookInv, LockInv', RecordInv', NEW w \in Workers, BeginUpdate(w)
    PROVE  BookInv' /\ UNCHANGED <<OrdersBook, SettledStock>>
<1>1. PICK op \in ClientOps \ {"create"}, id \in ClientIds \cap Nat :
        req' = [req EXCEPT ![w] = [NoRequest EXCEPT !.op = op, !.id = id,
                                        !.index = GetShardIndexFromId(id)]]
  BY DEF BeginUpdate
<1>2. /\ pc[w] = "idle" /\ pc'[w] = "getOrder" /\ UNCHANGED <<orders, stock, stocksTx>>
      /\ \A v \in Workers \ {w} : pc'[v] = pc[v] /\ req'[v] = req[v]
      /\ pc'[w] \notin Working
  BY <1>1 DEF BookInv, LockInv, Inv, TypeOK, BeginUpdate, GoTo, Working
<1>3. req'[w].items = <<>>
  BY <1>1 DEF BookInv, LockInv, Inv, TypeOK, NoRequest
<1>4. GoodsOK(w)' /\ GoodsInHand(w)'
  BY <1>2, <1>3, NoSkus DEF GoodsOK, GoodsInHand, Live
<1> QED  BY <1>2, <1>4, GoodsLocal

\* An id changes nothing about the goods.
LEMMA GoodsGenerateId ==
    ASSUME BookInv, LockInv', RecordInv', NEW w \in Workers, GenerateId(w)
    PROVE  BookInv' /\ UNCHANGED <<OrdersBook, SettledStock>>
<1>1. PICK id : req' = [req EXCEPT ![w].id = id]
  BY DEF GenerateId
<1>2. /\ pc[w] = "generateId" /\ pc'[w] = "insert" /\ UNCHANGED <<orders, stock, stocksTx>>
      /\ \A v \in Workers \ {w} : pc'[v] = pc[v] /\ req'[v] = req[v]
      /\ pc'[w] \notin Working
  BY <1>1 DEF BookInv, LockInv, Inv, TypeOK, GenerateId, GoTo, Working
<1>3. req'[w].items = req[w].items
  BY <1>1 DEF BookInv, LockInv, Inv, TypeOK, Request
<1>4. req[w].op = "create"
  BY <1>2 DEF BookInv, LockInv, Inv, RequestOK
<1>5. \A v \in Workers \ {w} : SkusOf(req[w].items) \cap SkusOf(req[v].items) = {}
  BY <1>4 DEF BookInv, GoodsOK
<1>6. GoodsOK(w)' /\ GoodsInHand(w)'
  BY <1>2, <1>3, <1>5 DEF GoodsOK, GoodsInHand, Live
<1> QED  BY <1>2, <1>6, GoodsLocal

\* The keys of orders_items admit one line per product.
LEMMA GoodsInsert ==
    ASSUME BookInv, LockInv', RecordInv', NEW w \in Workers, Insert(w)
    PROVE  BookInv' /\ UNCHANGED <<OrdersBook, SettledStock>>
<1>1. /\ pc[w] = "insert" /\ UNCHANGED <<orders, stock, req, stocksTx>>
      /\ req[w].op = "create" /\ req[w].i = 1 /\ req[w].items # <<>>
      /\ req[w].items \in Seq(ItemRow)
      /\ DOMAIN stocksTx[w] = {} /\ GoodsOK(w)
  BY DEF BookInv, LockInv, Inv, TypeOK, Insert, RequestOK, StocksTxOK, Request
<1>2. CASE InsertConflicts(w)
  <2>1. GoTo(w, "rollback")
    BY <1>2 DEF Insert
  <2> QED  BY <1>1, <2>1, GoodsRollback
<1>3. CASE ~ InsertConflicts(w)
  <2>1. /\ pc'[w] = "check" /\ \A v \in Workers \ {w} : pc'[v] = pc[v]
        /\ pc'[w] # "idle" /\ pc'[w] # "write" /\ pc'[w] # "commitStocks"
    BY <1>3 DEF BookInv, LockInv, Inv, TypeOK, Insert, GoTo
  <2>2. Distinct(req[w].items)
    BY <1>3 DEF InsertConflicts, Distinct
  <2>3. GoodsOK(w)'
    BY <1>1, <2>1, <2>2 DEF GoodsOK
  <2>4. GoodsInHand(w)'
    <3>1. \A j \in DOMAIN req[w].items : ~ (j < req[w].i)
      BY <1>1
    <3> QED  BY <1>1, <2>1, <3>1 DEF GoodsInHand
  <2> QED  BY <1>1, <2>1, <2>3, <2>4, GoodsLocal
<1> QED  BY <1>2, <1>3

\* A pay or a cancel learns its goods from the order it found awaiting.
LEMMA GoodsGetOrder ==
    ASSUME Orderly, BookInv, LockInv', RecordInv', NEW w \in Workers, GetOrder(w)
    PROVE  BookInv' /\ UNCHANGED <<OrdersBook, SettledStock>>
<1> DEFINE id == req[w].id
           found == orders[Db(w)]
           items == found[id].items
<1>1. /\ pc[w] = "getOrder" /\ UNCHANGED <<orders, stock, stocksTx>>
      /\ req[w].op # "create" /\ req[w].op # "none" /\ req[w] \in Request
      /\ Db(w) \in Dbs
      /\ DOMAIN stocksTx[w] = {} /\ GoodsOK(w)
  BY PickType DEF BookInv, LockInv, Inv, TypeOK, GetOrder, RequestOK, StocksTxOK, Request, Db
<1>2. CASE id \in DOMAIN found /\ found[id].status = Awaiting
  <2>1. /\ MayTouch(w, items)
        /\ req' = [req EXCEPT ![w].items = items]
        /\ GoTo(w, "check")
    BY <1>2 DEF GetOrder
  <2>2. /\ pc'[w] = "check" /\ \A v \in Workers \ {w} : pc'[v] = pc[v] /\ req'[v] = req[v]
        /\ pc'[w] # "idle" /\ pc'[w] # "write" /\ pc'[w] # "commitStocks"
        /\ req'[w].items = items /\ req'[w].op = req[w].op /\ req'[w].id = id
        /\ req'[w].index = req[w].index
    BY <2>1, <1>1 DEF BookInv, LockInv, Inv, TypeOK, GoTo, Request
  <2>3. items # <<>> /\ Distinct(items)
    BY <1>1, <1>2 DEF BookInv, LockInv, Inv, StoredOrdersOK
  <2>4. OrderOf(w)' = found[id]
    BY <1>1, <2>2 DEF OrderOf, Db
  <2>5. \A v \in Workers \ {w} :
          \/ SkusOf(items) \cap SkusOf(req[v].items) = {}
          \/ req[w].op = "pay" /\ req[v].op = "pay" /\ req[v].id = id
    BY <2>1 DEF MayTouch, Orderly
  <2> HIDE DEF items
  <2>6. GoodsOK(w)'
    BY <1>1, <1>2, <2>2, <2>3, <2>4, <2>5 DEF GoodsOK, items
  <2>7. GoodsInHand(w)'
    BY <1>1, <2>2 DEF GoodsInHand
  <2> QED  BY <1>1, <2>2, <2>6, <2>7, GoodsLocal
<1>3. CASE ~ (id \in DOMAIN found /\ found[id].status = Awaiting)
  <2>1. GoTo(w, "rollback") /\ UNCHANGED req
    BY <1>3 DEF GetOrder
  <2> QED  BY <1>1, <2>1, GoodsRollback
<1> QED  BY <1>2, <1>3

\* A request that goes on with the same order and items.
LEMMA GoodsGoOn ==
    ASSUME BookInv, NEW w \in Workers, pc[w] \in {"check", "read", "write", "setStatus"},
           pc'[w] \in {"check", "read", "write", "setStatus"},
           \A v \in Workers \ {w} : req'[v] = req[v],
           req'[w].items = req[w].items, req'[w].op = req[w].op,
           req'[w].id = req[w].id, req'[w].index = req[w].index,
           orders' = orders
    PROVE  GoodsOK(w)' /\ Live(w)' = Live(w) /\ OrderOf(w)' = OrderOf(w)
<1>1. OrderOf(w)' = OrderOf(w)
  BY DEF OrderOf, Db
<1>2. /\ pc'[w] # "commitShard" /\ pc'[w] # "commitStocks" /\ pc'[w] # "idle"
      /\ pc[w] # "commitShard" /\ pc[w] # "commitStocks"
      /\ pc'[w] \in Working /\ pc[w] \in Working
  BY DEF Working
<1>3. GoodsOK(w)
  BY DEF BookInv
<1> HIDE DEF OrderOf
<1>4. GoodsOK(w)'
  BY <1>1, <1>2, <1>3 DEF GoodsOK
<1>5. Live(w)' = Live(w)
  BY <1>1, <1>2, Zenon DEF Live
<1> QED  BY <1>1, <1>4, <1>5

\* A check that passed stays true of what is committed.
LEMMA GoodsCheckItem ==
    ASSUME BookInv, LockInv', RecordInv', NEW w \in Workers, CheckItem(w)
    PROVE  BookInv' /\ UNCHANGED <<OrdersBook, SettledStock>>
<1> DEFINE items == req[w].items
           i == req[w].i
<1>1. /\ pc[w] = "check" /\ NextItem(w, "check", "read") /\ Stocked(w) /\ Inv
      /\ UNCHANGED <<orders, stock, stocksTx>>
      /\ DOMAIN stocksTx[w] = {} /\ GoodsInHand(w)
      /\ "check" \in PcValues /\ "read" \in PcValues
  BY DEF BookInv, LockInv, CheckItem, StocksTxOK, PcValues, Statements
<1>2. /\ req[w] \in Request /\ i \in 1 .. Len(items)
      /\ DOMAIN items = 1 .. Len(items) /\ Len(items) \in Nat
  BY <1>1, ItemType
<1>3. /\ \A v \in Workers \ {w} : pc'[v] = pc[v] /\ req'[v] = req[v]
      /\ \/ /\ pc'[w] = "read" /\ i = Len(items)
            /\ req'[w] = [req[w] EXCEPT !.i = 1, !.row = NoRow]
         \/ /\ pc'[w] = "check" /\ i < Len(items)
            /\ req'[w] = [req[w] EXCEPT !.i = i + 1, !.row = NoRow]
  BY <1>1, NextItemLoop
<1>4. /\ req'[w].items = items /\ req'[w].op = req[w].op
      /\ req'[w].id = req[w].id /\ req'[w].index = req[w].index
      /\ pc'[w] = "check" => req'[w].i = i + 1
  BY <1>2, <1>3 DEF Request
<1>5. GoodsOK(w)' /\ Live(w)' = Live(w)
  BY <1>1, <1>3, <1>4, GoodsGoOn
<1>6. ASSUME Live(w), req[w].op = "create", NEW j \in DOMAIN items,
             pc'[w] = "check" => j < req'[w].i
      PROVE  available(stock[items[j].sku], items[j].count)
  <2>1. CASE j = i
    BY <1>1, <1>6, <2>1 DEF Stocked, CanProceed, Item
  <2>2. CASE j # i
    <3>1. j < i
      BY <1>2, <1>3, <1>4, <1>6, <2>2
    <3> QED  BY <1>1, <1>6, <3>1 DEF GoodsInHand
  <2> QED  BY <2>1, <2>2
<1> HIDE DEF items, i
<1>7. GoodsInHand(w)'
  <2>1. pc'[w] # "write"
    BY <1>3
  <2>2. Live(w)' /\ req'[w].op = "create" => Live(w) /\ req[w].op = "create"
    BY <1>4, <1>5, Zenon
  <2> HIDE DEF Live
  <2> QED  BY <1>1, <1>4, <1>6, <2>1, <2>2 DEF GoodsInHand
<1> QED  BY <1>1, <1>3, <1>5, <1>7, GoodsLocal

\* The row read is the committed one.
LEMMA GoodsReadRow ==
    ASSUME BookInv, LockInv', RecordInv', NEW w \in Workers, ReadRow(w)
    PROVE  BookInv' /\ UNCHANGED <<OrdersBook, SettledStock>>
<1>1. /\ pc[w] = "read" /\ pc'[w] = "write"
      /\ req' = [req EXCEPT ![w].row = stock[Item(w).sku]]
      /\ UNCHANGED <<orders, stock, stocksTx>> /\ GoodsInHand(w)
      /\ \A v \in Workers \ {w} : pc'[v] = pc[v] /\ req'[v] = req[v]
  BY DEF BookInv, LockInv, Inv, TypeOK, ReadRow, GoTo
<1>2. /\ req'[w].items = req[w].items /\ req'[w].op = req[w].op
      /\ req'[w].id = req[w].id /\ req'[w].index = req[w].index
      /\ req'[w].i = req[w].i /\ req'[w].row = stock[Item(w).sku]
  BY <1>1 DEF BookInv, LockInv, Inv, TypeOK, Request
<1>3. GoodsOK(w)' /\ Live(w)' = Live(w)
  BY <1>1, <1>2, GoodsGoOn
<1>4. Item(w)' = Item(w)
  BY <1>2 DEF Item
<1>5. Live(w)' => Live(w)
  BY <1>3
<1> HIDE DEF Item, Live
<1>6. GoodsInHand(w)'
  BY <1>1, <1>2, <1>4, <1>5 DEF GoodsInHand
<1> QED  BY <1>1, <1>3, <1>6, GoodsLocal

\* What is written is computed from the committed row, which nobody else moves.
LEMMA GoodsWriteRow ==
    ASSUME BookInv, LockInv', RecordInv', NEW w \in Workers, WriteRow(w)
    PROVE  BookInv' /\ UNCHANGED <<OrdersBook, SettledStock>>
<1> DEFINE items == req[w].items
           i == req[w].i
           sku == Item(w).sku
           row == Written(req[w].op, req[w].row, stock[sku], Item(w).count)
<1>1. /\ pc[w] = "write" /\ NextItem(w, "read", "setStatus") /\ Inv
      /\ UNCHANGED <<orders, stock>> /\ GoodsInHand(w) /\ GoodsOK(w)
      /\ stocksTx' = [stocksTx EXCEPT ![w] = Overlay(stocksTx[w], [s \in {sku} |-> row])]
      /\ "setStatus" \in PcValues /\ "read" \in PcValues
  BY DEF BookInv, LockInv, WriteRow, PcValues, Statements
<1>2. /\ req[w] \in Request /\ i \in 1 .. Len(items)
      /\ DOMAIN items = 1 .. Len(items) /\ Len(items) \in Nat
  BY <1>1, ItemType
<1>3. /\ \A v \in Workers \ {w} : pc'[v] = pc[v] /\ req'[v] = req[v]
      /\ \/ /\ pc'[w] = "setStatus"
            /\ req'[w] = [req[w] EXCEPT !.i = 1, !.row = NoRow]
         \/ /\ pc'[w] = "read"
            /\ req'[w] = [req[w] EXCEPT !.i = i + 1, !.row = NoRow]
  BY <1>1, NextItemLoop
<1>4. /\ req'[w].items = items /\ req'[w].op = req[w].op
      /\ req'[w].id = req[w].id /\ req'[w].index = req[w].index
  BY <1>2, <1>3 DEF Request
<1>5. GoodsOK(w)' /\ Live(w)' = Live(w)
  BY <1>1, <1>3, <1>4, GoodsGoOn
<1>6. /\ \A v \in Workers \ {w} : stocksTx'[v] = stocksTx[v]
      /\ DOMAIN stocksTx'[w] = DOMAIN stocksTx[w] \cup {sku}
      /\ stocksTx'[w][sku] = row
      /\ \A s \in DOMAIN stocksTx[w] \ {sku} : stocksTx'[w][s] = stocksTx[w][s]
  <2> HIDE DEF sku, row
  <2> QED  BY <1>1 DEF Inv, TypeOK, Overlay
<1>7. ASSUME Live(w), NEW j \in DOMAIN items, items[j].sku \in DOMAIN stocksTx'[w]
      PROVE  stocksTx'[w][items[j].sku]
               = Written(req[w].op, stock[items[j].sku], stock[items[j].sku], items[j].count)
  <2>1. CASE j = i
    <3>1. req[w].row = stock[sku]
      BY <1>1, <1>7 DEF GoodsInHand
    <3> QED  BY <1>6, <2>1, <3>1 DEF Item
  <2>2. CASE j # i
    <3>1. Distinct(items)
      BY <1>1, <1>7 DEF GoodsOK, Working
    <3>2. items[j].sku # sku
      BY <1>2, <2>2, <3>1 DEF Distinct, Item
    <3>3. items[j].sku \in DOMAIN stocksTx[w]
      BY <1>6, <1>7, <3>2
    <3> QED  BY <1>1, <1>6, <1>7, <3>2, <3>3 DEF GoodsInHand
  <2> QED  BY <2>1, <2>2
<1>8. req[w].op = "create" /\ Live(w) => \A j \in DOMAIN items :
          available(stock[items[j].sku], items[j].count)
  BY <1>1 DEF GoodsInHand
<1> HIDE DEF items, i, row, sku
<1>9. GoodsInHand(w)'
  <2>1. pc'[w] # "write"
    BY <1>3
  <2>2. Live(w)' => Live(w)
    BY <1>5
  <2> HIDE DEF Live
  <2> QED  BY <1>1, <1>4, <1>7, <1>8, <2>1, <2>2 DEF GoodsInHand, items
<1> QED  BY <1>1, <1>3, <1>5, <1>6, <1>9, GoodsLocal

\* Whoever may commit found no final event, so the order still awaits.
LEMMA GoodsSetStatus ==
    ASSUME BookInv, LockInv', RecordInv', NEW w \in Workers, SetStatus(w)
    PROVE  BookInv' /\ UNCHANGED <<OrdersBook, SettledStock>>
<1> DEFINE status == Target[req[w].op]
<1>1. /\ pc[w] = "setStatus" /\ UNCHANGED <<orders, events, stock, req, stocksTx>>
      /\ GoodsInHand(w) /\ GoodsOK(w) /\ OrderRowOK(w) /\ EventsMatchOrders
      /\ req[w] \in Request /\ Db(w) \in Dbs
  BY PickType DEF BookInv, LockInv, Inv, TypeOK, SetStatus, Db, Request
<1>2. CASE GoTo(w, "rollback")
  BY <1>1, <1>2, GoodsRollback
<1>3. CASE GoTo(w, "commitShard") /\ <<req[w].id, status>> \notin events[Db(w)]
  <2>1. /\ pc'[w] = "commitShard" /\ \A v \in Workers \ {w} : pc'[v] = pc[v]
    BY <1>3 DEF BookInv, LockInv, Inv, TypeOK, GoTo
  <2>2. OrderOf(w)' = OrderOf(w)
    BY <1>1 DEF OrderOf, Db
  <2>3. req[w].op # "create" => OrderOf(w).status = Awaiting
    <3>1. req[w].op # "create" => req[w].id \in DOMAIN orders[Db(w)]
      BY <1>1 DEF OrderRowOK
    <3>2. ASSUME req[w].op = "pay" PROVE OrderOf(w).status # Paid
      <4>1. Target["pay"] = Paid
        BY DEF Target
      <4>2. <<req[w].id, OrderOf(w).status>> \in events[Db(w)]
        BY <1>1, <3>1, <3>2 DEF EventsMatchOrders, OrderOf
      <4> QED  BY <1>3, <3>2, <4>1, <4>2
    <3> QED  BY <1>1, <3>2 DEF GoodsOK, Working
  <2> HIDE DEF OrderOf
  <2>4. GoodsOK(w)'
    BY <1>1, <2>1, <2>2, <2>3 DEF GoodsOK, Working
  <2>5. Live(w)' => Live(w)
    BY <1>1, <2>1, <2>2, <2>3 DEF Live, Working
  <2>6. GoodsInHand(w)'
    BY <1>1, <2>1, <2>5 DEF GoodsInHand
  <2> QED  BY <1>1, <2>1, <2>4, <2>6, GoodsLocal
<1> QED  BY <1>2, <1>3 DEF SetStatus

-----------------------------------------------------------------------------
\* What a request that is about to commit, or has committed its order, wrote.
LEMMA RowsInHand ==
    ASSUME BookInv, NEW w \in Workers, pc[w] \in {"commitShard", "commitStocks"}
    PROVE  LET r == req[w] IN
           /\ r.op \in Ops /\ r.items \in Seq(ItemRow) /\ Distinct(r.items)
           /\ r.items # <<>> /\ Live(w)
           /\ DOMAIN stocksTx[w] = SkusOf(r.items)
           /\ \A j \in DOMAIN r.items : LET sku == r.items[j].sku IN
                /\ sku \in Skus /\ sku \in DOMAIN stocksTx[w] /\ r.items[j].count \in Nat
                /\ stocksTx[w][sku] = Written(r.op, stock[sku], stock[sku], r.items[j].count)
                /\ stocksTx[w][sku].available >= 0
                /\ r.op = "create" => available(stock[sku], r.items[j].count)
<1> DEFINE r == req[w]
<1>1. /\ RequestOK(w) /\ StocksTxOK(w) /\ GoodsOK(w) /\ GoodsInHand(w)
      /\ r \in Request /\ IsPartial(stocksTx[w], Skus, StockRow)
      /\ stock \in [Skus -> StockRow] /\ \A s \in Skus : stock[s].available >= 0
  BY DEF BookInv, LockInv, Inv, TypeOK
<1>2. pc[w] \in Working /\ pc[w] # "idle" /\ pc[w] # "check" /\ pc[w] # "write"
  BY DEF Working
<1>3. /\ r.op \in Ops /\ r.items \in Seq(ItemRow) /\ Distinct(r.items) /\ r.items # <<>>
      /\ DOMAIN stocksTx[w] = SkusOf(r.items)
  BY <1>1, <1>2 DEF RequestOK, Request, GoodsOK, StocksTxOK
<1>4. Live(w)
  BY <1>1, <1>2 DEF Live, GoodsOK
<1>5. ASSUME NEW j \in DOMAIN r.items
      PROVE  LET sku == r.items[j].sku IN
             /\ sku \in Skus /\ sku \in DOMAIN stocksTx[w] /\ r.items[j].count \in Nat
             /\ stocksTx[w][sku] = Written(r.op, stock[sku], stock[sku], r.items[j].count)
             /\ stocksTx[w][sku].available >= 0
             /\ r.op = "create" => available(stock[sku], r.items[j].count)
  <2> DEFINE sku == r.items[j].sku
             n == r.items[j].count
  <2>1. sku \in DOMAIN stocksTx[w] /\ sku \in Skus
    BY <1>1, <1>3 DEF SkusOf, IsPartial
  <2>2. n \in Nat
    BY <1>3, ItemsType
  <2>3. /\ stocksTx[w][sku] = Written(r.op, stock[sku], stock[sku], n)
        /\ r.op = "create" => available(stock[sku], n)
    BY <1>1, <1>2, <1>4, <2>1 DEF GoodsInHand
  <2>4. stocksTx[w][sku].available >= 0
    <3>1. stock[sku] \in StockRow /\ stock[sku].available >= 0
      BY <1>1, <2>1
    <3> HIDE DEF sku, n, r
    <3> QED  BY <1>3, <2>2, <2>3, <3>1
             DEF Ops, Written, ReserveItem, RemoveItem, CancelItem, available, StockRow
  <2> QED  BY <2>1, <2>2, <2>3, <2>4
<1> QED  BY <1>3, <1>4, <1>5

\* No two transactions have written the same row.
LEMMA LocksApart ==
    ASSUME BookInv, NEW w \in Workers
    PROVE  \A v \in Workers \ {w} : DOMAIN stocksTx[v] \cap DOMAIN stocksTx[w] = {}
BY DEF BookInv, LockInv, StocksTxOK

\* The settled stock offers nothing that is not there.
LEMMA SettledRows ==
    ASSUME BookInv, NEW s \in Skus
    PROVE  SettledStock[s] \in StockRow /\ SettledStock[s].available >= 0
<1>1. SettledStock[s] = SettledRow(pc, stocksTx, stock, s)
  BY SettledIs
<1>2. CASE \E w \in Workers : pc[w] = "commitStocks" /\ s \in DOMAIN stocksTx[w]
  <2>1. PICK w \in Workers : pc[w] = "commitStocks" /\ s \in DOMAIN stocksTx[w]
    BY <1>2
  <2>2. SettledRow(pc, stocksTx, stock, s) = stocksTx[w][s]
    <3>1. \A v \in Workers \ {w} : DOMAIN stocksTx[v] \cap DOMAIN stocksTx[w] = {}
      BY LocksApart
    <3> QED  BY <2>1, <3>1, SettledByOne
  <2>3. PICK j \in DOMAIN req[w].items : s = req[w].items[j].sku
    BY <2>1, RowsInHand DEF SkusOf
  <2>4. stocksTx[w][s].available >= 0
    BY <2>1, <2>3, RowsInHand
  <2>5. stocksTx[w][s] \in StockRow
    BY <2>1 DEF BookInv, LockInv, Inv, TypeOK, IsPartial
  <2> QED  BY <1>1, <2>2, <2>4, <2>5
<1>3. CASE ~ \E w \in Workers : pc[w] = "commitStocks" /\ s \in DOMAIN stocksTx[w]
  <2>1. SettledRow(pc, stocksTx, stock, s) = stock[s]
    BY <1>3, SettledByNone
  <2> QED  BY <1>1, <2>1 DEF BookInv, LockInv, Inv, TypeOK
<1> QED  BY <1>2, <1>3

-----------------------------------------------------------------------------
\* The second commit moves rows that the abstract book moved with the first.
LEMMA GoodsCommitStocks ==
    ASSUME BookInv, LockInv', RecordInv', NEW w \in Workers, CommitStocks(w)
    PROVE  BookInv' /\ UNCHANGED <<OrdersBook, SettledStock>>
<1>1. /\ pc[w] = "commitStocks" /\ orders' = orders
      /\ stock' = Overlay(stock, stocksTx[w])
      /\ pc'[w] = "idle" /\ req'[w] = NoRequest /\ stocksTx'[w] = NoRows
      /\ \A v \in Workers \ {w} : /\ pc'[v] = pc[v]
                                  /\ req'[v] = req[v]
                                  /\ stocksTx'[v] = stocksTx[v]
  BY DEF BookInv, LockInv, Inv, TypeOK, CommitStocks, Finish, GoTo
<1>2. DOMAIN NoRows = {}
  BY DEF NoRows
<1>3. DOMAIN stocksTx[w] \subseteq Skus /\ DOMAIN stock = Skus /\ stock' \in [Skus -> StockRow]
  BY DEF BookInv, LockInv, Inv, TypeOK, IsPartial
<1>4. \A s \in Skus : stock'[s] = IF s \in DOMAIN stocksTx[w] THEN stocksTx[w][s] ELSE stock[s]
  BY <1>1, <1>3 DEF Overlay
<1>5. OrdersBook' = OrdersBook
  BY <1>1 DEF OrdersBook
<1>6. ASSUME NEW s \in Skus
      PROVE  SettledRow(pc', stocksTx', stock', s) = SettledRow(pc, stocksTx, stock, s)
  <2>1. CASE s \in DOMAIN stocksTx[w]
    <3>1. SettledRow(pc, stocksTx, stock, s) = stocksTx[w][s]
      <4>1. \A v \in Workers \ {w} : DOMAIN stocksTx[v] \cap DOMAIN stocksTx[w] = {}
        BY LocksApart
      <4>2. pc[w] = "commitStocks"
        BY <1>1
      <4> QED  BY <2>1, <4>1, <4>2, SettledByOne
    <3>2. \A v \in Workers : ~ (pc'[v] = "commitStocks" /\ s \in DOMAIN stocksTx'[v])
      BY <1>1, <2>1, LocksApart
    <3>3. SettledRow(pc', stocksTx', stock', s) = stock'[s]
      BY <3>2, SettledByNone
    <3> QED  BY <1>4, <2>1, <3>1, <3>3
  <2>2. CASE s \notin DOMAIN stocksTx[w]
    <3>1. CASE \E v \in Workers : pc[v] = "commitStocks" /\ s \in DOMAIN stocksTx[v]
      <4>1. PICK v \in Workers : pc[v] = "commitStocks" /\ s \in DOMAIN stocksTx[v]
        BY <3>1
      <4>2. v # w /\ pc'[v] = "commitStocks" /\ stocksTx'[v] = stocksTx[v]
        BY <1>1, <2>2, <4>1
      <4>3. \A u \in Workers \ {v} : /\ DOMAIN stocksTx[u] \cap DOMAIN stocksTx[v] = {}
                                     /\ DOMAIN stocksTx'[u] \cap DOMAIN stocksTx'[v] = {}
        <5>1. \A u \in Workers \ {v} : DOMAIN stocksTx'[u] \cap DOMAIN stocksTx'[v] = {}
          BY DEF LockInv, StocksTxOK
        <5> QED  BY <5>1, LocksApart
      <4>4. SettledRow(pc, stocksTx, stock, s) = stocksTx[v][s]
        BY <4>1, <4>3, SettledByOne
      <4>5. SettledRow(pc', stocksTx', stock', s) = stocksTx'[v][s]
        <5>1. s \in DOMAIN stocksTx'[v] /\ pc'[v] = "commitStocks"
          BY <4>1, <4>2
        <5>2. \A u \in Workers \ {v} : DOMAIN stocksTx'[u] \cap DOMAIN stocksTx'[v] = {}
          BY <4>3
        <5> QED  BY <5>1, <5>2, SettledByOne
      <4> QED  BY <4>2, <4>4, <4>5
    <3>2. CASE ~ \E v \in Workers : pc[v] = "commitStocks" /\ s \in DOMAIN stocksTx[v]
      <4>1. SettledRow(pc, stocksTx, stock, s) = stock[s]
        BY <3>2, SettledByNone
      <4>2. \A v \in Workers : ~ (pc'[v] = "commitStocks" /\ s \in DOMAIN stocksTx'[v])
        BY <1>1, <3>2
      <4>3. SettledRow(pc', stocksTx', stock', s) = stock'[s]
        BY <4>2, SettledByNone
      <4> QED  BY <1>4, <2>2, <4>1, <4>3
    <3> QED  BY <3>1, <3>2
  <2> QED  BY <2>1, <2>2
<1>7. SettledStock' = SettledStock
  BY <1>6, SettledIs
<1>8. StockMatchesOrders'
  BY <1>5, <1>7 DEF BookInv, StockMatchesOrders, Book!StockMatchesBook, Book!BookedIn
<1>9. ASSUME NEW v \in Workers PROVE GoodsOK(v)'
  <2>1. CASE v = w
    <3>1. pc'[w] \notin Working /\ req'[w].items = <<>> /\ req'[w].op = "none"
      BY <1>1 DEF Working, NoRequest
    <3> QED  BY <1>1, <2>1, <3>1, NoSkus DEF GoodsOK
  <2>2. CASE v # w
    <3>1. GoodsOK(v) /\ pc'[v] = pc[v] /\ req'[v] = req[v]
      BY <1>1, <2>2 DEF BookInv
    <3>2. \A u \in Workers \ {v} :
            \/ SkusOf(req[v].items) \cap SkusOf(req'[u].items) = {}
            \/ req[v].op = "pay" /\ req'[u].op = "pay" /\ req'[u].id = req[v].id
      <4>1. SkusOf(req'[w].items) = {}
        BY <1>1, NoSkus DEF NoRequest
      <4>2. \A u \in Workers \ {v} : u # w => req'[u] = req[u]
        BY <1>1
      <4> QED  BY <3>1, <4>1, <4>2 DEF GoodsOK
    <3> QED  BY <1>1, <3>1, <3>2 DEF GoodsOK, OrderOf, Db
  <2> QED  BY <2>1, <2>2
<1>10. ASSUME NEW v \in Workers PROVE GoodsInHand(v)'
  <2>1. CASE v = w
    <3>1. pc'[w] \notin Working
      BY <1>1 DEF Working
    <3> QED  BY <2>1, <3>1 DEF GoodsInHand, Live
  <2>2. CASE v # w
    <3>1. /\ pc'[v] = pc[v] /\ req'[v] = req[v] /\ stocksTx'[v] = stocksTx[v]
          /\ GoodsInHand(v) /\ GoodsOK(v) /\ GoodsOK(w) /\ req[v] \in Request
          /\ RequestOK(v) /\ RequestOK(w) /\ StocksTxOK(v)
      BY <1>1, <2>2 DEF BookInv, LockInv, Inv, TypeOK
    <3>2. OrderOf(v)' = OrderOf(v) /\ Item(v)' = Item(v)
      BY <1>1, <3>1 DEF OrderOf, Db, Item
    <3>3. Live(v)' => Live(v)
      BY <3>1, <3>2 DEF Live
    <3>4. CASE SkusOf(req[v].items) \cap SkusOf(req[w].items) = {}
      <4>1. DOMAIN stocksTx[w] = SkusOf(req[w].items)
        BY <1>1, RowsInHand
      <4>2. ASSUME NEW j \in DOMAIN req[v].items, req[v].items[j].sku \in Skus
            PROVE  stock'[req[v].items[j].sku] = stock[req[v].items[j].sku]
        <5>1. req[v].items[j].sku \notin DOMAIN stocksTx[w]
          BY <3>4, <4>1 DEF SkusOf
        <5> QED  BY <1>4, <4>2, <5>1
      <4>3. ASSUME pc[v] \in Working, NEW j \in DOMAIN req[v].items,
                   pc[v] = "check" => j < req[v].i
            PROVE  req[v].items[j].sku \in Skus
        <5>1. CASE pc[v] = "check"
          <6>1. j \in 1 .. (req[v].i - 1)
            BY <3>1, <4>3, <5>1 DEF Request
          <6> QED  BY <3>1, <5>1, <6>1 DEF RequestOK
        <5>2. CASE pc[v] \in {"read", "write"}
          BY <3>1, <5>2 DEF RequestOK
        <5>3. CASE pc[v] \in {"setStatus", "commitShard", "commitStocks"}
          <6>1. SkusOf(req[v].items) \subseteq Skus
            BY <3>1, <5>3 DEF StocksTxOK, BookInv, LockInv, Inv, TypeOK, IsPartial
          <6> QED  BY <6>1 DEF SkusOf
        <5> QED  BY <4>3, <5>1, <5>2, <5>3 DEF Working
      <4>4. pc[v] = "write" => stock'[Item(v).sku] = stock[Item(v).sku]
        <5>1. pc[v] = "write" => req[v].i \in DOMAIN req[v].items /\ pc[v] \in Working
          BY <3>1 DEF RequestOK, Working
        <5> QED  BY <4>2, <4>3, <5>1 DEF Item
      <4>5. Live(v) => pc[v] \in Working
        BY DEF Live
      <4> HIDE DEF Live
      <4>6. DOMAIN stocksTx[v] \subseteq Skus
        BY DEF BookInv, LockInv, Inv, TypeOK, IsPartial
      <4> QED  BY <3>1, <3>2, <3>3, <4>2, <4>3, <4>4, <4>5, <4>6 DEF GoodsInHand
    <3>5. CASE ~ (SkusOf(req[v].items) \cap SkusOf(req[w].items) = {})
      <4>1. req[v].op = "pay" /\ req[w].op = "pay" /\ req[v].id = req[w].id
        BY <2>2, <3>1, <3>5 DEF GoodsOK
      <4>2. OrderOf(v) = OrderOf(w)
        BY <3>1, <4>1 DEF RequestOK, OrderOf, Db
      <4>3. OrderOf(w).status = Paid /\ Paid # Awaiting
        BY <1>1, <3>1, <4>1 DEF GoodsOK, Working, Target, Paid, Awaiting
      <4>4. ~ Live(v)
        <5> SUFFICES ASSUME Live(v) PROVE FALSE
          OBVIOUS
        <5>1. pc[v] = "commitStocks"
          BY <4>1, <4>2, <4>3 DEF Live
        <5>2. DOMAIN stocksTx[v] = SkusOf(req[v].items) /\ DOMAIN stocksTx[w] = SkusOf(req[w].items)
          BY <1>1, <5>1, RowsInHand
        <5> QED  BY <2>2, <3>5, <5>2, LocksApart
      <4> QED  BY <3>3, <4>4 DEF GoodsInHand
    <3> QED  BY <3>4, <3>5
  <2> QED  BY <2>1, <2>2
<1>11. ASSUME NEW s \in Skus PROVE stock'[s].available >= 0
  <2>1. CASE s \in DOMAIN stocksTx[w]
    <3>1. PICK j \in DOMAIN req[w].items : s = req[w].items[j].sku
      BY <1>1, <2>1, RowsInHand DEF SkusOf
    <3> QED  BY <1>1, <1>4, <2>1, <3>1, RowsInHand
  <2>2. CASE s \notin DOMAIN stocksTx[w]
    BY <1>4, <2>2 DEF BookInv
  <2> QED  BY <2>1, <2>2
<1>12. /\ \A db \in Dbs : \A id \in DOMAIN orders'[db] : Distinct(orders'[db][id].items)
       /\ IsFiniteSet(DOMAIN OrdersBook')
  BY <1>1, <1>5 DEF BookInv
<1> QED  BY <1>5, <1>7, <1>8, <1>9, <1>10, <1>11, <1>12 DEF BookInv

-----------------------------------------------------------------------------
\* The book of the orders o.
BookOf(o) == [k \in UNION {{db} \X DOMAIN o[db] : db \in Dbs} |-> o[k[1]][k[2]]]

\* OrdersBook before and after a step.
LEMMA BookIs == OrdersBook = BookOf(orders) /\ OrdersBook' = BookOf(orders')
BY Zenon DEF OrdersBook, BookOf

\* Its keys are pairs of a database and an order id.
LEMMA BookKeys ==
    ASSUME NEW o
    PROVE  /\ \A db \in Dbs : \A id \in DOMAIN o[db] : <<db, id>> \in DOMAIN BookOf(o)
           /\ \A k \in DOMAIN BookOf(o) :
                \E db \in Dbs : \E id \in DOMAIN o[db] : k = <<db, id>>
           /\ \A k \in DOMAIN BookOf(o) : BookOf(o)[k] = o[k[1]][k[2]]
BY DEF BookOf

\* The tables hold orders that can be added up.
LEMMA OrdersAreBook ==
    ASSUME NEW o, \A db \in Dbs : IsPartial(o[db], Nat, OrderRow),
           IsFiniteSet(DOMAIN BookOf(o))
    PROVE  IsBook(BookOf(o)) /\ \A k \in DOMAIN BookOf(o) : BookOf(o)[k] \in OrderRow
<1>1. \A k \in DOMAIN BookOf(o) : BookOf(o)[k] \in OrderRow
  <2> SUFFICES ASSUME NEW k \in DOMAIN BookOf(o) PROVE BookOf(o)[k] \in OrderRow
    OBVIOUS
  <2>1. PICK db \in Dbs : \E id \in DOMAIN o[db] : k = <<db, id>>
    BY BookKeys
  <2>2. PICK id \in DOMAIN o[db] : k = <<db, id>>
    BY <2>1
  <2>3. BookOf(o)[k] = o[db][id]
    BY <2>2, BookKeys
  <2>4. o[db][id] \in OrderRow
    BY DEF IsPartial
  <2> QED  BY <2>3, <2>4
<1>2. \A r \in OrderRow : r.items \in Seq(ItemRow)
  BY DEF OrderRow
<1> QED  BY <1>1, <1>2 DEF IsBook

\* The first commit as the abstract book sees it.
LEMMA CommitShardBook ==
    ASSUME BookInv, LockInv', NEW w \in Workers, CommitShard(w)
    PROVE  LET k == <<Db(w), req[w].id>>
               op == req[w].op
               items == req[w].items
           IN
           /\ DOMAIN OrdersBook' = DOMAIN OrdersBook \cup {k}
           /\ \A x \in DOMAIN OrdersBook \ {k} : OrdersBook'[x] = OrdersBook[x]
           /\ k \in DOMAIN OrdersBook <=> op # "create"
           /\ op = "create" => OrdersBook'[k] = [user |-> req[w].user, status |-> Awaiting,
                                                 items |-> items]
           /\ op # "create" => /\ OrdersBook[k].status = Awaiting
                               /\ OrdersBook[k].items = items
                               /\ OrdersBook[k] \in OrderRow
                               /\ OrdersBook'[k] = [OrdersBook[k] EXCEPT !.status = Target[op]]
           /\ IsBook(OrdersBook) /\ IsBook(OrdersBook')
<1> DEFINE db == Db(w)
           id == req[w].id
           op == req[w].op
           k == <<db, id>>
           b == BookOf(orders)
           c == BookOf(orders')
<1>1. /\ db \in Dbs
      /\ id \in DOMAIN orders[db] <=> op # "create"
      /\ DOMAIN orders'[db] = DOMAIN orders[db] \cup {id}
      /\ \A x \in DOMAIN orders[db] \ {id} : orders'[db][x] = orders[db][x]
      /\ \A d \in Dbs \ {db} : orders'[d] = orders[d]
      /\ op = "create" => orders'[db][id] = [user |-> req[w].user, status |-> Awaiting,
                                            items |-> req[w].items]
      /\ op # "create" => /\ orders'[db][id] = [orders[db][id] EXCEPT !.status = Target[op]]
                          /\ orders[db][id] \in OrderRow
  BY CommitShardEffect DEF BookInv, LockInv
<1>2. op # "create" => orders[db][id].status = Awaiting /\ orders[db][id].items = req[w].items
  <2>1. pc[w] = "commitShard" /\ GoodsOK(w)
    BY DEF CommitShard, BookInv
  <2> QED  BY <2>1 DEF GoodsOK, Working, OrderOf
<1>3. DOMAIN c = DOMAIN b \cup {k}
  <2> HIDE DEF db, id
  <2>1. ASSUME NEW x \in DOMAIN c PROVE x \in DOMAIN b \cup {k}
    <3>1. PICK d \in Dbs : \E i \in DOMAIN orders'[d] : x = <<d, i>>
      BY BookKeys
    <3>2. PICK i \in DOMAIN orders'[d] : x = <<d, i>>
      BY <3>1
    <3>3. i \in DOMAIN orders[d] \/ (d = db /\ i = id)
      BY <1>1
    <3> QED  BY <3>2, <3>3, BookKeys
  <2>2. ASSUME NEW x \in DOMAIN b PROVE x \in DOMAIN c
    <3>1. PICK d \in Dbs : \E i \in DOMAIN orders[d] : x = <<d, i>>
      BY BookKeys
    <3>2. PICK i \in DOMAIN orders[d] : x = <<d, i>>
      BY <3>1
    <3>3. i \in DOMAIN orders'[d]
      BY <1>1
    <3> QED  BY <3>2, <3>3, BookKeys
  <2>3. k \in DOMAIN c
    BY <1>1, BookKeys
  <2> QED  BY <2>1, <2>2, <2>3
<1>4. k \in DOMAIN b <=> op # "create"
  <2> HIDE DEF db, id, op
  <2>1. k \in DOMAIN b => id \in DOMAIN orders[db]
    BY BookKeys
  <2> QED  BY <1>1, <2>1, BookKeys
<1>5. ASSUME NEW x \in DOMAIN b \ {k} PROVE c[x] = b[x]
  <2> HIDE DEF db, id, op
  <2>1. PICK d \in Dbs : \E i \in DOMAIN orders[d] : x = <<d, i>>
    BY BookKeys
  <2>2. PICK i \in DOMAIN orders[d] : x = <<d, i>>
    BY <2>1
  <2>3. orders'[d][i] = orders[d][i]
    BY <1>1, <2>2
  <2>4. x \in DOMAIN c
    BY <1>3
  <2> QED  BY <2>2, <2>3, <2>4, BookKeys
<1>6. c[k] = orders'[db][id]
  <2> HIDE DEF db, id, op
  <2> QED  BY <1>3, BookKeys
<1>7. op # "create" => b[k] = orders[db][id]
  <2> HIDE DEF db, id, op
  <2> QED  BY <1>4, BookKeys
<1>8. IsBook(b) /\ IsBook(c)
  <2>1. IsFiniteSet(DOMAIN b)
    BY BookIs DEF BookInv
  <2>2. IsFiniteSet(DOMAIN c)
    <3> HIDE DEF b, c, k
    <3> QED  BY <1>3, <2>1, FS_AddElement
  <2>3. \A d \in Dbs : IsPartial(orders[d], Nat, OrderRow) /\ IsPartial(orders'[d], Nat, OrderRow)
    BY DEF BookInv, LockInv, Inv, TypeOK
  <2> QED  BY <2>1, <2>2, <2>3, OrdersAreBook
<1> HIDE DEF db, id, b, c
<1>9. /\ OrdersBook = b /\ OrdersBook' = c
  BY BookIs DEF b, c
<1> QED  BY <1>1, <1>2, <1>3, <1>4, <1>5, <1>6, <1>7, <1>8, <1>9 DEF db, id

\* Nothing is moved by an operation on no units.
LEMMA WrittenNone ==
    ASSUME NEW op \in Ops, NEW row \in StockRow
    PROVE  Written(op, row, row, 0) = row
BY DEF Written, ReserveItem, RemoveItem, CancelItem, StockRow, Ops

\* The first commit moves each settled row by the units that the order names.
LEMMA CommitShardStock ==
    ASSUME BookInv, LockInv', NEW w \in Workers, CommitShard(w), NEW s \in Skus
    PROVE  LET n == Book!Demand(req[w].items, s)
               row == SettledStock[s]
           IN
           /\ n \in Int /\ row \in StockRow
           /\ SettledStock'[s] = Written(req[w].op, row, row, n)
           /\ req[w].op = "create" => available(row, n)
<1> DEFINE op == req[w].op
           items == req[w].items
           n == Book!Demand(items, s)
           row == SettledStock[s]
<1>1. /\ pc[w] = "commitShard" /\ pc'[w] = "commitStocks"
      /\ UNCHANGED <<stock, req, stocksTx>>
      /\ \A v \in Workers \ {w} : pc'[v] = pc[v]
  BY DEF BookInv, LockInv, Inv, TypeOK, CommitShard, GoTo
<1>2. /\ op \in Ops /\ items \in Seq(ItemRow) /\ Distinct(items)
      /\ DOMAIN stocksTx[w] = SkusOf(items)
  BY <1>1, RowsInHand
<1>3. n \in Int
  BY <1>2, DemandType
<1>4. row \in StockRow /\ row.available >= 0
  BY SettledRows
<1>5. /\ row = SettledRow(pc, stocksTx, stock, s)
      /\ SettledStock'[s] = SettledRow(pc', stocksTx, stock, s)
  BY <1>1, SettledIs
<1>6. CASE s \in SkusOf(items)
  <2>1. PICK j \in DOMAIN items : s = items[j].sku
    BY <1>6 DEF SkusOf
  <2>2. n = items[j].count
    BY <1>2, <2>1, DemandOfLine
  <2>3. /\ stocksTx[w][s] = Written(op, stock[s], stock[s], n)
        /\ op = "create" => available(stock[s], n)
    BY <1>1, <2>1, <2>2, RowsInHand
  <2>4. \A v \in Workers \ {w} : DOMAIN stocksTx[v] \cap DOMAIN stocksTx[w] = {}
    BY LocksApart
  <2>5. SettledRow(pc, stocksTx, stock, s) = stock[s]
    <3>1. \A v \in Workers : ~ (pc[v] = "commitStocks" /\ s \in DOMAIN stocksTx[v])
      BY <1>1, <1>2, <1>6, <2>4
    <3> QED  BY <3>1, SettledByNone
  <2>6. SettledRow(pc', stocksTx, stock, s) = stocksTx[w][s]
    <3>1. s \in DOMAIN stocksTx[w] /\ pc'[w] = "commitStocks"
      BY <1>1, <1>2, <1>6
    <3> QED  BY <2>4, <3>1, SettledByOne
  <2> HIDE DEF n, op, row
  <2> QED  BY <1>3, <1>4, <1>5, <2>3, <2>5, <2>6 DEF n, op, row, items
<1>7. CASE s \notin SkusOf(items)
  <2>1. n = 0
    BY <1>2, <1>7, DemandOfOthers
  <2>2. SettledRow(pc', stocksTx, stock, s) = SettledRow(pc, stocksTx, stock, s)
    <3>1. CASE \E v \in Workers : pc[v] = "commitStocks" /\ s \in DOMAIN stocksTx[v]
      <4>1. PICK v \in Workers : pc[v] = "commitStocks" /\ s \in DOMAIN stocksTx[v]
        BY <3>1
      <4>2. pc'[v] = "commitStocks"
        BY <1>1, <4>1
      <4>3. \A u \in Workers \ {v} : DOMAIN stocksTx[u] \cap DOMAIN stocksTx[v] = {}
        BY LocksApart
      <4>4. SettledRow(pc, stocksTx, stock, s) = stocksTx[v][s]
        BY <4>1, <4>3, SettledByOne
      <4>5. SettledRow(pc', stocksTx, stock, s) = stocksTx[v][s]
        BY <4>1, <4>2, <4>3, SettledByOne
      <4> QED  BY <4>4, <4>5
    <3>2. CASE ~ \E v \in Workers : pc[v] = "commitStocks" /\ s \in DOMAIN stocksTx[v]
      <4>1. \A v \in Workers : ~ (pc'[v] = "commitStocks" /\ s \in DOMAIN stocksTx[v])
        BY <1>1, <1>2, <1>7, <3>2
      <4>2. SettledRow(pc, stocksTx, stock, s) = stock[s]
        BY <3>2, SettledByNone
      <4>3. SettledRow(pc', stocksTx, stock, s) = stock[s]
        BY <4>1, SettledByNone
      <4> QED  BY <4>2, <4>3
    <3> QED  BY <3>1, <3>2
  <2>3. available(row, 0)
    BY <1>4 DEF available
  <2>4. Written(op, row, row, 0) = row
    BY <1>2, <1>4, WrittenNone
  <2> HIDE DEF n, op, row
  <2>5. SettledStock'[s] = row
    BY <1>5, <2>2
  <2>6. SettledStock'[s] = Written(op, row, row, n) /\ available(row, n)
    BY <2>1, <2>3, <2>4, <2>5
  <2> QED  BY <1>3, <1>4, <2>6 DEF n, op, row, items
<1> QED  BY <1>6, <1>7

\* The first commit of a request is the step of the abstract book.
LEMMA CommitShardIsBookStep ==
    ASSUME BookInv, LockInv', NEW w \in Workers, CommitShard(w)
    PROVE  Book!BookNext
<1> DEFINE k == <<Db(w), req[w].id>>
           op == req[w].op
           items == req[w].items
           n(s) == Book!Demand(items, s)
<1>1. /\ DOMAIN OrdersBook' = DOMAIN OrdersBook \cup {k}
      /\ \A x \in DOMAIN OrdersBook \ {k} : OrdersBook'[x] = OrdersBook[x]
      /\ k \in DOMAIN OrdersBook <=> op # "create"
      /\ op = "create" => OrdersBook'[k] = [user |-> req[w].user, status |-> Awaiting,
                                            items |-> items]
      /\ op # "create" => /\ OrdersBook[k].status = Awaiting
                          /\ OrdersBook[k].items = items
                          /\ OrdersBook[k] \in OrderRow
                          /\ OrdersBook'[k] = [OrdersBook[k] EXCEPT !.status = Target[op]]
  BY CommitShardBook
<1>2. \A s \in Skus :
        /\ n(s) \in Int /\ SettledStock[s] \in StockRow
        /\ SettledStock'[s] = Written(op, SettledStock[s], SettledStock[s], n(s))
        /\ op = "create" => available(SettledStock[s], n(s))
  BY CommitShardStock
<1>3. /\ SettledStock' = [s \in Skus |-> SettledStock'[s]]
      /\ OrdersBook' = [x \in DOMAIN OrdersBook' |-> OrdersBook'[x]]
      /\ OrdersBook = [x \in DOMAIN OrdersBook |-> OrdersBook[x]]
  BY DEF SettledStock, OrdersBook
<1>4. op \in Ops
  BY RowsInHand DEF CommitShard
<1> HIDE DEF k, op, items, n
<1>5. CASE op = "create"
  <2> DEFINE order == OrdersBook'[k]
  <2>1. order.status = Book!Awaiting /\ order.items = items
    BY <1>1, <1>5 DEF Book!Awaiting, Awaiting
  <2>2. \A s \in Skus : Book!available(SettledStock[s], Book!Demand(order.items, s))
    BY <1>2, <1>5, <2>1 DEF Book!available, available, n
  <2>3. OrdersBook' = [x \in DOMAIN OrdersBook \cup {k} |-> IF x = k THEN order ELSE OrdersBook[x]]
    BY <1>1, <1>3
  <2>4. SettledStock' = [s \in Skus |->
              [available |-> SettledStock[s].available - n(s),
               reserved |-> SettledStock[s].reserved + n(s)]]
    <3>1. \A s \in Skus : SettledStock'[s] =
              [available |-> SettledStock[s].available - n(s),
               reserved |-> SettledStock[s].reserved + n(s)]
      BY <1>2, <1>5 DEF Written, ReserveItem
    <3> QED  BY <1>3, <3>1
  <2>5. k \in DOMAIN OrdersBook' \ DOMAIN OrdersBook
    BY <1>1, <1>5
  <2>6. Book!PlaceOrder(k, order)
    <3> HIDE DEF order
    <3> QED  BY <2>1, <2>2, <2>3, <2>4, <2>5 DEF Book!PlaceOrder, Book!Move, n
  <2> QED  BY <2>5, <2>6 DEF Book!BookNext
<1>6. CASE op = "pay"
  <2>1. k \in DOMAIN OrdersBook /\ OrdersBook[k].status = Book!Awaiting /\ OrdersBook[k].items = items
    BY <1>1, <1>6 DEF Book!Awaiting, Awaiting
  <2>2. OrdersBook' = [OrdersBook EXCEPT ![k].status = Book!Paid]
    <3>1. OrdersBook'[k] = [OrdersBook[k] EXCEPT !.status = Book!Paid]
      BY <1>1, <1>6 DEF Target, Book!Paid, Paid
    <3> QED  BY <1>1, <1>3, <2>1, <3>1
  <2>3. SettledStock' = [s \in Skus |-> [SettledStock[s] EXCEPT !.reserved = @ - n(s)]]
    <3>1. \A s \in Skus : SettledStock'[s] = [SettledStock[s] EXCEPT !.reserved = @ - n(s)]
      BY <1>2, <1>6 DEF Written, RemoveItem
    <3> QED  BY <1>3, <3>1
  <2>4. Book!PayForOrder(k)
    BY <2>1, <2>2, <2>3 DEF Book!PayForOrder, Book!Move, n
  <2> QED  BY <2>1, <2>4 DEF Book!BookNext
<1>7. CASE op = "cancel"
  <2>1. k \in DOMAIN OrdersBook /\ OrdersBook[k].status = Book!Awaiting /\ OrdersBook[k].items = items
    BY <1>1, <1>7 DEF Book!Awaiting, Awaiting
  <2>2. OrdersBook' = [OrdersBook EXCEPT ![k].status = Book!Canceled]
    <3>1. OrdersBook'[k] = [OrdersBook[k] EXCEPT !.status = Book!Canceled]
      BY <1>1, <1>7 DEF Target, Book!Canceled, Canceled
    <3> QED  BY <1>1, <1>3, <2>1, <3>1
  <2>3. SettledStock' = [s \in Skus |->
              [available |-> SettledStock[s].available + n(s),
               reserved |-> SettledStock[s].reserved - n(s)]]
    <3>1. \A s \in Skus : SettledStock'[s] =
              [available |-> SettledStock[s].available + n(s),
               reserved |-> SettledStock[s].reserved - n(s)]
      BY <1>2, <1>7 DEF Written, CancelItem
    <3> QED  BY <1>3, <3>1
  <2>4. Book!WithdrawOrder(k)
    BY <2>1, <2>2, <2>3 DEF Book!WithdrawOrder, Book!Move, n
  <2> QED  BY <2>1, <2>4 DEF Book!BookNext
<1> QED  BY <1>4, <1>5, <1>6, <1>7 DEF Ops

\* The units an order adds to the sums, for each status it may have.
LEMMA ShareOf ==
    ASSUME NEW order, NEW sku
    PROVE  /\ order.status = Awaiting =>
                /\ Share(order, {Awaiting}, sku) = Book!Demand(order.items, sku)
                /\ Share(order, {Awaiting, Paid}, sku) = Book!Demand(order.items, sku)
           /\ order.status = Paid =>
                /\ Share(order, {Awaiting}, sku) = 0
                /\ Share(order, {Awaiting, Paid}, sku) = Book!Demand(order.items, sku)
           /\ order.status = Canceled =>
                /\ Share(order, {Awaiting}, sku) = 0
                /\ Share(order, {Awaiting, Paid}, sku) = 0
BY DEF Share, Awaiting, Paid, Canceled

\* What the first commit adds to the sums is what it moves in the stock.
LEMMA CommitShardKeepsStock ==
    ASSUME BookInv, LockInv', NEW w \in Workers, CommitShard(w)
    PROVE  StockMatchesOrders'
<1> DEFINE k == <<Db(w), req[w].id>>
           op == req[w].op
           items == req[w].items
<1>1. /\ DOMAIN OrdersBook' = DOMAIN OrdersBook \cup {k}
      /\ \A x \in DOMAIN OrdersBook \ {k} : OrdersBook'[x] = OrdersBook[x]
      /\ k \in DOMAIN OrdersBook <=> op # "create"
      /\ op = "create" => OrdersBook'[k] = [user |-> req[w].user, status |-> Awaiting,
                                            items |-> items]
      /\ op # "create" => /\ OrdersBook[k].status = Awaiting
                          /\ OrdersBook[k].items = items
                          /\ OrdersBook[k] \in OrderRow
                          /\ OrdersBook'[k] = [OrdersBook[k] EXCEPT !.status = Target[op]]
      /\ IsBook(OrdersBook) /\ IsBook(OrdersBook')
  BY CommitShardBook
<1>2. op \in Ops
  BY RowsInHand DEF CommitShard
<1>3. \A s \in Skus : /\ SettledStock[s].reserved = InitStock[s].reserved + Book!BookedIn({Awaiting}, s)
                      /\ SettledStock[s].available = InitStock[s].available - Book!BookedIn({Awaiting, Paid}, s)
  BY DEF BookInv, StockMatchesOrders, Book!StockMatchesBook, Book!Awaiting, Book!Paid, Awaiting, Paid
<1>4. ASSUME NEW s \in Skus
      PROVE  /\ SettledStock'[s].reserved = InitStock[s].reserved + Book!BookedIn({Awaiting}, s)'
             /\ SettledStock'[s].available = InitStock[s].available - Book!BookedIn({Awaiting, Paid}, s)'
  <2> DEFINE n == Book!Demand(items, s)
             row == SettledStock[s]
             a == Booked(OrdersBook, {Awaiting}, s)
             p == Booked(OrdersBook, {Awaiting, Paid}, s)
             aa == Booked(OrdersBook', {Awaiting}, s)
             pp == Booked(OrdersBook', {Awaiting, Paid}, s)
  <2>1. /\ n \in Int /\ row \in StockRow
        /\ SettledStock'[s] = Written(op, row, row, n)
    BY CommitShardStock
  <2>2. InitStock[s] \in StockRow /\ InitStock[s].reserved \in Int /\ InitStock[s].available \in Int
    BY InitStockAssumption DEF StockRow
  <2>3. a \in Int /\ p \in Int
    BY <1>1, SharesType
  <2>4. row.reserved = InitStock[s].reserved + a /\ row.available = InitStock[s].available - p
    BY <1>3, BookedIsSum
  <2>5. op = "create" => aa = a + n /\ pp = p + n
    <3> SUFFICES ASSUME op = "create" PROVE aa = a + n /\ pp = p + n
      OBVIOUS
    <3>1. /\ OrdersBook'[k].status = Awaiting /\ OrdersBook'[k].items = items
      BY <1>1
    <3>2. /\ Share(OrdersBook'[k], {Awaiting}, s) = n
          /\ Share(OrdersBook'[k], {Awaiting, Paid}, s) = n
      BY <3>1, ShareOf
    <3>3. /\ k \notin DOMAIN OrdersBook
          /\ \A x \in DOMAIN OrdersBook : OrdersBook'[x] = OrdersBook[x]
      BY <1>1
    <3> HIDE DEF k, n
    <3>4. aa = a + Share(OrdersBook'[k], {Awaiting}, s)
      BY <1>1, <3>3, BookedGrows
    <3>5. pp = p + Share(OrdersBook'[k], {Awaiting, Paid}, s)
      BY <1>1, <3>3, BookedGrows
    <3> QED  BY <3>2, <3>4, <3>5
  <2>6. op # "create" =>
          /\ aa = a - n + Share(OrdersBook'[k], {Awaiting}, s)
          /\ pp = p - n + Share(OrdersBook'[k], {Awaiting, Paid}, s)
    <3> SUFFICES ASSUME op # "create"
                 PROVE  /\ aa = a - n + Share(OrdersBook'[k], {Awaiting}, s)
                        /\ pp = p - n + Share(OrdersBook'[k], {Awaiting, Paid}, s)
      OBVIOUS
    <3>1. /\ Share(OrdersBook[k], {Awaiting}, s) = n
          /\ Share(OrdersBook[k], {Awaiting, Paid}, s) = n
      BY <1>1, ShareOf
    <3>2. k \in DOMAIN OrdersBook /\ DOMAIN OrdersBook' = DOMAIN OrdersBook
      BY <1>1
    <3> HIDE DEF k, n
    <3>3. aa = a - Share(OrdersBook[k], {Awaiting}, s) + Share(OrdersBook'[k], {Awaiting}, s)
      BY <1>1, <3>2, BookedChanges
    <3>4. pp = p - Share(OrdersBook[k], {Awaiting, Paid}, s) + Share(OrdersBook'[k], {Awaiting, Paid}, s)
      BY <1>1, <3>2, BookedChanges
    <3> QED  BY <3>1, <3>3, <3>4
  <2>7. op = "pay" => /\ Share(OrdersBook'[k], {Awaiting}, s) = 0
                      /\ Share(OrdersBook'[k], {Awaiting, Paid}, s) = n
    <3> SUFFICES ASSUME op = "pay"
                 PROVE  /\ Share(OrdersBook'[k], {Awaiting}, s) = 0
                        /\ Share(OrdersBook'[k], {Awaiting, Paid}, s) = n
      OBVIOUS
    <3>1. Target[op] = Paid /\ op # "create"
      BY DEF Target
    <3> HIDE DEF op, items, k
    <3>2. OrdersBook'[k].status = Paid /\ OrdersBook'[k].items = items
      BY <1>1, <3>1 DEF OrderRow
    <3> QED  BY <3>2, ShareOf
  <2>8. op = "cancel" => /\ Share(OrdersBook'[k], {Awaiting}, s) = 0
                         /\ Share(OrdersBook'[k], {Awaiting, Paid}, s) = 0
    <3> SUFFICES ASSUME op = "cancel"
                 PROVE  /\ Share(OrdersBook'[k], {Awaiting}, s) = 0
                        /\ Share(OrdersBook'[k], {Awaiting, Paid}, s) = 0
      OBVIOUS
    <3>1. OrdersBook'[k].status = Canceled
      BY <1>1 DEF Target, OrderRow
    <3> QED  BY <3>1, ShareOf
  <2>9. /\ Book!BookedIn({Awaiting}, s)' = aa /\ Book!BookedIn({Awaiting, Paid}, s)' = pp
    BY BookedIsSum
  <2> HIDE DEF n, row, a, p, aa, pp, op, k, items
  <2>10. row.reserved \in Int /\ row.available \in Int
    BY <2>1 DEF StockRow
  <2>11. CASE op = "create"
    <3>1. SettledStock'[s].reserved = row.reserved + n /\ SettledStock'[s].available = row.available - n
      BY <2>1, <2>11 DEF Written, ReserveItem
    <3> QED  BY <2>1, <2>2, <2>3, <2>4, <2>5, <2>9, <2>11, <3>1
  <2>12. CASE op = "pay"
    <3>1. SettledStock'[s].reserved = row.reserved - n /\ SettledStock'[s].available = row.available
      BY <2>1, <2>12 DEF Written, RemoveItem, StockRow
    <3>2. aa = a - n /\ pp = p
      BY <2>1, <2>3, <2>6, <2>7, <2>12
    <3> QED  BY <2>1, <2>2, <2>3, <2>4, <2>9, <3>1, <3>2
  <2>13. CASE op = "cancel"
    <3>1. SettledStock'[s].reserved = row.reserved - n /\ SettledStock'[s].available = row.available + n
      BY <2>1, <2>13 DEF Written, CancelItem
    <3>2. aa = a - n /\ pp = p - n
      BY <2>1, <2>3, <2>6, <2>8, <2>13
    <3> QED  BY <2>1, <2>2, <2>3, <2>4, <2>9, <3>1, <3>2
  <2> QED  BY <1>2, <2>11, <2>12, <2>13 DEF Ops
<1> QED  BY <1>4 DEF StockMatchesOrders, Book!StockMatchesBook, Book!Awaiting, Book!Paid, Awaiting, Paid

\* Orderly commits do not fail.
LEMMA NothingLost ==
    ASSUME Orderly, BookInv
    PROVE  lost = {}
BY DEF Orderly, BookInv, RecordInv

\* Whoever shared the order of the first commit can only be a pay that came
\* too late.
LEMMA GoodsCommitShard ==
    ASSUME Orderly, BookInv, LockInv', RecordInv', NEW w \in Workers, CommitShard(w)
    PROVE  BookInv'
<1> DEFINE db == Db(w)
           id == req[w].id
           op == req[w].op
<1>1. /\ pc[w] = "commitShard" /\ pc'[w] = "commitStocks"
      /\ UNCHANGED <<stock, req, stocksTx>>
      /\ \A v \in Workers \ {w} : pc'[v] = pc[v]
      /\ Inv /\ GoodsOK(w) /\ ShardTxOK(w)
  BY DEF BookInv, LockInv, Inv, TypeOK, CommitShard, GoTo
<1>2. /\ db \in Dbs /\ op \in Ops
      /\ id \in DOMAIN orders[db] <=> op # "create"
      /\ DOMAIN orders'[db] = DOMAIN orders[db] \cup {id}
      /\ \A x \in DOMAIN orders[db] \ {id} : orders'[db][x] = orders[db][x]
      /\ \A d \in Dbs \ {db} : orders'[d] = orders[d]
      /\ op = "create" => orders'[db][id] = [user |-> req[w].user, status |-> Awaiting,
                                            items |-> req[w].items]
      /\ op # "create" => /\ orders'[db][id] = [orders[db][id] EXCEPT !.status = Target[op]]
                          /\ orders[db][id] \in OrderRow
                          /\ Target[op] \in {Paid, Canceled}
  BY <1>1, CommitShardEffect
<1>3. /\ op # "create" => /\ OrderOf(w).items = req[w].items /\ OrderOf(w).status = Awaiting
                          /\ OrderOf(w)'.items = req[w].items /\ OrderOf(w)'.status = Target[op]
  <2>1. op # "create" => OrderOf(w).items = req[w].items /\ OrderOf(w).status = Awaiting
    BY <1>1 DEF GoodsOK, Working
  <2>2. OrderOf(w) = orders[db][id] /\ OrderOf(w)' = orders'[db][id]
    BY <1>1 DEF OrderOf, Db
  <2>3. op # "create" => OrderOf(w)'.items = OrderOf(w).items /\ OrderOf(w)'.status = Target[op]
    <3> HIDE DEF db, id, op
    <3> QED  BY <1>2, <2>2 DEF OrderRow
  <2> QED  BY <2>1, <2>3
<1>4. shardTx[w].status # "none"
  <2>1. shardTx[w].status = Target[op]
    BY <1>1 DEF ShardTxOK
  <2>2. Target[op] # "none"
    BY <1>2 DEF Target, Ops, Awaiting, Paid, Canceled
  <2> QED  BY <2>1, <2>2
<1> HIDE DEF id, db, op
\* Another request at work on the order just committed.
<1>5. ASSUME NEW v \in Workers \ {w}, pc[v] \in Working, req[v].op # "create",
             Db(v) = db, req[v].id = id
      PROVE  /\ op = "pay" /\ req[v].op = "pay"
             /\ pc[v] \in {"check", "read", "write", "setStatus"}
  <2>1. OrderRowOK(v) /\ RecordedOK(v) /\ GoodsOK(v) /\ ShardTxOK(v) /\ req[v].op \in Ops
    <3>1. RequestOK(v) /\ req[v] \in Request
      BY DEF BookInv, LockInv, Inv, TypeOK
    <3>2. req[v].op \in Ops
      BY <1>5, <3>1 DEF RequestOK, Request, Working
    <3> QED  BY <3>2 DEF BookInv, LockInv, RecordInv, Inv
  <2>2. id \in DOMAIN orders[db]
    BY <1>5, <2>1, NothingLost DEF OrderRowOK, RecordedOK, Working, db, id
  <2>3. op # "create"
    BY <1>2, <2>2
  <2>4. OrderOf(v) = OrderOf(w)
    BY <1>5 DEF OrderOf, db, id
  <2>5. req[v].items = req[w].items /\ req[v].items # <<>>
    BY <1>3, <1>5, <2>1, <2>3, <2>4 DEF GoodsOK
  <2>6. SkusOf(req[v].items) \cap SkusOf(req[w].items) # {}
    <3>1. req[v].items \in Seq(ItemRow)
      BY DEF BookInv, LockInv, Inv, TypeOK, Request
    <3>2. 1 \in DOMAIN req[v].items
      BY <2>5, <3>1
    <3> QED  BY <2>5, <3>2 DEF SkusOf
  <2>7. op = "pay" /\ req[v].op = "pay"
    BY <1>1, <2>6 DEF GoodsOK, op
  <2>8. pc[v] # "commitShard"
    <3> SUFFICES ASSUME pc[v] = "commitShard" PROVE FALSE
      OBVIOUS
    <3>1. shardTx[v].status = Target[req[v].op]
      BY <2>1 DEF ShardTxOK
    <3>2. shardTx[v].status # "none"
      BY <2>7, <3>1 DEF Target, Paid
    <3>3. ~ HoldsOrder(w, Db(v), req[v].id)
      BY <2>1, <3>2 DEF OrderRowOK
    <3> QED  BY <1>4, <1>5, <3>3 DEF HoldsOrder, db, id
  <2>9. pc[v] # "commitStocks"
    <3> SUFFICES ASSUME pc[v] = "commitStocks" PROVE FALSE
      OBVIOUS
    <3>1. OrderOf(v).status = Paid
      BY <1>5, <2>1, <2>7 DEF GoodsOK, Target
    <3> QED  BY <1>3, <2>3, <2>4, <3>1 DEF Awaiting, Paid
  <2> QED  BY <1>5, <2>7, <2>8, <2>9 DEF Working
\* A request at work on an order of its own sees it as before.
<1>6. ASSUME NEW v \in Workers \ {w}, pc[v] \in Working, req[v].op # "create",
             ~ (Db(v) = db /\ req[v].id = id)
      PROVE  OrderOf(v)' = OrderOf(v)
  <2>1. OrderRowOK(v) /\ RecordedOK(v) /\ Db(v) \in Dbs
    <3>1. req[v].index \in ShardIndexes
      BY DEF BookInv, LockInv, Inv, TypeOK, Request
    <3> QED  BY <3>1, PickType DEF BookInv, LockInv, RecordInv, Inv, Db
  <2>2. req[v].id \in DOMAIN orders[Db(v)]
    BY <1>6, <2>1, NothingLost DEF OrderRowOK, RecordedOK, Working
  <2>3. OrderOf(v)' = orders'[Db(v)][req[v].id]
    BY <1>1 DEF OrderOf, Db
  <2>4. orders'[Db(v)][req[v].id] = orders[Db(v)][req[v].id]
    BY <1>2, <1>6, <2>1, <2>2
  <2> QED  BY <2>3, <2>4 DEF OrderOf
<1>7. ASSUME NEW v \in Workers PROVE GoodsOK(v)'
  <2>1. GoodsOK(v) /\ req' = req
    BY <1>1 DEF BookInv
  <2>2. \A u \in Workers \ {v} :
          \/ SkusOf(req'[v].items) \cap SkusOf(req'[u].items) = {}
          \/ req'[v].op = "pay" /\ req'[u].op = "pay" /\ req'[u].id = req'[v].id
    BY <2>1 DEF GoodsOK
  <2>3. CASE v = w
    <3>1. pc'[w] = "commitStocks" /\ pc[w] \in Working /\ pc'[w] \in Working
      BY <1>1 DEF Working
    <3>2. req[w].items # <<>> /\ Distinct(req[w].items)
      BY <1>1, <3>1 DEF GoodsOK
    <3> HIDE DEF OrderOf
    <3>3. req[w].op # "create" =>
            OrderOf(w)'.items = req[w].items /\ OrderOf(w)'.status = Target[req[w].op]
      BY <1>3 DEF op
    <3> QED  BY <2>1, <2>2, <2>3, <3>1, <3>2, <3>3 DEF GoodsOK
  <2>4. CASE v # w
    <3>1. pc'[v] = pc[v]
      BY <1>1, <2>4
    <3>2. CASE pc[v] \in Working /\ req[v].op # "create"
      <4>1. CASE Db(v) = db /\ req[v].id = id
        <5>1. /\ op = "pay" /\ req[v].op = "pay"
              /\ pc[v] \in {"check", "read", "write", "setStatus"}
          BY <1>5, <2>4, <3>2, <4>1
        <5>2. OrderOf(v)' = OrderOf(w)' /\ OrderOf(v) = OrderOf(w)
          BY <2>1, <4>1 DEF OrderOf, db, id, Db
        <5>3. Target["pay"] = Paid
          BY DEF Target
        <5> HIDE DEF OrderOf
        <5>4. OrderOf(v)'.status = Paid /\ OrderOf(v)'.items = OrderOf(v).items
          BY <1>3, <5>1, <5>2, <5>3
        <5> QED  BY <2>1, <2>2, <3>1, <3>2, <5>1, <5>4 DEF GoodsOK
      <4>2. CASE ~ (Db(v) = db /\ req[v].id = id)
        <5>1. OrderOf(v)' = OrderOf(v)
          BY <1>6, <2>4, <3>2, <4>2
        <5> HIDE DEF OrderOf
        <5> QED  BY <2>1, <2>2, <3>1, <5>1 DEF GoodsOK
      <4> QED  BY <4>1, <4>2
    <3>3. CASE ~ (pc[v] \in Working /\ req[v].op # "create")
      BY <2>1, <2>2, <3>1, <3>3 DEF GoodsOK
    <3> QED  BY <3>2, <3>3
  <2> QED  BY <2>3, <2>4
<1>8. ASSUME NEW v \in Workers PROVE GoodsInHand(v)'
  <2>1. GoodsInHand(v) /\ req' = req /\ stock' = stock /\ stocksTx' = stocksTx
    BY <1>1 DEF BookInv
  <2>2. Item(v)' = Item(v)
    BY <2>1 DEF Item
  <2>3. CASE v = w
    <3>1. Live(w) /\ pc'[w] # "write" /\ pc[w] # "check"
      BY <1>1, RowsInHand
    <3> HIDE DEF Live
    <3> QED  BY <2>1, <2>3, <3>1 DEF GoodsInHand
  <2>4. CASE v # w
    <3>1. pc'[v] = pc[v]
      BY <1>1, <2>4
    <3>2. Live(v)' => Live(v)
      <4> SUFFICES ASSUME Live(v)' PROVE Live(v)
        OBVIOUS
      <4>1. pc[v] \in Working
        BY <3>1 DEF Live
      <4>2. CASE req[v].op # "create" /\ Db(v) = db /\ req[v].id = id
        <5>1. /\ op = "pay" /\ req[v].op = "pay" /\ pc[v] # "commitStocks"
          BY <1>5, <2>4, <4>1, <4>2
        <5>2. OrderOf(v)' = OrderOf(w)'
          BY <2>1, <4>2 DEF OrderOf, db, id, Db
        <5>3. Target["pay"] = Paid /\ Paid # Awaiting
          BY DEF Target, Paid, Awaiting
        <5>4. OrderOf(v)'.status = Awaiting
          BY <2>1, <3>1, <5>1 DEF Live
        <5> HIDE DEF OrderOf
        <5> QED  BY <1>3, <5>1, <5>2, <5>3, <5>4
      <4>3. CASE req[v].op # "create" /\ ~ (Db(v) = db /\ req[v].id = id)
        <5>1. OrderOf(v)' = OrderOf(v)
          BY <1>6, <2>4, <4>1, <4>3
        <5> HIDE DEF OrderOf
        <5> QED  BY <2>1, <3>1, <5>1 DEF Live
      <4>4. CASE req[v].op = "create"
        BY <4>1, <4>4 DEF Live
      <4> QED  BY <4>2, <4>3, <4>4
    <3> HIDE DEF Live
    <3> QED  BY <2>1, <2>2, <3>1, <3>2 DEF GoodsInHand
  <2> QED  BY <2>3, <2>4
<1>9. ASSUME NEW d \in Dbs, NEW x \in DOMAIN orders'[d] PROVE Distinct(orders'[d][x].items)
  <2>1. CASE d = db /\ x = id
    <3>1. Distinct(req[w].items)
      BY <1>1 DEF GoodsOK, Working
    <3>2. orders'[d][x].items = req[w].items
      BY <1>2, <1>3, <2>1 DEF OrderOf, OrderRow, db, id, Db
    <3> QED  BY <3>1, <3>2
  <2>2. CASE ~ (d = db /\ x = id)
    <3>1. x \in DOMAIN orders[d] /\ orders'[d][x] = orders[d][x]
      BY <1>2, <2>2
    <3> QED  BY <3>1 DEF BookInv
  <2> QED  BY <2>1, <2>2
<1>10. IsFiniteSet(DOMAIN OrdersBook') /\ StockMatchesOrders'
  BY CommitShardBook, CommitShardKeepsStock DEF IsBook
<1>11. \A s \in Skus : stock'[s].available >= 0
  BY <1>1 DEF BookInv
<1> QED  BY <1>7, <1>8, <1>9, <1>10, <1>11 DEF BookInv

\* Orderly clients and commits that succeed: each step is one of the book or
\* none, and keeps the goods in hand.
LEMMA GoodsNext ==
    ASSUME Orderly, BookInv, [Next]_vars
    PROVE  BookInv' /\ [Book!BookNext]_(Book!bookVars)
<1>1. LockInv' /\ RecordInv'
  BY LockNext, RecordNext DEF BookInv, Orderly
<1>2. ASSUME BookInv' /\ UNCHANGED <<OrdersBook, SettledStock>>
      PROVE  BookInv' /\ [Book!BookNext]_(Book!bookVars)
  BY <1>2 DEF Book!bookVars
<1>3. ASSUME NEW w \in Workers, BeginCreate(w) \/ BeginUpdate(w) \/ GenerateId(w)
      PROVE  BookInv' /\ [Book!BookNext]_(Book!bookVars)
  BY <1>1, <1>2, <1>3, GoodsBeginCreate, GoodsBeginUpdate, GoodsGenerateId
<1>4. ASSUME NEW w \in Workers, LockingStep(w)
      PROVE  BookInv' /\ [Book!BookNext]_(Book!bookVars)
  BY <1>1, <1>2, <1>4, GoodsInsert, GoodsWriteRow, GoodsSetStatus DEF LockingStep
<1>5. ASSUME NEW w \in Workers, GetOrder(w) \/ CheckItem(w) \/ ReadRow(w) \/ CommitStocks(w)
      PROVE  BookInv' /\ [Book!BookNext]_(Book!bookVars)
  BY <1>1, <1>2, <1>5, GoodsGetOrder, GoodsCheckItem, GoodsReadRow, GoodsCommitStocks
<1>6. ASSUME NEW w \in Workers, StockFailure(w) \/ StatementFails(w) \/ DeadlockVictim(w)
      PROVE  BookInv' /\ [Book!BookNext]_(Book!bookVars)
  <2>1. pc[w] # "commitStocks"
    BY <1>6 DEF StockFailure, StatementFails, DeadlockVictim, WaitRing, WaitsForStock, Statements
  <2>2. GoTo(w, "rollback") /\ UNCHANGED <<orders, stock, req, stocksTx>>
    BY <1>6 DEF StockFailure, StatementFails, DeadlockVictim
  <2> QED  BY <1>1, <1>2, <2>1, <2>2, GoodsRollback
<1>7. ASSUME NEW w \in Workers, Rollback(w)
      PROVE  BookInv' /\ [Book!BookNext]_(Book!bookVars)
  <2>1. pc[w] # "commitStocks" /\ Finish(w) /\ UNCHANGED <<orders, stock>>
    BY <1>7 DEF Rollback
  <2> QED  BY <1>1, <1>2, <2>1, GoodsAnswered
<1>8. ASSUME NEW w \in Workers, CommitShard(w)
      PROVE  BookInv' /\ [Book!BookNext]_(Book!bookVars)
  BY <1>1, <1>8, GoodsCommitShard, CommitShardIsBookStep
<1>9. ~ Crash /\ \A w \in Workers : ~ CommitShardLost(w) /\ ~ CommitStocksLost(w)
  BY DEF Orderly, Crash, CommitShardLost, CommitStocksLost, LoseCommit
<1>10. ~ NegativeId
  <2>1. \A id \in ClientIds : id \in Nat
    BY DEF Orderly
  <2>2. \A id \in Nat : ~ (id % 1000 < 0)
    OBVIOUS
  <2> QED  BY <2>1, <2>2 DEF NegativeId, GetShardIndexFromId
<1>11. CASE UNCHANGED vars
  <2>1. /\ orders' = orders /\ stock' = stock /\ pc' = pc /\ req' = req
        /\ stocksTx' = stocksTx
    BY <1>11 DEF vars
  <2>2. OrdersBook' = OrdersBook /\ SettledStock' = SettledStock
    BY <2>1 DEF OrdersBook, SettledStock
  <2>3. \A w \in Workers : GoodsOK(w)' /\ GoodsInHand(w)'
    <3> SUFFICES ASSUME NEW w \in Workers PROVE GoodsOK(w)' /\ GoodsInHand(w)'
      OBVIOUS
    <3>1. GoodsOK(w) /\ GoodsInHand(w)
      BY DEF BookInv
    <3> QED  BY <2>1, <3>1 DEF GoodsOK, GoodsInHand, Live, OrderOf, Db, Item
  <2>4. StockMatchesOrders'
    BY <2>2 DEF BookInv, StockMatchesOrders, Book!StockMatchesBook, Book!BookedIn
  <2>5. BookInv'
    BY <1>1, <2>1, <2>2, <2>3, <2>4 DEF BookInv
  <2> QED  BY <1>2, <2>2, <2>5
<1> QED  BY <1>3, <1>4, <1>5, <1>6, <1>7, <1>8, <1>9, <1>10, <1>11
         DEF Next, PlainStep, Fault

\* Nothing is sold at first.
LEMMA GoodsInit ==
    ASSUME Orderly, Init
    PROVE  BookInv /\ Book!BookInit
<1>1. LockInv /\ RecordInv
  <2>1. Inv /\ DOMAIN NoRows = {}
    BY InitInv DEF NoRows
  <2>2. \A w \in Workers : StocksTxOK(w)
    BY <2>1 DEF Init, StocksTxOK
  <2>3. \A w \in Workers : RecordedOK(w)
    BY DEF Init, RecordedOK
  <2>4. lost = {} /\ AckedIsRecorded /\ \A a \in acked : GetShardIndexFromId(a[2]) \in ShardIndexes
    BY DEF Init, AckedIsRecorded
  <2> QED  BY <2>1, <2>2, <2>3, <2>4 DEF LockInv, RecordInv
<1>2. \A w \in Workers : pc[w] = "idle" /\ req[w].op = "none" /\ req[w].items = <<>>
  BY DEF Init, NoRequest
<1>3. \A w \in Workers : GoodsOK(w) /\ GoodsInHand(w)
  BY <1>2, NoSkus DEF GoodsOK, GoodsInHand, Live, Working
<1>4. \A db \in Dbs : DOMAIN orders[db] = {}
  BY DEF Init, NoRows
<1>5. DOMAIN OrdersBook = {}
  BY <1>4 DEF OrdersBook
<1>6. OrdersBook = <<>>
  BY <1>5 DEF OrdersBook
<1>7. \A s \in Skus : SettledStock[s] = stock[s]
  <2>1. \A s \in Skus : SettledRow(pc, stocksTx, stock, s) = stock[s]
    <3>1. \A w \in Workers : pc[w] # "commitStocks"
      BY <1>2
    <3> QED  BY <3>1, SettledByNone
  <2> QED  BY <2>1, SettledIs
<1>8. SettledStock = InitStock
  <2>1. SettledStock = [s \in Skus |-> SettledStock[s]]
    BY DEF SettledStock
  <2> QED  BY <1>7, <2>1, InitStockAssumption DEF Init
<1>9. \A statuses, s : Book!BookedIn(statuses, s) = 0
  <2> SUFFICES ASSUME NEW statuses, NEW s PROVE Book!BookedIn(statuses, s) = 0
    OBVIOUS
  <2>1. Book!BookedIn(statuses, s) = SumFunctionOnSet(Shares(OrdersBook, statuses, s), {})
    BY <1>5, BookedIsSum DEF Booked
  <2> QED  BY <2>1, SumEmpty
<1>10. StockMatchesOrders
  <2>1. \A s \in Skus : InitStock[s].reserved \in Int /\ InitStock[s].available \in Int
    BY InitStockAssumption DEF StockRow
  <2> QED  BY <1>8, <1>9, <2>1 DEF StockMatchesOrders, Book!StockMatchesBook
<1>11. \A s \in Skus : stock[s].available >= 0
  BY DEF Init, Orderly
<1>12. IsFiniteSet(DOMAIN OrdersBook)
  BY <1>5, FS_EmptySet
<1> QED  BY <1>1, <1>3, <1>4, <1>6, <1>8, <1>10, <1>11, <1>12 DEF BookInv, Book!BookInit

\* Goods are conserved when clients keep to themselves and commits succeed:
\* then the units reserved and on offer are always those the orders account
\* for, across both databases and at every moment between the two commits.
THEOREM GoodsAreConserved ==
    ASSUME Orderly
    PROVE  Spec => []StockMatchesOrders
<1>1. Init => BookInv
  BY GoodsInit
<1>2. BookInv /\ [Next]_vars => BookInv'
  BY GoodsNext
<1>3. BookInv => StockMatchesOrders
  BY DEF BookInv
<1> QED  BY <1>1, <1>2, <1>3, PTL DEF Spec

\* Under the same conditions LOMS is one book of orders and one table of
\* stocks: each request takes effect on both at once, with its first commit.
THEOREM ServiceImplementsOrderBook ==
    ASSUME Orderly
    PROVE  Spec => ImplementsOrderBook
<1>1. Init => BookInv /\ Book!BookInit
  BY GoodsInit
<1>2. BookInv /\ [Next]_vars => BookInv' /\ [Book!BookNext]_(Book!bookVars)
  BY GoodsNext
<1> QED  BY <1>1, <1>2, PTL DEF Spec, ImplementsOrderBook, Book!BookSpec

-----------------------------------------------------------------------------
\* docs/homework-3: under the same conditions an order awaits payment only with
\* its goods reserved, for any numbers of orders and products whose initial
\* reservations are not negative.
THEOREM GoodsAreReserved ==
    ASSUME Orderly, \A s \in Skus : InitStock[s].reserved >= 0
    PROVE  Spec => []AwaitingIsReserved
<1>1. BookInv => AwaitingIsReserved
  <2> SUFFICES ASSUME BookInv, NEW s \in Skus
               PROVE  SettledStock[s].reserved >= Book!BookedIn({Awaiting}, s)
    BY DEF AwaitingIsReserved
  <2>1. Book!BookedIn({Awaiting}, s) \in Int
    <3>1. IsBook(OrdersBook)
      <4>1. /\ \A db \in Dbs : IsPartial(orders[db], Nat, OrderRow)
            /\ IsFiniteSet(DOMAIN BookOf(orders)) /\ OrdersBook = BookOf(orders)
        BY BookIs DEF BookInv, LockInv, Inv, TypeOK
      <4> QED  BY <4>1, OrdersAreBook
    <3>2. Booked(OrdersBook, {Awaiting}, s) \in Int
      BY <3>1, SharesType
    <3> QED  BY <3>2, BookedIsSum
  <2>2. InitStock[s].reserved \in Int
    BY InitStockAssumption DEF StockRow
  <2>3. SettledStock[s].reserved = InitStock[s].reserved + Book!BookedIn({Awaiting}, s)
    BY DEF BookInv, StockMatchesOrders, Book!StockMatchesBook, Awaiting, Book!Awaiting
  <2> QED  BY <2>1, <2>2, <2>3
<1> QED  BY <1>1, GoodsInit, GoodsNext, PTL DEF Spec

\* docs/homework-6: under the same conditions paid and cancelled are terminal: the
\* only request that may meet another on one order is a second pay, and the outbox
\* stops the later of the two before it commits.
THEOREM FinalStatusIsFinal ==
    ASSUME Orderly
    PROVE  Spec => FinalStatusStays
<1> DEFINE Stays == \A db \in Dbs : \A id \in DOMAIN orders[db] :
                      orders[db][id].status \in {Paid, Canceled} =>
                          orders'[db][id].status = orders[db][id].status
<1>1. BookInv /\ [Next]_vars => Stays
  <2> SUFFICES ASSUME BookInv, [Next]_vars PROVE Stays
    OBVIOUS
  <2>1. ASSUME NEW w \in Workers, CommitShard(w) PROVE Stays
    <3> DEFINE db == Db(w)
               id == req[w].id
    <3>1. /\ \A x \in DOMAIN orders[db] \ {id} : orders'[db][x] = orders[db][x]
          /\ \A d \in Dbs \ {db} : orders'[d] = orders[d]
          /\ id \in DOMAIN orders[db] <=> req[w].op # "create"
      BY <2>1, CommitShardEffect DEF BookInv, LockInv
    <3>2. req[w].op # "create" => orders[db][id].status = Awaiting
      <4>1. pc[w] = "commitShard" /\ GoodsOK(w)
        BY <2>1 DEF CommitShard, BookInv
      <4> QED  BY <4>1 DEF GoodsOK, Working, OrderOf
    <3> HIDE DEF db, id
    <3> QED  BY <3>1, <3>2 DEF Awaiting, Paid, Canceled
  <2>2. CASE orders' = orders
    BY <2>2
  <2>3. (\E w \in Workers : CommitShard(w)) \/ orders' = orders
    BY DEF Next, vars, BeginCreate, BeginUpdate, PlainStep, LockingStep, Fault,
           GenerateId, Insert, GetOrder, CheckItem, StockFailure, ReadRow, WriteRow,
           SetStatus, CommitStocks, CommitShardLost, CommitStocksLost, Rollback,
           StatementFails, DeadlockVictim, Crash, NegativeId, ProcessDies
  <2> QED  BY <2>1, <2>2, <2>3
<1> QED  BY <1>1, GoodsInit, GoodsNext, PTL DEF Spec, FinalStatusStays
=============================================================================
