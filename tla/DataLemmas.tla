----------------------------- MODULE DataLemmas -----------------------------
(***************************************************************************)
(* Facts about data that the proofs share.                                 *)
(*                                                                         *)
(* The std::list the pool and the servers keep their work in, seen as a    *)
(* sequence: what push_back, push_front and pop_front do to the set of     *)
(* members and to the absence of duplicates.                               *)
(*                                                                         *)
(* The sum of the values of a function, by which tickets and clients are   *)
(* counted: it is an integer, does not depend on the order of the fold,    *)
(* and changes with a value by as much as the value does.                  *)
(***************************************************************************)
EXTENDS Integers, Sequences, Functions, SequenceTheorems, FiniteSetTheorems, TLAPS

(* The elements of q. *)
Elements(q) == {q[i] : i \in 1 .. Len(q)}

(* No element occurs twice in q. *)
Distinct(q) == \A i, j \in 1 .. Len(q) : q[i] = q[j] => i = j

(* q with t pushed to the front (front = TRUE) or to the back. *)
Pushed(q, t, front) == IF front THEN <<t>> \o q ELSE Append(q, t)

(* An empty queue has no members. *)
LEMMA EmptyQueueMembers == Elements(<<>>) = {} /\ Distinct(<<>>)
  BY DEF Elements, Distinct

(* A queue with a member is not empty. *)
LEMMA MemberNonEmpty ==
  ASSUME NEW S, NEW q \in Seq(S)
  PROVE  /\ Elements(q) = {} <=> q = <<>>
         /\ Elements(q) \subseteq S
<1>1. Len(q) \in Nat /\ (q # <<>> => Len(q) \in Nat \ {0})
  BY EmptySeq
<1>2. \A i \in 1 .. Len(q) : q[i] \in S
  BY ElementOfSeq
<1>3. q # <<>> => q[1] \in Elements(q)
  BY <1>1 DEF Elements
<1> QED
  BY <1>2, <1>3, EmptyQueueMembers DEF Elements

(* Both kinds of push add one member and one position. *)
LEMMA PushedProperties ==
  ASSUME NEW S, NEW q \in Seq(S), NEW t \in S, NEW front \in BOOLEAN
  PROVE  /\ Pushed(q, t, front) \in Seq(S)
         /\ Len(Pushed(q, t, front)) = Len(q) + 1
         /\ Elements(Pushed(q, t, front)) = Elements(q) \union {t}
<1> DEFINE r == Pushed(q, t, front)
<1>1. CASE front
  <2>1. r = <<t>> \o q /\ <<t>> \in Seq(S) /\ Len(<<t>>) = 1 /\ <<t>>[1] = t
    BY <1>1 DEF Pushed
  <2>2. /\ r \in Seq(S)
        /\ Len(r) = Len(q) + 1
        /\ \A i \in 1 .. Len(q) + 1 : r[i] = IF i <= 1 THEN <<t>>[i] ELSE q[i - 1]
    <3> HIDE DEF r
    <3> QED BY <2>1, ConcatProperties, LenProperties
  <2>3. r[1] = t /\ \A i \in 1 .. Len(q) : r[i + 1] = q[i]
    <3> HIDE DEF r
    <3> QED BY <2>1, <2>2, LenProperties
  <2>4. ASSUME NEW x PROVE x \in Elements(r) <=> x \in Elements(q) \union {t}
    <3> HIDE DEF r
    <3>1. ASSUME NEW i \in 1 .. Len(r), x = r[i] PROVE x \in Elements(q) \union {t}
      <4>1. CASE i = 1
        BY <3>1, <4>1, <2>3
      <4>2. CASE i # 1
        <5>1. i - 1 \in 1 .. Len(q) /\ x = q[i - 1]
          BY <3>1, <4>2, <2>2, LenProperties
        <5> QED BY <5>1 DEF Elements
      <4> QED BY <4>1, <4>2
    <3>2. ASSUME NEW i \in 1 .. Len(q), x = q[i] PROVE x \in Elements(r)
      <4>1. i + 1 \in 1 .. Len(r) /\ r[i + 1] = x
        BY <3>2, <2>2, <2>3, LenProperties
      <4> QED BY <4>1 DEF Elements
    <3>3. t \in Elements(r)
      <4>1. 1 \in 1 .. Len(r)
        BY <2>2, LenProperties
      <4> QED BY <4>1, <2>3 DEF Elements
    <3> QED BY <3>1, <3>2, <3>3 DEF Elements
  <2> QED BY <2>2, <2>4
<1>2. CASE ~front
  <2>1. r = Append(q, t)
    BY <1>2 DEF Pushed
  <2>2. /\ r \in Seq(S)
        /\ Len(r) = Len(q) + 1
        /\ r[Len(q) + 1] = t
        /\ \A i \in 1 .. Len(q) : r[i] = q[i]
    <3> HIDE DEF r
    <3> QED BY <2>1, AppendProperties
  <2>3. Elements(r) = Elements(q) \union {t}
    <3> HIDE DEF r
    <3>1. 1 .. Len(r) = (1 .. Len(q)) \union {Len(q) + 1}
      BY <2>2, LenProperties
    <3> QED BY <2>2, <3>1 DEF Elements
  <2> QED BY <2>2, <2>3
<1> QED BY <1>1, <1>2

(* Pushing an element that is not a member creates no duplicate. *)
LEMMA PushedDistinct ==
  ASSUME NEW S, NEW q \in Seq(S), NEW t \in S, NEW front \in BOOLEAN,
         Distinct(q), t \notin Elements(q)
  PROVE  Distinct(Pushed(q, t, front))
<1> DEFINE r == Pushed(q, t, front)
<1>1. CASE front
  <2>1. <<t>> \in Seq(S) /\ Len(<<t>>) = 1 /\ <<t>>[1] = t /\ r = <<t>> \o q
    BY <1>1 DEF Pushed
  <2>2. /\ Len(r) = Len(q) + 1
        /\ \A i \in 1 .. Len(q) + 1 : r[i] = IF i <= 1 THEN <<t>>[i] ELSE q[i - 1]
    <3> HIDE DEF r
    <3> QED BY <2>1, ConcatProperties, LenProperties
  <2> HIDE DEF r
  <2>3. SUFFICES ASSUME NEW i \in 1 .. Len(r), NEW j \in 1 .. Len(r), r[i] = r[j]
                 PROVE  i = j
    BY DEF Distinct, r
  <2>4. \A k \in 1 .. Len(r) : k # 1 => k - 1 \in 1 .. Len(q) /\ r[k] = q[k - 1]
    BY <2>2, LenProperties
  <2>5. r[1] = t
    BY <2>1, <2>2, LenProperties
  <2>6. \A k \in 1 .. Len(r) : k # 1 => r[k] # t
    BY <2>4 DEF Elements
  <2>7. CASE i = 1 \/ j = 1
    BY <2>3, <2>5, <2>6, <2>7
  <2>8. CASE i # 1 /\ j # 1
    <3>1. i - 1 \in 1 .. Len(q) /\ j - 1 \in 1 .. Len(q) /\ q[i - 1] = q[j - 1]
      BY <2>3, <2>4, <2>8
    <3>2. i - 1 = j - 1
      BY <3>1 DEF Distinct
    <3> QED BY <3>2, <2>2, LenProperties
  <2> QED BY <2>7, <2>8
<1>2. CASE ~front
  <2>1. r = Append(q, t)
    BY <1>2 DEF Pushed
  <2>2. /\ Len(r) = Len(q) + 1
        /\ r[Len(q) + 1] = t
        /\ \A i \in 1 .. Len(q) : r[i] = q[i]
    <3> HIDE DEF r
    <3> QED BY <2>1, AppendProperties
  <2> HIDE DEF r
  <2>3. 1 .. Len(r) = (1 .. Len(q)) \union {Len(q) + 1}
    BY <2>2, LenProperties
  <2>4. \A i \in 1 .. Len(q) : q[i] # t
    BY DEF Elements
  <2>5. Distinct(r)
    BY <2>2, <2>3, <2>4 DEF Distinct
  <2> QED BY <2>5 DEF r
<1> QED BY <1>1, <1>2

(* pop_front of a queue without duplicates removes exactly its head. *)
LEMMA PoppedProperties ==
  ASSUME NEW S, NEW q \in Seq(S), q # <<>>, Distinct(q)
  PROVE  /\ Head(q) \in Elements(q)
         /\ Head(q) \in S
         /\ Tail(q) \in Seq(S)
         /\ Len(Tail(q)) = Len(q) - 1
         /\ Len(q) \in Nat \ {0}
         /\ Elements(Tail(q)) = Elements(q) \ {Head(q)}
         /\ Distinct(Tail(q))
<1>1. Len(q) \in Nat \ {0}
  BY EmptySeq
<1>2. /\ Head(q) \in S
      /\ Tail(q) \in Seq(S)
      /\ Len(Tail(q)) = Len(q) - 1
      /\ \A i \in 1 .. Len(Tail(q)) : Tail(q)[i] = q[i + 1]
  BY HeadTailProperties
<1>3. Head(q) = q[1]
  OBVIOUS
<1>4. Head(q) \in Elements(q)
  BY <1>1, <1>3 DEF Elements
<1> DEFINE r == Tail(q)
           h == Head(q)
<1>5. /\ Len(r) = Len(q) - 1
      /\ \A i \in 1 .. Len(r) : r[i] = q[i + 1]
      /\ h = q[1]
  BY <1>2, <1>3
<1> HIDE DEF r, h
<1>6. Elements(r) = Elements(q) \ {h}
  <2>1. ASSUME NEW i \in 1 .. Len(r) PROVE r[i] \in Elements(q) /\ r[i] # h
    <3>1. i + 1 \in 1 .. Len(q) /\ 1 \in 1 .. Len(q) /\ i + 1 # 1
      BY <1>1, <1>5
    <3> QED BY <3>1, <1>5 DEF Elements, Distinct
  <2>2. ASSUME NEW j \in 1 .. Len(q), q[j] # h PROVE q[j] \in Elements(r)
    <3>1. j - 1 \in 1 .. Len(r) /\ r[j - 1] = q[j]
      BY <2>2, <1>1, <1>5
    <3> QED BY <3>1 DEF Elements
  <2> QED BY <2>1, <2>2 DEF Elements
<1>7. Distinct(r)
  <2>1. \A i \in 1 .. Len(r) : i + 1 \in 1 .. Len(q)
    BY <1>1, <1>5
  <2>2. ASSUME NEW i \in 1 .. Len(r), NEW j \in 1 .. Len(r), r[i] = r[j] PROVE i = j
    <3>1. q[i + 1] = q[j + 1]
      BY <2>2, <1>5
    <3>2. i + 1 = j + 1
      BY <3>1, <2>1 DEF Distinct
    <3> QED BY <3>2, <1>1, <1>5
  <2> QED BY <2>2 DEF Distinct
<1> QED BY <1>1, <1>2, <1>4, <1>6, <1>7 DEF r, h

-----------------------------------------------------------------------------
(* The element a fold takes next, and the recursive function the sum of the *)
(* community modules is defined by: iter holds the sum over every subset.   *)
Pick(s) == CHOOSE x \in s : TRUE
Sums(iter, f, S) ==
  iter = [s \in SUBSET S |-> IF s = {} THEN 0 ELSE f[Pick(s)] + iter[s \ {Pick(s)}]]

(* What SumFunctionOnSet unfolds to.                                        *)
LEMMA SumUnfold ==
  ASSUME NEW f, NEW S
  PROVE  SumFunctionOnSet(f, S) = (CHOOSE iter : Sums(iter, f, S))[S]
  BY DEF SumFunctionOnSet, FoldFunctionOnSet, MapThenFoldSet, Sums, Pick

(* The element taken is one of the set.                                     *)
LEMMA PickMember == ASSUME NEW s, s # {} PROVE Pick(s) \in s
  BY DEF Pick

(* A set of subsets of a finite set has a member with no other one inside.  *)
(* It stands for induction over the subsets: the least counterexample.      *)
LEMMA MinimalSubset ==
  ASSUME NEW S, IsFiniteSet(S), NEW B, B \subseteq SUBSET S, B # {}
  PROVE  \E T \in B : \A U \in B : U \subseteq T => U = T
<1>1. B \subseteq FiniteSubsetsOf(S)
  BY FS_Subset DEF FiniteSubsetsOf
<1>2. IsWellFoundedOn(StrictSubsetOrdering(S), FiniteSubsetsOf(S))
  BY FS_StrictSubsetOrderingWellFounded
<1>3. PICK T \in B : \A U \in B : ~ (<<U, T>> \in StrictSubsetOrdering(S))
  BY <1>1, <1>2, WFMin
<1> QED BY <1>3 DEF StrictSubsetOrdering

(* One step of the recursion.                                               *)
LEMMA SumsStep ==
  ASSUME NEW iter, NEW f, NEW S, Sums(iter, f, S), NEW s, s \subseteq S
  PROVE  /\ s = {} => iter[s] = 0
         /\ s # {} => iter[s] = f[Pick(s)] + iter[s \ {Pick(s)}]
  BY DEF Sums

(* Two such functions agree on every set on which the values do, whatever   *)
(* the sets they are defined over.                                          *)
LEMMA SumsAgree ==
  ASSUME NEW f, NEW S, NEW fs, Sums(fs, f, S),
         NEW g, NEW T, NEW gs, Sums(gs, g, T),
         NEW U, IsFiniteSet(U), U \subseteq S, U \subseteq T,
         \A x \in U : f[x] = g[x]
  PROVE  fs[U] = gs[U]
<1> DEFINE B == {s \in SUBSET U : fs[s] # gs[s]}
<1>1. SUFFICES ASSUME B # {} PROVE FALSE
  OBVIOUS
<1>2. PICK s \in B : \A u \in B : u \subseteq s => u = s
  <2> B \subseteq SUBSET U
    OBVIOUS
  <2> HIDE DEF B
  <2> QED BY <1>1, MinimalSubset
<1>a. s \subseteq S /\ s \subseteq T
  OBVIOUS
<1>3. s # {}
  BY <1>a, SumsStep
<1>4. Pick(s) \in s
  BY <1>3, PickMember
<1>5. fs[s \ {Pick(s)}] = gs[s \ {Pick(s)}]
  BY <1>2, <1>4
<1>6. fs[s] = f[Pick(s)] + fs[s \ {Pick(s)}] /\ gs[s] = g[Pick(s)] + gs[s \ {Pick(s)}]
  BY <1>a, <1>3, SumsStep
<1> QED BY <1>4, <1>5, <1>6

(* There is such a function.                                                *)
LEMMA SumsExist ==
  ASSUME NEW f, NEW S, IsFiniteSet(S)
  PROVE  \E iter : Sums(iter, f, S)
<1> DEFINE B == {s \in SUBSET S : ~ \E iter : Sums(iter, f, s)}
<1>1. SUFFICES ASSUME B # {} PROVE FALSE
  OBVIOUS
<1>2. PICK s \in B : \A u \in B : u \subseteq s => u = s
  <2> B \subseteq SUBSET S
    OBVIOUS
  <2> HIDE DEF B
  <2> QED BY <1>1, MinimalSubset
<1> DEFINE Part(u) == CHOOSE iter : Sums(iter, f, u)
           new == [u \in SUBSET s |-> IF u = {} THEN 0 ELSE f[Pick(u)] + Part(u \ {Pick(u)})[u \ {Pick(u)}]]
<1>3. ASSUME NEW u \in SUBSET s, u # s PROVE Sums(Part(u), f, u) /\ IsFiniteSet(u)
  <2>1. \E iter : Sums(iter, f, u)
    BY <1>2, <1>3
  <2>2. IsFiniteSet(u)
    BY FS_Subset
  <2> QED BY <2>1, <2>2
<1>4. ASSUME NEW u \in SUBSET s, u # s PROVE new[u] = Part(u)[u]
  <2> HIDE DEF Part
  <2>1. CASE u = {}
    BY <1>3, <1>4, <2>1, SumsStep
  <2>2. CASE u # {}
    <3> DEFINE v == u \ {Pick(u)}
    <3>1. v \in SUBSET s /\ v # s /\ v \subseteq u
      BY <2>2, PickMember
    <3>2. Part(v)[v] = Part(u)[v]
      <4> HIDE DEF v
      <4> QED BY <1>3, <1>4, <3>1, SumsAgree
    <3>3. Part(u)[u] = f[Pick(u)] + Part(u)[v]
      BY <1>3, <1>4, <2>2, SumsStep
    <3> QED BY <2>2, <3>2, <3>3
  <2> QED BY <2>1, <2>2
<1>5. \A u \in SUBSET s : u # {} => u \ {Pick(u)} \in SUBSET s /\ u \ {Pick(u)} # s
  BY PickMember
<1>6. Sums(new, f, s)
  <2>1. \A u \in SUBSET s : new[u] = IF u = {} THEN 0 ELSE f[Pick(u)] + new[u \ {Pick(u)}]
    <3> HIDE DEF Part
    <3> QED BY <1>4, <1>5
  <2>2. new = [u \in SUBSET s |-> new[u]]
    OBVIOUS
  <2> HIDE DEF new
  <2> QED BY <2>1, <2>2 DEF Sums
<1> QED BY <1>2, <1>6

(* One function gives the sums over all subsets of S.                       *)
LEMMA SumIter ==
  ASSUME NEW f, NEW S, IsFiniteSet(S)
  PROVE  \E iter : /\ Sums(iter, f, S)
                   /\ \A s \in SUBSET S : SumFunctionOnSet(f, s) = iter[s]
<1> DEFINE It(s) == CHOOSE iter : Sums(iter, f, s)
<1>1. \A s \in SUBSET S : Sums(It(s), f, s) /\ IsFiniteSet(s)
  <2>1. ASSUME NEW s \in SUBSET S PROVE IsFiniteSet(s) /\ \E iter : Sums(iter, f, s)
    BY FS_Subset, SumsExist
  <2> QED BY <2>1
<1>2. \A s \in SUBSET S : It(s)[s] = SumFunctionOnSet(f, s)
  BY SumUnfold
<1> HIDE DEF It
<1>3. \A s \in SUBSET S : It(s)[s] = It(S)[s]
  BY <1>1, SumsAgree
<1> QED BY <1>1, <1>2, <1>3

(* The sum over no index.                                                   *)
LEMMA SumEmpty == ASSUME NEW f PROVE SumFunctionOnSet(f, {}) = 0
<1>1. PICK iter : Sums(iter, f, {}) /\ SumFunctionOnSet(f, {}) = iter[{}]
  BY SumIter, FS_EmptySet
<1> QED BY <1>1, SumsStep

(* The sum does not depend on the values outside the index set.             *)
LEMMA SumAgree ==
  ASSUME NEW f, NEW g, NEW S, IsFiniteSet(S), \A x \in S : f[x] = g[x]
  PROVE  SumFunctionOnSet(f, S) = SumFunctionOnSet(g, S)
<1>1. PICK fs : Sums(fs, f, S) /\ SumFunctionOnSet(f, S) = fs[S]
  BY SumIter
<1>2. PICK gs : Sums(gs, g, S) /\ SumFunctionOnSet(g, S) = gs[S]
  BY SumIter
<1> QED BY <1>1, <1>2, SumsAgree

(* Any element can be taken out of the sum, in whatever order.              *)
LEMMA SumPick ==
  ASSUME NEW f, NEW S, IsFiniteSet(S), \A x \in S : f[x] \in Int
  PROVE  /\ SumFunctionOnSet(f, S) \in Int
         /\ \A x \in S : SumFunctionOnSet(f, S) = f[x] + SumFunctionOnSet(f, S \ {x})
<1>1. PICK iter : Sums(iter, f, S) /\ \A s \in SUBSET S : SumFunctionOnSet(f, s) = iter[s]
  BY SumIter
<1> DEFINE Good(s) == iter[s] \in Int /\ \A x \in s : iter[s] = f[x] + iter[s \ {x}]
           B == {s \in SUBSET S : ~ Good(s)}
<1>2. SUFFICES ASSUME B # {} PROVE FALSE
  <2>1. SUFFICES ASSUME Good(S) PROVE /\ SumFunctionOnSet(f, S) \in Int
                                      /\ \A x \in S : SumFunctionOnSet(f, S) = f[x] + SumFunctionOnSet(f, S \ {x})
    OBVIOUS
  <2>2. SumFunctionOnSet(f, S) = iter[S] /\ \A x \in S : SumFunctionOnSet(f, S \ {x}) = iter[S \ {x}]
    BY <1>1
  <2> QED BY <2>1, <2>2
<1>3. PICK s \in B : \A u \in B : u \subseteq s => u = s
  <2> B \subseteq SUBSET S
    OBVIOUS
  <2> HIDE DEF B
  <2> QED BY <1>2, MinimalSubset
<1>4. \A u \in SUBSET s : u # s => Good(u)
  BY <1>3
<1>5. s # {}
  BY <1>1, SumsStep
<1> DEFINE p == Pick(s)
<1>6. p \in s
  BY <1>5, PickMember
<1>7. iter[s] = f[p] + iter[s \ {p}]
  BY <1>1, <1>5, SumsStep
<1> HIDE DEF p
<1>8. iter[s] \in Int
  BY <1>4, <1>6, <1>7
<1>9. ASSUME NEW x \in s PROVE iter[s] = f[x] + iter[s \ {x}]
  <2>1. CASE x = p
    BY <1>7, <2>1
  <2>2. CASE x # p
    <3>1. iter[s \ {p}] = f[x] + iter[(s \ {p}) \ {x}]
      BY <1>4, <1>6, <2>2
    <3>2. iter[s \ {x}] = f[p] + iter[(s \ {x}) \ {p}]
      BY <1>4, <1>6, <2>2
    <3>3. (s \ {x}) \ {p} = (s \ {p}) \ {x}
      OBVIOUS
    <3>4. (s \ {p}) \ {x} \in SUBSET s /\ (s \ {p}) \ {x} # s
      OBVIOUS
    <3>5. iter[(s \ {p}) \ {x}] \in Int
      BY <1>4, <3>4
    <3>6. f[x] \in Int /\ f[p] \in Int
      BY <1>6
    <3> DEFINE r == iter[(s \ {p}) \ {x}]
    <3>7. /\ iter[s] = f[p] + iter[s \ {p}]
          /\ iter[s \ {p}] = f[x] + r
          /\ iter[s \ {x}] = f[p] + r
      BY <1>7, <3>1, <3>2, <3>3
    <3>8. f[p] + (f[x] + r) = f[x] + (f[p] + r)
      <4> HIDE DEF r
      <4>1. r \in Int
        BY <3>5 DEF r
      <4> QED BY <4>1, <3>6
    <3> QED BY <3>7, <3>8
  <2> QED BY <2>1, <2>2
<1> QED BY <1>3, <1>8, <1>9

(* On the index set S the two functions agree, except perhaps at x.         *)
DifferAt(f, g, S, x) ==
  /\ x \in S
  /\ \A y \in S : f[y] \in Int /\ g[y] \in Int
  /\ \A y \in S \ {x} : g[y] = f[y]

(* The value at one index changes.                                          *)
LEMMA SumChange ==
  ASSUME NEW S, IsFiniteSet(S), NEW f, NEW g, NEW x, DifferAt(f, g, S, x)
  PROVE  /\ SumFunctionOnSet(f, S) \in Int
         /\ SumFunctionOnSet(g, S) = SumFunctionOnSet(f, S) - f[x] + g[x]
<1>0. /\ x \in S
      /\ \A y \in S : f[y] \in Int /\ g[y] \in Int
      /\ \A y \in S \ {x} : g[y] = f[y]
  BY DEF DifferAt
<1>1. SumFunctionOnSet(f, S) \in Int /\ SumFunctionOnSet(f, S) = f[x] + SumFunctionOnSet(f, S \ {x})
  BY <1>0, SumPick
<1>2. SumFunctionOnSet(g, S) = g[x] + SumFunctionOnSet(g, S \ {x})
  BY <1>0, SumPick
<1>3. IsFiniteSet(S \ {x})
  BY FS_RemoveElement
<1>4. SumFunctionOnSet(f, S \ {x}) \in Int
  BY <1>0, <1>3, SumPick
<1>5. SumFunctionOnSet(g, S \ {x}) = SumFunctionOnSet(f, S \ {x})
  BY <1>0, <1>3, SumAgree
<1> QED BY <1>0, <1>1, <1>2, <1>4, <1>5

(* The value of a function at one argument changes.                         *)
LEMMA SumFunctionChange ==
  ASSUME NEW S, IsFiniteSet(S), NEW f \in [S -> Int], NEW g \in [S -> Int], NEW x \in S,
         \A y \in S \ {x} : g[y] = f[y]
  PROVE  /\ SumFunction(f) \in Int
         /\ SumFunction(g) = SumFunction(f) - f[x] + g[x]
<1>1. DifferAt(f, g, S, x)
  BY DEF DifferAt
<1>2. DOMAIN f = S /\ DOMAIN g = S
  OBVIOUS
<1> QED BY <1>1, <1>2, SumChange DEF SumFunction

(* Zeros add up to zero.                                                    *)
LEMMA SumZero ==
  ASSUME NEW S, IsFiniteSet(S), NEW f, \A x \in S : f[x] = 0
  PROVE  SumFunctionOnSet(f, S) = 0
<1> DEFINE B == {s \in SUBSET S : SumFunctionOnSet(f, s) # 0}
<1>1. SUFFICES ASSUME B # {} PROVE FALSE
  OBVIOUS
<1>2. PICK s \in B : \A u \in B : u \subseteq s => u = s
  <2> B \subseteq SUBSET S
    OBVIOUS
  <2> HIDE DEF B
  <2> QED BY <1>1, MinimalSubset
<1>3. PICK x \in s : TRUE
  BY SumEmpty
<1>4. SumFunctionOnSet(f, s) = f[x] + SumFunctionOnSet(f, s \ {x})
  <2>1. IsFiniteSet(s) /\ \A y \in s : f[y] \in Int
    BY FS_Subset
  <2> QED BY <2>1, SumPick
<1>5. SumFunctionOnSet(f, s \ {x}) = 0
  BY <1>2
<1> QED BY <1>3, <1>4, <1>5
=============================================================================
