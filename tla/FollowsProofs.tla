----------------------------- MODULE FollowsProofs -----------------------------
(***************************************************************************)
(* The Redis set of a follower agrees with MySQL, and no counter loses a   *)
(* follow but to an edit of the profile that overlaps it, for every number *)
(* of users, threads, overlapping clicks and failures.  Nothing in the     *)
(* code orders the two writes of overlapping transactions; what keeps them *)
(* apart is the lock that an unfollow takes on the whole table.            *)
(***************************************************************************)
EXTENDS Blogs, FiniteSetTheorems, WellFoundedInduction, TLAPS

-----------------------------------------------------------------------------
(* Sums.  The library defines the sum of a function over a set as a fold   *)
(* with a recursive function; that it exists, and that the order in which  *)
(* it takes the elements does not matter, is proved here.                  *)

Less == {p \in Nat \X Nat : p[1] < p[2]}

\* A set of natural numbers that is not empty has a least element.  Every
\* induction below is a use of it: the least counterexample.
LEMMA NatMin ==
  ASSUME NEW T, T \subseteq Nat, T # {}
  PROVE  \E n \in T : \A m \in T : n =< m
<1>1. IsWellFoundedOn(Less, Nat)
  BY NatLessThanWellFounded DEF Less, OpToRel
<1>2. PICK n \in T : \A m \in T : ~(<<m, n>> \in Less)
  BY <1>1, WFMin
<1>3. ASSUME NEW m \in T PROVE n =< m
  <2>1. <<m, n>> \notin Less /\ m \in Nat /\ n \in Nat
    BY <1>2
  <2>2. ~(m < n)
    BY <2>1 DEF Less
  <2>. QED
    BY <2>1, <2>2
<1>. QED
  BY <1>2, <1>3

\* The fold that sums f over S is a function on the subsets of S.
IsFold(iter, f, S) ==
  iter = [s \in SUBSET S |->
            IF s = {} THEN 0
            ELSE LET x == CHOOSE x \in s : TRUE IN f[x] + iter[s \ {x}]]

FoldOf(f, S) == CHOOSE iter : IsFold(iter, f, S)

LEMMA SumIsFold ==
  ASSUME NEW f, NEW S
  PROVE  SumFunctionOnSet(f, S) = FoldOf(f, S)[S]
BY DEF SumFunctionOnSet, FoldFunctionOnSet, MapThenFoldSet, FoldOf, IsFold

Small(S, n) == {s \in SUBSET S : Cardinality(s) =< n}

Pick(s) == CHOOSE x \in s : TRUE

\* The fold up to subsets of n elements.
IsFoldTo(iter, f, S, n) ==
  iter = [s \in Small(S, n) |->
            IF s = {} THEN 0 ELSE f[Pick(s)] + iter[s \ {Pick(s)}]]

LEMMA Smaller ==
  ASSUME NEW S, IsFiniteSet(S), NEW s \in SUBSET S, s # {}
  PROVE  /\ Pick(s) \in s
         /\ s \ {Pick(s)} \in SUBSET S
         /\ Cardinality(s) \in Nat
         /\ Cardinality(s \ {Pick(s)}) = Cardinality(s) - 1
         /\ Cardinality(s) > 0
<1>1. IsFiniteSet(s)
  BY FS_Subset
<1>2. Pick(s) \in s
  BY DEF Pick
<1>3. Cardinality(s) \in Nat /\ Cardinality(s) # 0
  BY <1>1, FS_CardinalityType, FS_EmptySet
<1>4. Cardinality(s \ {Pick(s)}) = Cardinality(s) - 1
  BY <1>1, <1>2, FS_RemoveElement
<1>. QED
  BY <1>2, <1>3, <1>4

LEMMA FoldGrows ==
  ASSUME NEW f, NEW S, IsFiniteSet(S), NEW n \in Nat, NEW g, IsFoldTo(g, f, S, n)
  PROVE  \E h : IsFoldTo(h, f, S, n + 1)
<1>. DEFINE R(s) == IF s = {} THEN 0 ELSE f[Pick(s)] + g[s \ {Pick(s)}]
            h == [s \in Small(S, n + 1) |-> R(s)]
<1>1. \A s \in Small(S, n) : g[s] = R(s)
  BY DEF IsFoldTo
<1>2. \A s \in Small(S, n + 1) : s # {} => s \ {Pick(s)} \in Small(S, n)
  BY Smaller DEF Small
<1>3. \A s \in Small(S, n) : s \in Small(S, n + 1)
  <2>. SUFFICES ASSUME NEW s \in Small(S, n)
                PROVE  s \in Small(S, n + 1)
    OBVIOUS
  <2>1. Cardinality(s) \in Nat
    BY FS_Subset, FS_CardinalityType DEF Small
  <2>. QED
    BY <2>1 DEF Small
<1>4. \A s \in Small(S, n) : h[s] = g[s]
  BY <1>1, <1>3
<1>5. \A s \in Small(S, n + 1) :
        R(s) = IF s = {} THEN 0 ELSE f[Pick(s)] + h[s \ {Pick(s)}]
  BY <1>2, <1>4
<1>6. h = [s \in Small(S, n + 1) |->
             IF s = {} THEN 0 ELSE f[Pick(s)] + h[s \ {Pick(s)}]]
  BY <1>5
<1>. QED
  BY <1>6 DEF IsFoldTo

LEMMA FoldToExists ==
  ASSUME NEW f, NEW S, IsFiniteSet(S)
  PROVE  \A n \in Nat : \E g : IsFoldTo(g, f, S, n)
<1>. DEFINE T == {n \in Nat : ~ \E g : IsFoldTo(g, f, S, n)}
<1>1. 0 \notin T
  <2>. DEFINE g == [s \in Small(S, 0) |-> 0]
  <2>1. \A s \in Small(S, 0) : s = {}
    <3>. SUFFICES ASSUME NEW s \in Small(S, 0), s # {}
                  PROVE  FALSE
      OBVIOUS
    <3>1. s \in SUBSET S /\ Cardinality(s) =< 0
      BY DEF Small
    <3>2. Cardinality(s) \in Nat /\ Cardinality(s) > 0
      BY <3>1, Smaller
    <3>. QED
      BY <3>1, <3>2
  <2>2. g = [s \in Small(S, 0) |-> IF s = {} THEN 0 ELSE f[Pick(s)] + g[s \ {Pick(s)}]]
    BY <2>1
  <2>3. IsFoldTo(g, f, S, 0)
    BY <2>2 DEF IsFoldTo
  <2>. QED
    BY <2>3
<1>2. ASSUME T # {} PROVE FALSE
  <2>1. PICK n \in T : \A m \in T : n =< m
    <3>1. T \subseteq Nat
      OBVIOUS
    <3>. HIDE DEF T
    <3>. QED
      BY <1>2, <3>1, NatMin
  <2>2. n \in Nat /\ n # 0 /\ n - 1 \in Nat /\ n - 1 \notin T
    BY <1>1, <2>1
  <2>3. PICK g : IsFoldTo(g, f, S, n - 1)
    BY <2>2
  <2>4. \E h : IsFoldTo(h, f, S, (n - 1) + 1)
    BY <2>2, <2>3, FoldGrows
  <2>5. (n - 1) + 1 = n
    BY <2>2
  <2>. QED
    BY <2>1, <2>4, <2>5
<1>. QED
  BY <1>2

\* The fold exists, and so it is what its definition says.
LEMMA FoldIsFold ==
  ASSUME NEW f, NEW S, IsFiniteSet(S)
  PROVE  IsFold(FoldOf(f, S), f, S)
<1>1. Cardinality(S) \in Nat
  BY FS_CardinalityType
<1>2. PICK g : IsFoldTo(g, f, S, Cardinality(S))
  BY <1>1, FoldToExists
<1>3. Small(S, Cardinality(S)) = SUBSET S
  BY FS_Subset DEF Small
<1>4. IsFold(g, f, S)
  BY <1>2, <1>3 DEF IsFold, IsFoldTo, Pick
<1>. QED
  BY <1>4 DEF FoldOf

\* A fold, one element at a time.
LEMMA FoldStep ==
  ASSUME NEW f, NEW S, IsFiniteSet(S), NEW s \in SUBSET S
  PROVE  FoldOf(f, S)[s] = IF s = {} THEN 0 ELSE f[Pick(s)] + FoldOf(f, S)[s \ {Pick(s)}]
<1>. DEFINE iter == FoldOf(f, S)
<1>1. IsFold(iter, f, S)
  BY FoldIsFold
<1>. HIDE DEF iter
<1>2. iter[s] = IF s = {} THEN 0 ELSE f[Pick(s)] + iter[s \ {Pick(s)}]
  BY <1>1 DEF IsFold, Pick
<1>. QED
  BY <1>2 DEF iter

\* Folds over two sets agree on the subsets of both.
LEMMA FoldsAgree ==
  ASSUME NEW f, NEW S, IsFiniteSet(S), NEW T \in SUBSET S
  PROVE  \A s \in SUBSET T : FoldOf(f, T)[s] = FoldOf(f, S)[s]
<1>. DEFINE B == {n \in Nat : \E s \in SUBSET T :
                    Cardinality(s) = n /\ FoldOf(f, T)[s] # FoldOf(f, S)[s]}
<1>0. IsFiniteSet(T) /\ \A s \in SUBSET T : s \in SUBSET S
  BY FS_Subset
<1>1. ASSUME B # {} PROVE FALSE
  <2>1. PICK n \in B : \A m \in B : n =< m
    <3>1. B \subseteq Nat
      OBVIOUS
    <3>. HIDE DEF B
    <3>. QED
      BY <1>1, <3>1, NatMin
  <2>2. PICK s \in SUBSET T : Cardinality(s) = n /\ FoldOf(f, T)[s] # FoldOf(f, S)[s]
    BY <2>1
  <2>3. s # {}
    <3>1. s = {} => FoldOf(f, T)[s] = 0 /\ FoldOf(f, S)[s] = 0
      BY <1>0, FoldStep
    <3>. QED
      BY <2>2, <3>1
  <2>4. s \ {Pick(s)} \in SUBSET T /\ Cardinality(s \ {Pick(s)}) = n - 1 /\ n - 1 \in Nat
    BY <1>0, <2>2, <2>3, Smaller
  <2>5. n - 1 \notin B
    BY <2>1, <2>4
  <2>6. FoldOf(f, T)[s \ {Pick(s)}] = FoldOf(f, S)[s \ {Pick(s)}]
    BY <2>4, <2>5
  <2>7. /\ FoldOf(f, T)[s] = f[Pick(s)] + FoldOf(f, T)[s \ {Pick(s)}]
        /\ FoldOf(f, S)[s] = f[Pick(s)] + FoldOf(f, S)[s \ {Pick(s)}]
    BY <1>0, <2>3, FoldStep
  <2>. QED
    BY <2>2, <2>6, <2>7
<1>2. \A s \in SUBSET T : Cardinality(s) \in Nat
  BY <1>0, FS_Subset, FS_CardinalityType
<1>. QED
  BY <1>1, <1>2

\* A sum, one element at a time: the element that the definition picks,
LEMMA SumPicks ==
  ASSUME NEW f, NEW S, IsFiniteSet(S)
  PROVE  SumFunctionOnSet(f, S) =
           IF S = {} THEN 0 ELSE f[Pick(S)] + SumFunctionOnSet(f, S \ {Pick(S)})
<1>1. CASE S = {}
  BY <1>1, SumIsFold, FoldStep
<1>2. CASE S # {}
  <2>. DEFINE T == S \ {Pick(S)}
  <2>1. FoldOf(f, S)[S] = f[Pick(S)] + FoldOf(f, S)[T]
    BY <1>2, FoldStep
  <2>2. FoldOf(f, T)[T] = FoldOf(f, S)[T]
    BY FoldsAgree
  <2>. QED
    BY <1>2, <2>1, <2>2, SumIsFold
<1>. QED
  BY <1>1, <1>2

LEMMA SumEmpty == ASSUME NEW f PROVE SumFunctionOnSet(f, {}) = 0
BY SumPicks, FS_EmptySet

\* The sum of natural numbers is one,
LEMMA SumNat ==
  ASSUME NEW f, NEW S, IsFiniteSet(S), \A x \in S : f[x] \in Nat
  PROVE  SumFunctionOnSet(f, S) \in Nat
<1>. DEFINE Sum(s) == SumFunctionOnSet(f, s)
            B == {n \in Nat : \E s \in SUBSET S : Cardinality(s) = n /\ Sum(s) \notin Nat}
<1>1. ASSUME B # {} PROVE FALSE
  <2>1. PICK n \in B : \A m \in B : n =< m
    <3>1. B \subseteq Nat
      OBVIOUS
    <3>. HIDE DEF B
    <3>. QED
      BY <1>1, <3>1, NatMin
  <2>2. PICK s \in SUBSET S : Cardinality(s) = n /\ Sum(s) \notin Nat
    BY <2>1
  <2>3. IsFiniteSet(s)
    BY FS_Subset
  <2>4. s # {}
    BY <2>2, SumEmpty
  <2>5. /\ s \ {Pick(s)} \in SUBSET S /\ Cardinality(s \ {Pick(s)}) = n - 1 /\ n - 1 \in Nat
        /\ Pick(s) \in S
    <3>1. Pick(s) \in s
      BY <2>4, Smaller
    <3>2. Cardinality(s \ {Pick(s)}) = n - 1 /\ n > 0
      BY <2>2, <2>4, Smaller
    <3>. QED
      BY <2>1, <3>1, <3>2
  <2>6. Sum(s \ {Pick(s)}) \in Nat
    BY <2>1, <2>5
  <2>7. Sum(s) = f[Pick(s)] + Sum(s \ {Pick(s)})
    BY <2>3, <2>4, SumPicks
  <2>. QED
    BY <2>2, <2>5, <2>6, <2>7
<1>. QED
  BY <1>1, FS_CardinalityType

\* And any element may be taken out of it.
LEMMA SumSplit ==
  ASSUME NEW f, NEW S, IsFiniteSet(S), \A x \in S : f[x] \in Nat, NEW x \in S
  PROVE  SumFunctionOnSet(f, S) = f[x] + SumFunctionOnSet(f, S \ {x})
<1>. DEFINE Sum(s) == SumFunctionOnSet(f, s)
            B == {n \in Nat : \E s \in SUBSET S : \E y \in s :
                    Cardinality(s) = n /\ Sum(s) # f[y] + Sum(s \ {y})}
<1>1. ASSUME B # {} PROVE FALSE
  <2>1. PICK n \in B : \A m \in B : n =< m
    <3>1. B \subseteq Nat
      OBVIOUS
    <3>. HIDE DEF B
    <3>. QED
      BY <1>1, <3>1, NatMin
  <2>a. PICK s \in SUBSET S : \E y \in s :
          Cardinality(s) = n /\ Sum(s) # f[y] + Sum(s \ {y})
    BY <2>1
  <2>2. PICK y \in s : Cardinality(s) = n /\ Sum(s) # f[y] + Sum(s \ {y})
    BY <2>a
  <2>. DEFINE z == Pick(s)
  <2>3. IsFiniteSet(s) /\ s # {}
    BY FS_Subset
  <2>4. z \in s /\ Sum(s) = f[z] + Sum(s \ {z})
    BY <2>3, SumPicks, Smaller
  <2>5. y # z
    BY <2>2, <2>4
  <2>6. /\ Cardinality(s \ {z}) = n - 1 /\ Cardinality(s \ {y}) = n - 1 /\ n - 1 \in Nat
        /\ n - 1 \notin B
    <3>1. Cardinality(s \ {z}) = n - 1 /\ n - 1 \in Nat
      BY <2>2, <2>3, Smaller
    <3>2. Cardinality(s \ {y}) = n - 1
      BY <2>2, <2>3, FS_RemoveElement
    <3>3. n - 1 \notin B
      BY <2>1, <3>1
    <3>. QED
      BY <3>1, <3>2, <3>3
  <2>7. Sum(s \ {z}) = f[y] + Sum((s \ {z}) \ {y})
    <3>1. s \ {z} \in SUBSET S /\ y \in s \ {z}
      BY <2>5
    <3>. HIDE DEF z
    <3>. QED
      BY <2>6, <3>1
  <2>8. Sum(s \ {y}) = f[z] + Sum((s \ {y}) \ {z})
    <3>1. s \ {y} \in SUBSET S /\ z \in s \ {y}
      BY <2>4, <2>5
    <3>. HIDE DEF z
    <3>. QED
      BY <2>6, <3>1
  <2>. DEFINE rest == (s \ {y}) \ {z}
  <2>9. rest = (s \ {z}) \ {y} /\ rest \in SUBSET S
    OBVIOUS
  <2>10. Sum(rest) \in Nat
    BY <2>9, SumNat, FS_Subset
  <2>11. f[y] \in Nat /\ f[z] \in Nat
    BY <2>2, <2>4
  <2>12. Sum(s) = f[z] + (f[y] + Sum(rest)) /\ Sum(s \ {y}) = f[z] + Sum(rest)
    BY <2>4, <2>7, <2>8, <2>9
  <2>. HIDE DEF rest, z, B, Sum
  <2>13. Sum(s) # f[y] + Sum(s \ {y})
    BY <2>2
  <2>. QED
    BY <2>10, <2>11, <2>12, <2>13
<1>. QED
  BY <1>1, FS_CardinalityType

\* Functions that agree on a set have the same sum there.
LEMMA SumSame ==
  ASSUME NEW f, NEW g, NEW S, IsFiniteSet(S), \A x \in S : f[x] = g[x]
  PROVE  SumFunctionOnSet(f, S) = SumFunctionOnSet(g, S)
<1>. DEFINE B == {n \in Nat : \E s \in SUBSET S :
              Cardinality(s) = n /\ SumFunctionOnSet(f, s) # SumFunctionOnSet(g, s)}
<1>1. ASSUME B # {} PROVE FALSE
  <2>1. PICK n \in B : \A m \in B : n =< m
    <3>1. B \subseteq Nat
      OBVIOUS
    <3>. HIDE DEF B
    <3>. QED
      BY <1>1, <3>1, NatMin
  <2>2. PICK s \in SUBSET S :
          Cardinality(s) = n /\ SumFunctionOnSet(f, s) # SumFunctionOnSet(g, s)
    BY <2>1
  <2>3. IsFiniteSet(s)
    BY FS_Subset
  <2>4. s # {}
    BY <2>2, SumEmpty
  <2>5. /\ s \ {Pick(s)} \in SUBSET S /\ Cardinality(s \ {Pick(s)}) = n - 1 /\ n - 1 \in Nat
        /\ Pick(s) \in S
    <3>1. Pick(s) \in s
      BY <2>4, Smaller
    <3>2. Cardinality(s \ {Pick(s)}) = n - 1 /\ n > 0
      BY <2>2, <2>4, Smaller
    <3>. QED
      BY <2>1, <3>1, <3>2
  <2>6. SumFunctionOnSet(f, s \ {Pick(s)}) = SumFunctionOnSet(g, s \ {Pick(s)})
    BY <2>1, <2>5
  <2>7. /\ SumFunctionOnSet(f, s) = f[Pick(s)] + SumFunctionOnSet(f, s \ {Pick(s)})
        /\ SumFunctionOnSet(g, s) = g[Pick(s)] + SumFunctionOnSet(g, s \ {Pick(s)})
    BY <2>3, <2>4, SumPicks
  <2>. QED
    BY <2>2, <2>5, <2>6, <2>7
<1>. QED
  BY <1>1, FS_CardinalityType

\* The sum of nothing but zeros.
LEMMA SumZero ==
  ASSUME NEW f, NEW S, IsFiniteSet(S), \A x \in S : f[x] = 0
  PROVE  SumFunctionOnSet(f, S) = 0
<1>. DEFINE B == {n \in Nat : \E s \in SUBSET S :
                    Cardinality(s) = n /\ SumFunctionOnSet(f, s) # 0}
<1>1. ASSUME B # {} PROVE FALSE
  <2>1. PICK n \in B : \A m \in B : n =< m
    <3>1. B \subseteq Nat
      OBVIOUS
    <3>. HIDE DEF B
    <3>. QED
      BY <1>1, <3>1, NatMin
  <2>2. PICK s \in SUBSET S : Cardinality(s) = n /\ SumFunctionOnSet(f, s) # 0
    BY <2>1
  <2>3. IsFiniteSet(s)
    BY FS_Subset
  <2>4. s # {}
    BY <2>2, SumEmpty
  <2>5. /\ s \ {Pick(s)} \in SUBSET S /\ Cardinality(s \ {Pick(s)}) = n - 1 /\ n - 1 \in Nat
        /\ Pick(s) \in S
    <3>1. Pick(s) \in s
      BY <2>4, Smaller
    <3>2. Cardinality(s \ {Pick(s)}) = n - 1 /\ n > 0
      BY <2>2, <2>4, Smaller
    <3>. QED
      BY <2>1, <3>1, <3>2
  <2>6. SumFunctionOnSet(f, s \ {Pick(s)}) = 0
    BY <2>1, <2>5
  <2>7. SumFunctionOnSet(f, s) = f[Pick(s)] + SumFunctionOnSet(f, s \ {Pick(s)})
    BY <2>3, <2>4, SumPicks
  <2>. QED
    BY <2>2, <2>5, <2>6, <2>7
<1>. QED
  BY <1>1, FS_CardinalityType

\* A change of one value changes the sum by as much.
LEMMA SumChange ==
  ASSUME NEW f, NEW g, NEW S, IsFiniteSet(S), NEW x \in S,
         \A y \in S : f[y] \in Nat /\ g[y] \in Nat,
         \A y \in S : y # x => g[y] = f[y]
  PROVE  /\ SumFunctionOnSet(f, S) \in Nat
         /\ SumFunctionOnSet(g, S) \in Nat
         /\ SumFunctionOnSet(g, S) + f[x] = SumFunctionOnSet(f, S) + g[x]
<1>1. IsFiniteSet(S \ {x})
  BY FS_RemoveElement
<1>2. /\ SumFunctionOnSet(f, S) = f[x] + SumFunctionOnSet(f, S \ {x})
      /\ SumFunctionOnSet(g, S) = g[x] + SumFunctionOnSet(g, S \ {x})
  BY SumSplit
<1>3. SumFunctionOnSet(f, S \ {x}) = SumFunctionOnSet(g, S \ {x})
  BY <1>1, SumSame
<1>4. /\ SumFunctionOnSet(f, S) \in Nat
      /\ SumFunctionOnSet(g, S) \in Nat
      /\ SumFunctionOnSet(f, S \ {x}) \in Nat
  BY <1>1, SumNat
<1>. QED
  BY <1>2, <1>3, <1>4

-----------------------------------------------------------------------------
(* Rows and the set                                                        *)

Ops == {"follow", "unfollow"}

\* A transaction under way has a pair to work on.
TxShape ==
  \A t \in Threads : tx[t].pc # "idle" => tx[t].op \in Ops /\ Pair(t) \in Pairs

\* An unfollow that has removed its rows is alone among the writers.
Exclusive ==
  \A s, t \in Threads :
    s # t /\ Written(s) /\ Written(t) => tx[s].op = "follow" /\ tx[t].op = "follow"

Committing(p) == \E t \in Threads : tx[t].pc = "commit" /\ Pair(t) = p

InSet(p) == p[2] \in follows[p[1]]

\* What a transaction told Redis still stands when it commits.
ToldRedis ==
  \A t \in Threads : tx[t].pc = "commit" => (InSet(Pair(t)) <=> tx[t].op = "follow")

Agree == \A p \in Pairs \ torn : ~Committing(p) => (InSet(p) <=> rows[p] > 0)

FollowsInv == FollowsTypeOK /\ TxShape /\ Exclusive /\ ToldRedis /\ Agree

TxType == [pc : TxPcs, op : {"none"} \cup Ops, user : Users \cup {None},
           target : Users \cup {None}, seen : SUBSET Users, locked : SUBSET Users]

LEMMA PairParts ==
  ASSUME FollowsTypeOK, TxShape, NEW t \in Threads, tx[t].pc # "idle"
  PROVE  tx[t].user \in Users /\ tx[t].target \in Users /\ tx[t].op \in Ops
BY DEF TxShape, Pair, Pairs

LEMMA InitFollows ==
  ASSUME FollowsInit
  PROVE  FollowsInv
<1>1. FollowsTypeOK
  BY FollowsAssumption DEF FollowsInit, FollowsTypeOK, Idle, Edits, TxPcs
<1>2. TxShape /\ Exclusive /\ ToldRedis
  BY DEF FollowsInit, TxShape, Exclusive, ToldRedis, Written, Idle
<1>3. Agree
  BY DEF FollowsInit, Agree, InSet, Pairs
<1>. QED
  BY <1>1, <1>2, <1>3 DEF FollowsInv

\* A step of one thread that writes neither a row nor the set.  "next" is
\* where it goes: on, or back to rest without having reached its commit.
LEMMA QuietStep ==
  ASSUME FollowsInv, NEW t \in Threads, NEW next \in TxType,
         tx' = [tx EXCEPT ![t] = next],
         UNCHANGED <<store, editVars, follows, torn>>,
         requests' \in Nat, faults' \in Nat,
         tx[t].pc # "commit", next.pc # "commit",
         next.pc # "idle" => next.op \in Ops /\ <<next.user, next.target>> \in Pairs,
         next.pc \notin {"idle", "write"} =>
           \/ Written(t) /\ next.op = tx[t].op
           \/ \A s \in Threads \ {t} :
                Written(s) => tx[s].op = "follow" /\ next.op = "follow"
  PROVE  FollowsInv'
<1>. USE DEF FollowsInv
<1>0. tx \in [Threads -> TxType]
  BY DEF FollowsTypeOK, TxType, Ops
<1>1. tx'[t] = next /\ \A s \in Threads : s # t => tx'[s] = tx[s]
  BY <1>0
<1>2. FollowsTypeOK'
  <2>1. tx' \in [Threads -> TxType]
    BY <1>0
  <2>. QED
    BY <2>1 DEF FollowsTypeOK, TxType, Ops, store, editVars
<1>3. TxShape'
  BY <1>1 DEF TxShape, Pair
<1>4. Exclusive'
  BY <1>1 DEF Exclusive, Written
<1>5. ToldRedis'
  BY <1>1 DEF ToldRedis, Pair, InSet
<1>6. Agree'
  <2>1. \A p \in Pairs : Committing(p) <=> Committing(p)'
    BY <1>1 DEF Committing, Pair
  <2>. QED
    BY <2>1 DEF Agree, InSet, store
<1>. QED
  BY <1>2, <1>3, <1>4, <1>5, <1>6

\* The set is written for one pair; those who write at the same time follow.
LEMMA WriteSetStep ==
  ASSUME FollowsInv, NEW t \in Threads, WriteSet(t)
  PROVE  FollowsInv'
<1>. USE DEF FollowsInv, WriteSet, At
<1>0. tx \in [Threads -> TxType] /\ tx[t].pc = "redis" /\ follows \in [Users -> SUBSET Users]
  BY DEF FollowsTypeOK, TxType, Ops
<1>1. /\ tx'[t] = [tx[t] EXCEPT !.pc = "commit"]
      /\ \A s \in Threads : s # t => tx'[s] = tx[s]
  BY <1>0
<1>2. tx[t].user \in Users /\ tx[t].target \in Users /\ tx[t].op \in Ops /\ Pair(t) \in Pairs
  BY <1>0, PairParts DEF TxShape
<1>3. \A s \in Threads : Pair(s)' = Pair(s) /\ tx'[s].op = tx[s].op
  BY <1>0, <1>1 DEF Pair, TxType
<1>4. FollowsTypeOK'
  <2>1. tx' \in [Threads -> TxType]
    BY <1>0 DEF TxType, TxPcs
  <2>2. follows' \in [Users -> SUBSET Users]
    BY <1>0, <1>2
  <2>. QED
    BY <2>1, <2>2 DEF FollowsTypeOK, TxType, Ops, store, editVars
<1>5. TxShape'
  BY <1>0, <1>1, <1>2, <1>3 DEF TxShape
<1>6. \A s \in Threads : Written(s)' <=> Written(s)
  BY <1>0, <1>1 DEF Written, TxType
<1>7. Exclusive'
  BY <1>3, <1>6 DEF Exclusive
<1>8. InSet(Pair(t))' <=> tx[t].op = "follow"
  BY <1>0, <1>2, <1>3 DEF InSet, Pair, Ops
<1>9. \A p \in Pairs : p # Pair(t) => (InSet(p)' <=> InSet(p))
  BY <1>0, <1>2 DEF InSet, Pair, Pairs
<1>10. ToldRedis'
  <2>. SUFFICES ASSUME NEW s \in Threads, tx'[s].pc = "commit"
                PROVE  InSet(Pair(s))' <=> tx'[s].op = "follow"
    BY DEF ToldRedis
  <2>1. CASE s = t
    BY <1>3, <1>8, <2>1 DEF InSet
  <2>2. CASE s # t /\ Pair(s) = Pair(t)
    <3>1. Written(s) /\ Written(t)
      BY <1>0, <1>1, <2>2 DEF Written
    <3>2. tx[s].op = "follow" /\ tx[t].op = "follow"
      BY <2>2, <3>1 DEF Exclusive
    <3>. QED
      BY <1>3, <1>8, <2>2, <3>2 DEF InSet
  <2>3. CASE s # t /\ Pair(s) # Pair(t)
    <3>1. tx[s].pc = "commit" /\ Pair(s) \in Pairs
      BY <1>1, <2>3 DEF TxShape
    <3>2. InSet(Pair(s)) <=> tx[s].op = "follow"
      BY <3>1 DEF ToldRedis
    <3>3. PICK p \in Pairs : p = Pair(s)
      BY <3>1
    <3>4. InSet(p)' <=> InSet(p)
      BY <1>9, <2>3, <3>3
    <3>. QED
      BY <1>3, <3>2, <3>3, <3>4 DEF InSet
  <2>. QED
    BY <2>1, <2>2, <2>3
<1>11. Agree'
  <2>. SUFFICES ASSUME NEW p \in Pairs, p \notin torn, ~Committing(p)'
                PROVE  InSet(p)' <=> rows'[p] > 0
    BY DEF Agree
  <2>1. p # Pair(t)
    BY <1>0, <1>1, <1>3 DEF Committing, TxType
  <2>2. ~Committing(p)
    BY <1>0, <1>1, <1>3, <2>1 DEF Committing
  <2>. QED
    BY <1>9, <2>1, <2>2 DEF Agree, store
<1>. QED
  BY <1>4, <1>5, <1>7, <1>10, <1>11

\* A transaction ends, with or without its rows.
LEMMA EndStep ==
  ASSUME FollowsInv, NEW t \in Threads, tx[t].pc = "commit",
         tx' = [tx EXCEPT ![t] = Idle],
         FollowsTypeOK', UNCHANGED follows,
         \A p \in Pairs : p # Pair(t) => rows'[p] = rows[p],
         \/ Pair(t) \in torn' /\ torn \subseteq torn'
         \/ torn' = torn \ {Pair(t)} /\ (rows'[Pair(t)] > 0 <=> tx[t].op = "follow")
  PROVE  FollowsInv'
<1>. USE DEF FollowsInv
<1>0. tx \in [Threads -> TxType]
  BY DEF FollowsTypeOK, TxType, Ops
<1>1. tx'[t] = Idle /\ \A s \in Threads : s # t => tx'[s] = tx[s]
  BY <1>0
<1>2. \A s \in Threads : tx'[s].pc # "idle" => s # t /\ Pair(s)' = Pair(s)
  BY <1>1 DEF Idle, Pair
<1>3. TxShape'
  BY <1>1, <1>2 DEF TxShape
<1>4. Exclusive'
  BY <1>1, <1>2 DEF Exclusive, Written
<1>5. ToldRedis'
  BY <1>1, <1>2 DEF ToldRedis, InSet
<1>6. Agree'
  <2>. SUFFICES ASSUME NEW p \in Pairs, p \notin torn', ~Committing(p)'
                PROVE  InSet(p)' <=> rows'[p] > 0
    BY DEF Agree
  <2>1. InSet(p)' <=> InSet(p)
    BY DEF InSet
  <2>2. CASE p = Pair(t)
    <3>1. rows'[p] > 0 <=> tx[t].op = "follow"
      BY <2>2
    <3>2. InSet(p) <=> tx[t].op = "follow"
      BY <2>2 DEF ToldRedis
    <3>. QED
      BY <2>1, <3>1, <3>2
  <2>3. CASE p # Pair(t)
    <3>1. p \notin torn
      BY <2>3
    <3>2. ~Committing(p)
      BY <1>1, <1>2, <2>3 DEF Committing, Pair
    <3>. QED
      BY <2>1, <2>3, <3>1, <3>2 DEF Agree
  <2>. QED
    BY <2>2, <2>3
<1>. QED
  BY <1>3, <1>4, <1>5, <1>6

LEMMA CommitStep ==
  ASSUME FollowsInv, NEW t \in Threads, Commit(t)
  PROVE  FollowsInv'
<1>. USE DEF FollowsInv, Commit
<1>0. tx \in [Threads -> TxType] /\ rows \in [Pairs -> Nat]
  BY DEF FollowsTypeOK, TxType, Ops
<1>1. tx[t].user \in Users /\ tx[t].target \in Users /\ tx[t].op \in Ops /\ Pair(t) \in Pairs
  BY PairParts DEF TxShape
<1>2. Idle \in TxType
  BY DEF Idle, TxType, TxPcs
<1>3. FollowsTypeOK'
  <2>1. tx' \in [Threads -> TxType]
    BY <1>0, <1>2
  <2>2. rows' \in [Pairs -> Nat]
    BY <1>0, <1>1
  <2>3. fans' \in [Users -> Nat] /\ followee' \in [Users -> Nat]
    BY <1>1 DEF FollowsTypeOK, Decremented
  <2>4. missed' \in [Users -> Nat]
    BY DEF FollowsTypeOK, CountMissed
  <2>. QED
    BY <1>1, <2>1, <2>2, <2>3, <2>4 DEF FollowsTypeOK, TxType, Ops
<1>4. \A p \in Pairs : p # Pair(t) => rows'[p] = rows[p]
  BY <1>0
<1>5. rows'[Pair(t)] > 0 <=> tx[t].op = "follow"
  BY <1>0, <1>1
<1>. QED
  BY <1>3, <1>4, <1>5, EndStep

LEMMA RollBackStep ==
  ASSUME FollowsInv, NEW t \in Threads, RollBack(t), faults' \in Nat, tx[t] # Idle
  PROVE  FollowsInv'
<1>. USE DEF RollBack
<1>1. Idle \in TxType /\ tx \in [Threads -> TxType]
  BY DEF Idle, TxType, TxPcs, FollowsInv, FollowsTypeOK, Ops
<1>2. CASE tx[t].pc = "commit"
  <2>1. Pair(t) \in Pairs
    BY <1>2 DEF FollowsInv, TxShape
  <2>2. FollowsTypeOK'
    <3>1. tx' \in [Threads -> TxType]
      BY <1>1
    <3>. QED
      BY <1>2, <2>1, <3>1 DEF FollowsInv, FollowsTypeOK, TxType, Ops, store, editVars
  <2>. QED
    BY <1>2, <2>2, EndStep DEF store
<1>3. CASE tx[t].pc # "commit"
  BY <1>1, <1>3, QuietStep DEF Idle, FollowsInv, FollowsTypeOK
<1>. QED
  BY <1>2, <1>3

\* A profile edit touches neither rows nor the set, nor a transaction.
LEMMA EditStep ==
  ASSUME FollowsInv, FollowsTypeOK', UNCHANGED <<rows, follows, tx, torn>>
  PROVE  FollowsInv'
BY DEF FollowsInv, TxShape, Exclusive, ToldRedis, Agree, Committing, InSet, Pair, Written

LEMMA EditSteps ==
  ASSUME FollowsInv, NEW t \in Threads,
         \/ \E u \in Users : ReadInfo(t, u)
         \/ SaveInfo(t)
         \/ Fail(t) /\ ~RollBack(t)
  PROVE  FollowsInv'
<1>0. /\ edit \in [Threads -> Edits] /\ infos \subseteq Users
      /\ fans \in [Users -> Nat] /\ followee \in [Users -> Nat]
      /\ requests \in Nat /\ faults \in Nat
      /\ NoEdit \in Edits
  BY DEF FollowsInv, FollowsTypeOK, Edits
<1>1. UNCHANGED <<rows, follows, tx, torn, missed>>
  BY DEF ReadInfo, SaveInfo, Fail, store
<1>2. ASSUME NEW u \in Users, ReadInfo(t, u) PROVE FollowsTypeOK'
  <2>. DEFINE next == IF u \in infos
       THEN [user |-> u, found |-> TRUE, fans |-> fans[u], followee |-> followee[u]]
       ELSE [NoEdit EXCEPT !.user = u]
  <2>1. next \in Edits
    BY <1>0 DEF Edits, NoEdit
  <2>2. edit' = [edit EXCEPT ![t] = next] /\ requests' = requests + 1
        /\ UNCHANGED <<store, faults>>
    BY <1>2 DEF ReadInfo
  <2>. HIDE DEF next
  <2>3. edit' \in [Threads -> Edits] /\ requests' \in Nat
    BY <1>0, <2>1, <2>2
  <2>. QED
    BY <1>1, <2>2, <2>3 DEF FollowsInv, FollowsTypeOK, Edits, store
<1>3. ASSUME SaveInfo(t) PROVE FollowsTypeOK'
  <2>. DEFINE u == edit[t].user
  <2>1. u \in Users /\ edit[t] \in Edits \ {NoEdit}
    BY <1>0, <1>3 DEF SaveInfo, Edits
  <2>2. edit' \in [Threads -> Edits] /\ infos' \subseteq Users
    BY <1>0, <1>3, <2>1 DEF SaveInfo
  <2>3. fans' \in [Users -> Nat] /\ followee' \in [Users -> Nat]
    BY <1>0, <1>3, <2>1 DEF SaveInfo, Edits
  <2>. QED
    BY <1>1, <1>3, <2>2, <2>3 DEF SaveInfo, FollowsInv, FollowsTypeOK, Edits
<1>4. ASSUME Fail(t), ~RollBack(t) PROVE FollowsTypeOK'
  <2>1. edit' = [edit EXCEPT ![t] = NoEdit] /\ faults' = faults + 1
        /\ UNCHANGED <<store, requests>>
    BY <1>4 DEF Fail
  <2>2. edit' \in [Threads -> Edits] /\ faults' \in Nat
    BY <1>0, <2>1
  <2>. QED
    BY <1>1, <2>1, <2>2 DEF FollowsInv, FollowsTypeOK, Edits, store
<1>. QED
  BY <1>1, <1>2, <1>3, <1>4, EditStep

LEMMA FollowsStep ==
  ASSUME FollowsInv, FollowsNext
  PROVE  FollowsInv'
<1>. PICK t \in Threads :
    \/ \E op \in Ops, p \in Pairs : Begin(t, op, p[1], p[2])
    \/ Write(t)
    \/ EnsureUserInfo(t, "infoOwn", tx[t].user, "infoTarget")
    \/ EnsureUserInfo(t, "infoTarget", tx[t].target, "own")
    \/ LockInfo(t, "own", tx[t].user, "target")
    \/ LockInfo(t, "target", tx[t].target, "redis")
    \/ WriteSet(t)
    \/ Commit(t)
    \/ Fail(t)
    \/ Deadlocked(t)
    \/ \E u \in Users : ReadInfo(t, u)
    \/ SaveInfo(t)
  BY DEF FollowsNext, Ops
<1>0. /\ tx \in [Threads -> TxType] /\ infos \subseteq Users
      /\ requests \in Nat /\ faults \in Nat
      /\ Idle \in TxType
  BY DEF FollowsInv, FollowsTypeOK, TxType, Ops, Idle, TxPcs
<1>p. tx[t].pc # "idle" =>
        /\ tx[t].user \in Users /\ tx[t].target \in Users /\ tx[t].op \in Ops
        /\ <<tx[t].user, tx[t].target>> \in Pairs
  BY PairParts DEF FollowsInv, TxShape, Pair
<1>1. CASE \E op \in Ops, p \in Pairs : Begin(t, op, p[1], p[2])
  <2>. PICK op \in Ops, p \in Pairs : Begin(t, op, p[1], p[2])
    BY <1>1
  <2>. DEFINE next == [pc |-> "write", op |-> op, user |-> p[1], target |-> p[2],
                       seen |-> infos, locked |-> {}]
  <2>1. next \in TxType /\ <<p[1], p[2]>> \in Pairs
    BY <1>0 DEF TxType, TxPcs, Pairs
  <2>2. next.pc = "write" /\ next.op = op /\ next.user = p[1] /\ next.target = p[2]
    OBVIOUS
  <2>3. tx' = [tx EXCEPT ![t] = next] /\ tx[t].pc = "idle"
    BY DEF Begin, Idle
  <2>4. UNCHANGED <<store, editVars, follows, torn>> /\ requests' \in Nat /\ faults' \in Nat
    BY <1>0 DEF Begin
  <2>. HIDE DEF next
  <2>. QED
    BY <2>1, <2>2, <2>3, <2>4, QuietStep
<1>2. ASSUME NEW pc \in TxPcs \ {"idle", "write", "commit"},
             NEW to \in TxPcs \ {"idle", "write", "commit"},
             NEW more \in SUBSET Users,
             tx[t].pc = pc,
             tx' = [tx EXCEPT ![t].pc = to, ![t].locked = @ \cup more],
             UNCHANGED <<store, editVars, follows, torn, requests, faults>>
      PROVE  FollowsInv'
  <2>. DEFINE next == [tx[t] EXCEPT !.pc = to, !.locked = @ \cup more]
  <2>1. next \in TxType /\ tx' = [tx EXCEPT ![t] = next]
    BY <1>0, <1>2 DEF TxType
  <2>2. next.pc = to /\ next.op = tx[t].op /\ next.user = tx[t].user /\ next.target = tx[t].target
    BY <1>0, <1>2 DEF TxType
  <2>3. Written(t)
    BY <1>2 DEF Written
  <2>. HIDE DEF next
  <2>. QED
    BY <1>0, <1>2, <1>p, <2>1, <2>2, <2>3, QuietStep
<1>3. ASSUME tx[t].pc \notin {"idle", "commit"}, tx' = [tx EXCEPT ![t] = Idle],
             UNCHANGED <<store, editVars, follows, torn, requests, faults>>
      PROVE  FollowsInv'
  BY <1>0, <1>3, QuietStep DEF Idle
<1>4. CASE Write(t)
  <2>1. ASSUME NEW to \in {"infoOwn", "own"}, At(t, "write", to)
        PROVE  FollowsInv'
    <3>. DEFINE next == [tx[t] EXCEPT !.pc = to]
    <3>1. next \in TxType /\ tx' = [tx EXCEPT ![t] = next] /\ tx[t].pc = "write"
      BY <1>0, <2>1 DEF TxType, TxPcs, At
    <3>2. next.pc = to /\ next.op = tx[t].op /\ next.user = tx[t].user
            /\ next.target = tx[t].target
      BY <1>0 DEF TxType
    <3>3. \A s \in Threads \ {t} : Written(s) => tx[s].op = "follow" /\ tx[t].op = "follow"
      BY <1>4, <1>p, <3>1 DEF Write, Free, Blocks, FollowsInv, TxShape, Written, Ops
    <3>. HIDE DEF next
    <3>. QED
      BY <1>0, <1>4, <1>p, <3>1, <3>2, <3>3, QuietStep DEF Write
  <2>. QED
    BY <1>3, <1>4, <2>1 DEF Write
<1>5. CASE \/ EnsureUserInfo(t, "infoOwn", tx[t].user, "infoTarget")
           \/ EnsureUserInfo(t, "infoTarget", tx[t].target, "own")
           \/ LockInfo(t, "own", tx[t].user, "target")
           \/ LockInfo(t, "target", tx[t].target, "redis")
  <2>. PICK pc \in {"infoOwn", "infoTarget", "own", "target"},
            to \in {"infoTarget", "own", "target", "redis"},
            who \in Users :
              EnsureUserInfo(t, pc, who, to) \/ LockInfo(t, pc, who, to)
    BY <1>5, <1>p DEF EnsureUserInfo, LockInfo, At
  <2>1. tx[t].pc = pc /\ UNCHANGED <<store, editVars, follows, torn, requests, faults>>
    BY DEF EnsureUserInfo, LockInfo, At
  <2>2. \/ tx' = [tx EXCEPT ![t].pc = to]
        \/ tx' = [tx EXCEPT ![t].pc = to, ![t].locked = @ \cup {who}]
        \/ tx' = [tx EXCEPT ![t] = Idle]
    BY DEF EnsureUserInfo, LockInfo, At
  <2>3. tx' = [tx EXCEPT ![t].pc = to]
          => tx' = [tx EXCEPT ![t].pc = to, ![t].locked = @ \cup {}]
    <3>1. tx[t].locked \cup {} = tx[t].locked
      OBVIOUS
    <3>. QED
      BY <3>1
  <2>4. \A more \in SUBSET Users :
          tx' = [tx EXCEPT ![t].pc = to, ![t].locked = @ \cup more] => FollowsInv'
    BY <1>2, <2>1 DEF TxPcs
  <2>5. {who} \in SUBSET Users /\ {} \in SUBSET Users
    OBVIOUS
  <2>. QED
    BY <1>3, <2>1, <2>2, <2>3, <2>4, <2>5
<1>6. CASE Fail(t) /\ RollBack(t)
  <2>1. tx[t] # Idle
    <3>1. tx[t] = Idle => edit[t] # NoEdit /\ edit' = [edit EXCEPT ![t] = NoEdit]
      BY <1>6 DEF Fail
    <3>2. edit \in [Threads -> Edits] /\ edit' = edit
      BY <1>6 DEF RollBack, editVars, FollowsInv, FollowsTypeOK
    <3>. QED
      BY <3>1, <3>2
  <2>. QED
    BY <1>0, <1>6, <2>1, RollBackStep DEF Fail
<1>8. CASE (\E u \in Users : ReadInfo(t, u)) \/ SaveInfo(t) \/ (Fail(t) /\ ~RollBack(t))
  BY <1>8, EditSteps
<1>7. CASE Deadlocked(t)
  <2>1. tx[t].pc # "idle"
    BY <1>7 DEF Deadlocked, Blocks
  <2>2. tx[t] # Idle
    BY <2>1 DEF Idle
  <2>. QED
    BY <1>0, <1>7, <2>2, RollBackStep DEF Deadlocked
<1>. QED
  BY <1>1, <1>4, <1>5, <1>6, <1>7, <1>8, WriteSetStep, CommitStep

-----------------------------------------------------------------------------
(* Rows and the counters                                                   *)

\* An unfollow that has removed rows will find one to count.
RowsToRemove ==
  \A t \in Threads : Written(t) /\ tx[t].op = "unfollow" => rows[Pair(t)] > 0

OutOf(u) == {p \in Pairs : p[1] = u}
Into(u)  == {p \in Pairs : p[2] = u}

\* What an edit will write back covers the rows but for the follows that it
\* has missed since it read.
EditsCover ==
  \A t \in Threads : edit[t].found =>
    LET u == edit[t].user IN
      /\ edit[t].followee + missed[u] >= SumFunctionOnSet(rows, OutOf(u))
      /\ edit[t].fans + missed[u] >= SumFunctionOnSet(rows, Into(u))

CountersInv == FollowsInv /\ RowsToRemove /\ CountersNotBelowRows /\ EditsCover

LEMMA PairsFinite ==
  /\ IsFiniteSet(Pairs)
  /\ \A u : IsFiniteSet(OutOf(u)) /\ IsFiniteSet(Into(u))
<1>1. IsFiniteSet(Users \X Users)
  BY FS_Product, FollowsAssumption
<1>2. Pairs \in SUBSET (Users \X Users)
  BY DEF Pairs
<1>3. IsFiniteSet(Pairs)
  BY <1>1, <1>2, FS_Subset
<1>4. \A u : OutOf(u) \in SUBSET Pairs /\ Into(u) \in SUBSET Pairs
  BY DEF OutOf, Into
<1>. QED
  BY <1>3, <1>4, FS_Subset

\* The sum of a set follows the change of one of its pairs.
LEMMA SumFollows ==
  ASSUME NEW f \in [Pairs -> Nat], NEW g \in [Pairs -> Nat], NEW p \in Pairs,
         \A q \in Pairs : q # p => g[q] = f[q],
         NEW S \in SUBSET Pairs, p \in S
  PROVE  /\ SumFunctionOnSet(f, S) \in Nat
         /\ SumFunctionOnSet(g, S) \in Nat
         /\ SumFunctionOnSet(g, S) + f[p] = SumFunctionOnSet(f, S) + g[p]
BY PairsFinite, FS_Subset, SumChange

\* The sum does not see a change of a pair outside of its set.
LEMMA SumElsewhere ==
  ASSUME NEW f \in [Pairs -> Nat], NEW g \in [Pairs -> Nat], NEW p \in Pairs,
         \A q \in Pairs : q # p => g[q] = f[q],
         NEW S \in SUBSET Pairs, p \notin S
  PROVE  SumFunctionOnSet(g, S) = SumFunctionOnSet(f, S)
BY PairsFinite, FS_Subset, SumSame

LEMMA CountersCommit ==
  ASSUME CountersInv, NEW t \in Threads, Commit(t)
  PROVE  RowsToRemove' /\ CountersNotBelowRows' /\ EditsCover'
<1>. DEFINE u == tx[t].user
            v == tx[t].target
            p == Pair(t)
<1>1. /\ tx \in [Threads -> TxType] /\ rows \in [Pairs -> Nat]
      /\ followee \in [Users -> Nat] /\ fans \in [Users -> Nat]
      /\ tx[t].pc = "commit"
  BY DEF CountersInv, FollowsInv, FollowsTypeOK, TxType, Ops, Commit
<1>2. u \in Users /\ v \in Users /\ tx[t].op \in Ops /\ p \in Pairs /\ p[1] = u /\ p[2] = v
  BY <1>1, PairParts DEF CountersInv, FollowsInv, TxShape, Pair
<1>3. /\ rows' = [rows EXCEPT ![p] = IF tx[t].op = "follow" THEN @ + 1 ELSE 0]
      /\ followee' = [followee EXCEPT ![u] =
           IF tx[t].op = "follow" THEN @ + 1 ELSE Decremented(@)]
      /\ fans' = [fans EXCEPT ![v] =
           IF tx[t].op = "follow" THEN @ + 1 ELSE Decremented(@)]
      /\ tx' = [tx EXCEPT ![t] = Idle]
  BY DEF Commit
<1>4. Written(t) /\ (tx[t].op = "unfollow" => rows[p] > 0)
  BY <1>1 DEF Written, CountersInv, RowsToRemove
<1>5. RowsToRemove'
  <2>. SUFFICES ASSUME NEW s \in Threads, Written(s)', tx'[s].op = "unfollow"
                PROVE  rows'[Pair(s)'] > 0
    BY DEF RowsToRemove
  <2>1. s # t /\ tx'[s] = tx[s]
    BY <1>1, <1>3 DEF Written, Idle
  <2>2. Written(s) /\ tx[s].op = "unfollow"
    BY <2>1 DEF Written
  <2>. QED
    BY <1>4, <2>1, <2>2 DEF CountersInv, FollowsInv, Exclusive
<1>6. rows' \in [Pairs -> Nat] /\ \A q \in Pairs : q # p => rows'[q] = rows[q]
  BY <1>1, <1>2, <1>3
<1>7. rows'[p] = IF tx[t].op = "follow" THEN rows[p] + 1 ELSE 0
  BY <1>1, <1>2, <1>3
<1>8. /\ \A w \in Users : w # u => followee'[w] = followee[w]
      /\ followee'[u] = IF tx[t].op = "follow" THEN followee[u] + 1 ELSE Decremented(followee[u])
      /\ \A w \in Users : w # v => fans'[w] = fans[w]
      /\ fans'[v] = IF tx[t].op = "follow" THEN fans[v] + 1 ELSE Decremented(fans[v])
  BY <1>1, <1>2, <1>3
<1>9. \A w \in Users : /\ followee[w] + missed[w] >= SumFunctionOnSet(rows, OutOf(w))
                       /\ fans[w] + missed[w] >= SumFunctionOnSet(rows, Into(w))
  BY DEF CountersInv, CountersNotBelowRows, OutOf, Into
<1>10. /\ \A w \in Users : /\ followee'[w] \in Nat /\ fans'[w] \in Nat
                           /\ followee[w] \in Nat /\ fans[w] \in Nat
       /\ \A w \in Users : OutOf(w) \in SUBSET Pairs /\ Into(w) \in SUBSET Pairs
  BY <1>1, <1>2, <1>3 DEF Decremented, OutOf, Into
<1>11. \A w \in Users : (p \in OutOf(w) <=> w = u) /\ (p \in Into(w) <=> w = v)
  BY <1>2 DEF OutOf, Into
<1>12. \/ /\ tx[t].op = "follow" /\ rows'[p] = rows[p] + 1
          /\ followee'[u] = followee[u] + 1 /\ fans'[v] = fans[v] + 1
       \/ /\ rows'[p] = 0 /\ rows[p] > 0
          /\ followee'[u] = Decremented(followee[u]) /\ fans'[v] = Decremented(fans[v])
  BY <1>2, <1>4, <1>7, <1>8 DEF Ops
<1>13. /\ \A w \in Users : /\ missed[w] \in Nat /\ missed'[w] \in Nat
                           /\ missed'[w] >= missed[w]
       /\ \A w \in {u, v} : tx[t].op = "follow" /\ WillWriteBack(w)
            => missed'[w] = missed[w] + 1
       /\ edit' = edit /\ edit \in [Threads -> Edits]
  <2>1. missed \in [Users -> Nat] /\ edit \in [Threads -> Edits]
    BY DEF CountersInv, FollowsInv, FollowsTypeOK
  <2>. QED
    BY <1>2, <2>1 DEF Commit, CountMissed
<1>. HIDE DEF p, u, v
\* The two sums of a user, before and after.
<1>14. ASSUME NEW w \in Users
       PROVE  /\ SumFunctionOnSet(rows, OutOf(w)) \in Nat
              /\ SumFunctionOnSet(rows', OutOf(w)) \in Nat
              /\ w # u => SumFunctionOnSet(rows', OutOf(w)) = SumFunctionOnSet(rows, OutOf(w))
              /\ w = u => SumFunctionOnSet(rows', OutOf(w)) + rows[p]
                            = SumFunctionOnSet(rows, OutOf(w)) + rows'[p]
  <2>. DEFINE S == OutOf(w)
  <2>1. S \in SUBSET Pairs /\ IsFiniteSet(S) /\ (p \in S <=> w = u)
    BY <1>10, <1>11, PairsFinite
  <2>. HIDE DEF S
  <2>2. SumFunctionOnSet(rows, S) \in Nat /\ SumFunctionOnSet(rows', S) \in Nat
    BY <1>1, <1>6, <2>1, SumNat
  <2>3. w # u => SumFunctionOnSet(rows', S) = SumFunctionOnSet(rows, S)
    BY <1>1, <1>2, <1>6, <2>1, SumElsewhere
  <2>4. w = u => SumFunctionOnSet(rows', S) + rows[p] = SumFunctionOnSet(rows, S) + rows'[p]
    BY <1>1, <1>2, <1>6, <2>1, SumFollows
  <2>. QED
    BY <2>2, <2>3, <2>4 DEF S
<1>15. ASSUME NEW w \in Users
       PROVE  /\ SumFunctionOnSet(rows, Into(w)) \in Nat
              /\ SumFunctionOnSet(rows', Into(w)) \in Nat
              /\ w # v => SumFunctionOnSet(rows', Into(w)) = SumFunctionOnSet(rows, Into(w))
              /\ w = v => SumFunctionOnSet(rows', Into(w)) + rows[p]
                            = SumFunctionOnSet(rows, Into(w)) + rows'[p]
  <2>. DEFINE S == Into(w)
  <2>1. S \in SUBSET Pairs /\ IsFiniteSet(S) /\ (p \in S <=> w = v)
    BY <1>10, <1>11, PairsFinite
  <2>. HIDE DEF S
  <2>2. SumFunctionOnSet(rows, S) \in Nat /\ SumFunctionOnSet(rows', S) \in Nat
    BY <1>1, <1>6, <2>1, SumNat
  <2>3. w # v => SumFunctionOnSet(rows', S) = SumFunctionOnSet(rows, S)
    BY <1>1, <1>2, <1>6, <2>1, SumElsewhere
  <2>4. w = v => SumFunctionOnSet(rows', S) + rows[p] = SumFunctionOnSet(rows, S) + rows'[p]
    BY <1>1, <1>2, <1>6, <2>1, SumFollows
  <2>. QED
    BY <2>2, <2>3, <2>4 DEF S
<1>16. rows[p] \in Nat /\ rows'[p] \in Nat
  BY <1>1, <1>2, <1>6
<1>17. CountersNotBelowRows'
  <2>. SUFFICES ASSUME NEW w \in Users
                PROVE  /\ followee'[w] + missed'[w] >= SumFunctionOnSet(rows', OutOf(w))
                       /\ fans'[w] + missed'[w] >= SumFunctionOnSet(rows', Into(w))
    BY DEF CountersNotBelowRows, OutOf, Into
  <2>1. followee'[w] + missed'[w] >= SumFunctionOnSet(rows', OutOf(w))
    BY <1>8, <1>9, <1>10, <1>12, <1>13, <1>14, <1>16 DEF Decremented
  <2>2. fans'[w] + missed'[w] >= SumFunctionOnSet(rows', Into(w))
    BY <1>8, <1>9, <1>10, <1>12, <1>13, <1>15, <1>16 DEF Decremented
  <2>. QED
    BY <2>1, <2>2
<1>18. EditsCover'
  <2>. SUFFICES ASSUME NEW s \in Threads, edit[s].found
                PROVE  LET w == edit[s].user IN
                         /\ edit[s].followee + missed'[w] >= SumFunctionOnSet(rows', OutOf(w))
                         /\ edit[s].fans + missed'[w] >= SumFunctionOnSet(rows', Into(w))
    BY <1>13 DEF EditsCover, OutOf, Into
  <2>. DEFINE w == edit[s].user
              n == edit[s].followee
              m == edit[s].fans
  <2>1. w \in Users /\ n \in Nat /\ m \in Nat /\ WillWriteBack(w)
    BY <1>13 DEF Edits, NoEdit, WillWriteBack
  <2>2. /\ n + missed[w] >= SumFunctionOnSet(rows, OutOf(w))
        /\ m + missed[w] >= SumFunctionOnSet(rows, Into(w))
    BY DEF CountersInv, EditsCover
  <2>. HIDE DEF w, n, m
  <2>3. n + missed'[w] >= SumFunctionOnSet(rows', OutOf(w))
    BY <1>12, <1>13, <1>14, <1>16, <2>1, <2>2
  <2>4. m + missed'[w] >= SumFunctionOnSet(rows', Into(w))
    BY <1>12, <1>13, <1>15, <1>16, <2>1, <2>2
  <2>. QED
    BY <2>3, <2>4 DEF w, n, m
<1>. QED
  BY <1>5, <1>17, <1>18

\* What an edit reads is covered, and so is what it writes back.
LEMMA CountersEdit ==
  ASSUME CountersInv, UNCHANGED <<rows, missed>>,
         \/ UNCHANGED <<edit, fans, followee>>
         \/ \E t \in Threads :
              \/ \E u \in Users : ReadInfo(t, u)
              \/ SaveInfo(t)
              \/ edit' = [edit EXCEPT ![t] = NoEdit] /\ UNCHANGED <<fans, followee>>
  PROVE  CountersNotBelowRows' /\ EditsCover'
<1>0. /\ edit \in [Threads -> Edits]
      /\ fans \in [Users -> Nat] /\ followee \in [Users -> Nat]
  BY DEF CountersInv, FollowsInv, FollowsTypeOK
<1>1. \A u \in Users : /\ followee[u] + missed[u] >= SumFunctionOnSet(rows, OutOf(u))
                       /\ fans[u] + missed[u] >= SumFunctionOnSet(rows, Into(u))
  BY DEF CountersInv, CountersNotBelowRows, OutOf, Into
<1>2. CASE UNCHANGED <<edit, fans, followee>>
  BY <1>2 DEF CountersInv, CountersNotBelowRows, EditsCover, OutOf, Into
<1>. DEFINE Covers(e) == e.found =>
       /\ e.followee + missed[e.user] >= SumFunctionOnSet(rows, OutOf(e.user))
       /\ e.fans + missed[e.user] >= SumFunctionOnSet(rows, Into(e.user))
<1>3. \A s \in Threads : Covers(edit[s])
  BY DEF CountersInv, EditsCover
<1>4. (\A s \in Threads : Covers(edit'[s])) => EditsCover'
  BY DEF EditsCover, OutOf, Into
<1>5. ~NoEdit.found
  BY DEF NoEdit
<1>6. ASSUME NEW t \in Threads, NEW u \in Users, ReadInfo(t, u)
      PROVE  CountersNotBelowRows' /\ EditsCover'
  <2>1. CountersNotBelowRows'
    BY <1>6 DEF ReadInfo, store, CountersInv, CountersNotBelowRows
  <2>. DEFINE next == IF u \in infos
       THEN [user |-> u, found |-> TRUE, fans |-> fans[u], followee |-> followee[u]]
       ELSE [NoEdit EXCEPT !.user = u]
  <2>2. Covers(next)
    BY <1>1 DEF NoEdit
  <2>3. edit' = [edit EXCEPT ![t] = next]
    BY <1>6 DEF ReadInfo
  <2>. HIDE DEF next, Covers
  <2>4. \A s \in Threads : Covers(edit'[s])
    BY <1>0, <1>3, <2>2, <2>3
  <2>. QED
    BY <1>4, <2>1, <2>4 DEF Covers
<1>7. ASSUME NEW t \in Threads, edit' = [edit EXCEPT ![t] = NoEdit] PROVE EditsCover'
  <2>1. \A s \in Threads : edit'[s] = edit[s] \/ ~edit'[s].found
    BY <1>0, <1>5, <1>7
  <2>. QED
    BY <1>3, <1>4, <2>1
<1>8. ASSUME NEW t \in Threads, SaveInfo(t) PROVE CountersNotBelowRows'
  <2>. DEFINE u == edit[t].user
  <2>1. Covers(edit[t]) /\ edit[t] \in Edits
    BY <1>0, <1>3
  <2>2. \A w \in Users :
          /\ followee'[w] = IF edit[t].found /\ w = u THEN edit[t].followee ELSE followee[w]
          /\ fans'[w] = IF edit[t].found /\ w = u THEN edit[t].fans ELSE fans[w]
    BY <1>0, <1>8 DEF SaveInfo
  <2>3. \A w \in Users : /\ followee'[w] + missed[w] >= SumFunctionOnSet(rows, OutOf(w))
                         /\ fans'[w] + missed[w] >= SumFunctionOnSet(rows, Into(w))
    BY <1>1, <2>1, <2>2
  <2>. QED
    BY <2>3 DEF CountersNotBelowRows, OutOf, Into
<1>9. ASSUME UNCHANGED <<fans, followee>> PROVE CountersNotBelowRows'
  BY <1>9 DEF CountersInv, CountersNotBelowRows
<1>. QED
  BY <1>2, <1>6, <1>7, <1>8, <1>9 DEF SaveInfo

LEMMA CountersStep ==
  ASSUME CountersInv, FollowsNext
  PROVE  CountersInv'
<1>1. FollowsInv'
  BY FollowsStep DEF CountersInv
<1>2. tx \in [Threads -> TxType]
  BY DEF CountersInv, FollowsInv, FollowsTypeOK, TxType, Ops
<1>3. CASE \E t \in Threads : Commit(t)
  BY <1>1, <1>3, CountersCommit DEF CountersInv
<1>4. CASE ~ \E t \in Threads : Commit(t)
  <2>1. UNCHANGED <<rows, missed>>
    BY <1>4 DEF FollowsNext, Begin, Write, EnsureUserInfo, LockInfo, WriteSet, Fail,
       Deadlocked, RollBack, ReadInfo, SaveInfo, store, editVars
  <2>2. CountersNotBelowRows' /\ EditsCover'
    <3>1. \/ UNCHANGED <<edit, fans, followee>>
          \/ \E t \in Threads :
               \/ \E u \in Users : ReadInfo(t, u)
               \/ SaveInfo(t)
               \/ edit' = [edit EXCEPT ![t] = NoEdit] /\ UNCHANGED <<fans, followee>>
      BY <1>4 DEF FollowsNext, Begin, Write, EnsureUserInfo, LockInfo, WriteSet, Fail,
         Deadlocked, RollBack, store, editVars
    <3>. QED
      BY <2>1, <3>1, CountersEdit
  <2>3. PICK t \in Threads :
          \/ \E op \in Ops, p \in Pairs : Begin(t, op, p[1], p[2])
          \/ Write(t)
          \/ EnsureUserInfo(t, "infoOwn", tx[t].user, "infoTarget")
          \/ EnsureUserInfo(t, "infoTarget", tx[t].target, "own")
          \/ LockInfo(t, "own", tx[t].user, "target")
          \/ LockInfo(t, "target", tx[t].target, "redis")
          \/ WriteSet(t)
          \/ RollBack(t)
          \/ tx' = tx
    BY <1>4 DEF FollowsNext, Ops, Fail, Deadlocked, ReadInfo, SaveInfo
  <2>4. \A s \in Threads : s # t => tx'[s] = tx[s]
    <3>1. tx' = tx \/ \E x : tx' = [tx EXCEPT ![t] = x]
      BY <1>2, <2>3 DEF Begin, Write, EnsureUserInfo, LockInfo, WriteSet, RollBack, At
    <3>. QED
      BY <1>2, <3>1
  <2>5. \/ ~Written(t)'
        \/ Pair(t)' = Pair(t) /\ tx'[t].op = tx[t].op /\ Written(t)
        \/ Pair(t)' = Pair(t) /\ tx'[t].op = tx[t].op
             /\ (tx[t].op = "unfollow" => rows[Pair(t)] > 0)
    <3>1. CASE tx' = [tx EXCEPT ![t] = Idle]
      BY <1>2, <3>1 DEF Written, Idle
    <3>2. CASE \E op \in Ops, p \in Pairs : Begin(t, op, p[1], p[2])
      BY <1>2, <3>2 DEF Begin, Written
    <3>3. CASE Write(t) /\ tx' # [tx EXCEPT ![t] = Idle]
      BY <1>2, <3>3 DEF Write, At, Pair, TxType
    <3>4. ASSUME NEW pc \in {"infoOwn", "infoTarget", "own", "target", "redis"}, NEW to,
                 NEW more, tx[t].pc = pc,
                 \/ tx' = [tx EXCEPT ![t].pc = to]
                 \/ tx' = [tx EXCEPT ![t].pc = to, ![t].locked = more]
          PROVE  Pair(t)' = Pair(t) /\ tx'[t].op = tx[t].op /\ Written(t)
      BY <1>2, <3>4 DEF Pair, TxType, Written
    <3>5. CASE WriteSet(t)
      BY <3>4, <3>5 DEF WriteSet, At
    <3>6. CASE \/ EnsureUserInfo(t, "infoOwn", tx[t].user, "infoTarget")
               \/ EnsureUserInfo(t, "infoTarget", tx[t].target, "own")
      BY <3>1, <3>4, <3>6 DEF EnsureUserInfo, At
    <3>7. CASE \/ LockInfo(t, "own", tx[t].user, "target")
               \/ LockInfo(t, "target", tx[t].target, "redis")
      BY <3>4, <3>7 DEF LockInfo
    <3>8. CASE tx' = tx
      BY <3>8 DEF Pair, Written
    <3>. QED
      BY <2>3, <3>1, <3>2, <3>3, <3>5, <3>6, <3>7, <3>8 DEF RollBack
  <2>6. RowsToRemove'
    BY <2>1, <2>4, <2>5 DEF CountersInv, RowsToRemove, Written, Pair
  <2>. QED
    BY <1>1, <2>2, <2>6 DEF CountersInv
<1>. QED
  BY <1>3, <1>4

LEMMA CountersInit ==
  ASSUME FollowsInit
  PROVE  CountersInv
<1>1. FollowsInv /\ RowsToRemove
  BY InitFollows DEF FollowsInit, RowsToRemove, Written, Idle
<1>2. ASSUME NEW S \in SUBSET Pairs PROVE SumFunctionOnSet(rows, S) = 0
  <2>1. IsFiniteSet(S) /\ \A p \in S : rows[p] = 0
    BY PairsFinite, FS_Subset DEF FollowsInit
  <2>. QED
    BY <2>1, SumZero
<1>3. \A u \in Users : OutOf(u) \in SUBSET Pairs /\ Into(u) \in SUBSET Pairs
  BY DEF OutOf, Into
<1>4. \A u \in Users : followee[u] = 0 /\ fans[u] = 0 /\ missed[u] = 0
  BY DEF FollowsInit
<1>5. CountersNotBelowRows
  <2>. SUFFICES ASSUME NEW u \in Users
                PROVE  /\ followee[u] + missed[u] >= SumFunctionOnSet(rows, OutOf(u))
                       /\ fans[u] + missed[u] >= SumFunctionOnSet(rows, Into(u))
    BY DEF CountersNotBelowRows, OutOf, Into
  <2>. QED
    BY <1>2, <1>3, <1>4
<1>6. EditsCover
  BY DEF FollowsInit, EditsCover, NoEdit
<1>. QED
  BY <1>1, <1>5, <1>6 DEF CountersInv

-----------------------------------------------------------------------------
(* Theorems                                                                *)

\* Follow requests among notes and likes, which only share the bounds.
LEMMA FollowsStays ==
  ASSUME FollowsInv, [BlogsNext]_vars
  PROVE  FollowsInv'
<1>1. ASSUME requests' \in Nat, faults' \in Nat, UNCHANGED <<store, editVars, follows, tx, torn>>
      PROVE  FollowsInv'
  BY <1>1 DEF store, editVars, FollowsInv, FollowsTypeOK, TxShape, Exclusive, ToldRedis, Agree,
     Committing, InSet, Pair, Written
<1>2. requests \in Nat /\ faults \in Nat
  BY DEF FollowsInv, FollowsTypeOK
<1>3. CASE Request
  BY <1>1, <1>2, <1>3 DEF Request
<1>4. CASE Fault
  BY <1>1, <1>2, <1>4 DEF Fault
<1>5. CASE UNCHANGED followVars
  BY <1>1, <1>2, <1>5 DEF followVars
<1>6. \/ FollowsNext
      \/ Request
      \/ Fault
      \/ UNCHANGED followVars
  BY DEF BlogsNext, ClickLike, UpdateLiked, UpdateLikers, LikeFails, ClickAt, SaveBlog, Push,
     PushFails, Tick, Reset, Fetch, vars
<1>. QED
  BY <1>3, <1>4, <1>5, <1>6, FollowsStep

\* The set, the rows and the transactions under way fit together at every
\* step of a follow request or a profile edit.
THEOREM FollowsInvariance == BlogsSpec => []FollowsInv
<1>1. BlogsInit => FollowsInv
  BY InitFollows DEF BlogsInit
<1>. QED
  BY <1>1, FollowsStays, PTL DEF BlogsSpec

\* The set a user's common follows are read from is the set of those the
\* user follows in MySQL, outside the moment between the two writes, however
\* follows, unfollows, failures and deadlocks interleave: only a failure in
\* just that moment parts them, until the pair's next committed change.
THEOREM FollowSetsAgree == BlogsSpec => []SetFollowsRows
<1>1. FollowsInv => SetFollowsRows
  BY DEF FollowsInv, Agree, SetFollowsRows, Committing, InSet
<1>. QED
  BY <1>1, FollowsInvariance, PTL

\* Counters and row counts never run below zero, and every transaction is at
\* one of its statements.
THEOREM FollowsTypeCorrect == BlogsSpec => []FollowsTypeOK
<1>1. FollowsInv => FollowsTypeOK
  BY DEF FollowsInv
<1>. QED
  BY <1>1, FollowsInvariance, PTL

\* The counters of fans and followed users lose no follow to overlapping
\* clicks, failures or deadlocks, for every number of users and threads; all
\* that a counter can be below its rows are the follows that were committed
\* while an edit of that profile was between its read and its save.
THEOREM CountersCover == BlogsSpec => []CountersNotBelowRows
<1>1. BlogsInit => CountersInv
  BY CountersInit DEF BlogsInit
<1>2. CountersInv /\ [BlogsNext]_vars => CountersInv'
  <2>. SUFFICES ASSUME CountersInv, [BlogsNext]_vars
                PROVE  CountersInv'
    OBVIOUS
  <2>1. CASE FollowsNext
    BY <2>1, CountersStep
  <2>2. CASE UNCHANGED <<store, editVars, tx, follows, torn>>
    <3>1. FollowsInv'
      BY FollowsStays DEF CountersInv
    <3>2. CountersNotBelowRows' /\ EditsCover'
      BY <2>2, CountersEdit DEF store, editVars
    <3>3. RowsToRemove'
      BY <2>2 DEF CountersInv, RowsToRemove, store, Written, Pair
    <3>. QED
      BY <3>1, <3>2, <3>3 DEF CountersInv
  <2>3. FollowsNext \/ UNCHANGED <<store, editVars, tx, follows, torn>>
    BY DEF BlogsNext, ClickLike, UpdateLiked, UpdateLikers, LikeFails, ClickAt, SaveBlog, Push,
       PushFails, Tick, Reset, Fetch, vars, Request, Fault, followVars
  <2>. QED
    BY <2>1, <2>2, <2>3
<1>3. CountersInv => CountersNotBelowRows
  BY DEF CountersInv
<1>. QED
  BY <1>1, <1>2, <1>3, PTL DEF BlogsSpec
=============================================================================
