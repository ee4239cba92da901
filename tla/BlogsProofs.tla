------------------------------ MODULE BlogsProofs ------------------------------
(***************************************************************************)
(* Notes, likes and the scrolled feed, for every number of users, notes    *)
(* and overlapping clicks, and every page size.                            *)
(***************************************************************************)
EXTENDS FollowsProofs

-----------------------------------------------------------------------------
(* Types                                                                   *)

LEMMA MinIsLeast ==
  ASSUME NEW T, T \subseteq Nat, T # {}
  PROVE  Min(T) \in T /\ \A m \in T : Min(T) =< m
BY NatMin DEF Min

\* The score that the page goes on from is one of the list's.
LEMMA MinTimeIs ==
  ASSUME BlogsTypeOK, NEW list \in SUBSET Blogs, list # {}
  PROVE  /\ MinTime(list) \in Nat
         /\ \E b \in list : MinTime(list) = feed[Reader][b]
         /\ \A b \in list : MinTime(list) =< feed[Reader][b]
<1>. DEFINE T == {feed[Reader][b] : b \in list}
<1>1. T \subseteq Nat /\ T # {}
  <2>1. Reader \in Users /\ MaxTime \in Nat /\ feed \in [Users -> [Blogs -> 0 .. MaxTime]]
    BY BlogsAssumption DEF BlogsTypeOK
  <2>2. \A b \in Blogs : feed[Reader][b] \in 0 .. MaxTime
    BY <2>1
  <2>3. \A b \in Blogs : feed[Reader][b] \in Nat
    BY <2>1, <2>2
  <2>. QED
    BY <2>3
<1>2. Min(T) \in T /\ \A m \in T : Min(T) =< m
  BY <1>1, MinIsLeast
<1>. QED
  BY <1>1, <1>2 DEF MinTime

LEMMA PartsFinite ==
  ASSUME NEW S \in SUBSET Blogs
  PROVE  IsFiniteSet(S) /\ Cardinality(S) \in Nat
BY BlogsAssumption, FS_Subset, FS_CardinalityType

LEMMA TypeLikes ==
  ASSUME BlogsTypeOK, NEW u \in Users,
         ClickLike(u) \/ UpdateLiked(u) \/ UpdateLikers(u) \/ LikeFails(u)
  PROVE  BlogsTypeOK'
<1>1. /\ clicks \in [Users -> [LikePcs -> Nat]] /\ liked \in Nat /\ likers \subseteq Users
      /\ slips \in Nat
  BY DEF BlogsTypeOK
<1>2. ASSUME NEW pc \in LikePcs, ClickEnds(u, pc) PROVE clicks' \in [Users -> [LikePcs -> Nat]]
  BY <1>1, <1>2 DEF ClickEnds
<1>3. ASSUME NEW from \in LikePcs, NEW to \in LikePcs, from # to, ClickAt(u, from, to)
      PROVE  clicks' \in [Users -> [LikePcs -> Nat]]
  BY <1>1, <1>3 DEF ClickAt
<1>4. ASSUME NEW pc \in LikePcs, clicks' = [clicks EXCEPT ![u][pc] = @ + 1]
      PROVE  clicks' \in [Users -> [LikePcs -> Nat]]
  BY <1>1, <1>4
<1>5. UNCHANGED <<now, post, feed, page>>
  BY DEF ClickLike, UpdateLiked, UpdateLikers, LikeFails, ClickAt, ClickEnds, feedVars
<1>6. CASE ClickLike(u)
  BY <1>1, <1>4, <1>5, <1>6 DEF ClickLike, NextLike, BlogsTypeOK, LikePcs
<1>7. CASE UpdateLiked(u)
  <2>1. clicks' \in [Users -> [LikePcs -> Nat]]
    BY <1>2, <1>3, <1>7 DEF UpdateLiked, LikePcs
  <2>2. liked' \in Nat /\ likers' = likers /\ slips' = slips
    BY <1>1, <1>7 DEF UpdateLiked, ClickAt
  <2>. QED
    BY <1>5, <2>1, <2>2 DEF BlogsTypeOK
<1>8. CASE UpdateLikers(u)
  <2>1. clicks' \in [Users -> [LikePcs -> Nat]]
    BY <1>2, <1>8 DEF UpdateLikers, LikePcs
  <2>2. likers' \subseteq Users /\ liked' = liked /\ slips' = slips
    BY <1>1, <1>8 DEF UpdateLikers
  <2>. QED
    BY <1>5, <2>1, <2>2 DEF BlogsTypeOK
<1>9. CASE LikeFails(u)
  <2>1. clicks' \in [Users -> [LikePcs -> Nat]]
    BY <1>2, <1>9 DEF LikeFails, LikePcs
  <2>2. liked' \in Nat /\ likers' \subseteq Users /\ slips' \in Nat
    BY <1>1, <1>9 DEF LikeFails, Decremented
  <2>. QED
    BY <1>5, <2>1, <2>2 DEF BlogsTypeOK
<1>. QED
  BY <1>6, <1>7, <1>8, <1>9

Posts == [author : Users \cup {None}, followers : [Users -> Nat]]

LEMMA TypePosts ==
  ASSUME FollowsTypeOK, BlogsTypeOK, NEW b \in Blogs, NEW u \in Users,
         SaveBlog(b, u) \/ Push(b, u) \/ PushFails(b)
  PROVE  BlogsTypeOK'
<1>1. /\ post \in [Blogs -> Posts] /\ now \in StartTime .. MaxTime
      /\ feed \in [Users -> [Blogs -> 0 .. MaxTime]] /\ page \in Pages
      /\ rows \in [Pairs -> Nat]
  BY DEF BlogsTypeOK, FollowsTypeOK, Posts
<1>2. CASE SaveBlog(b, u)
  <2>1. [author |-> u, followers |-> [w \in Users |-> IF w = u THEN 0 ELSE rows[<<w, u>>]]]
          \in Posts
    BY <1>1 DEF Posts, Pairs
  <2>2. post' \in [Blogs -> Posts]
    BY <1>1, <1>2, <2>1 DEF SaveBlog
  <2>. QED
    BY <1>2, <2>2 DEF SaveBlog, BlogsTypeOK, Posts, likeVars
<1>3. CASE Push(b, u)
  <2>1. [post[b] EXCEPT !.followers[u] = @ - 1] \in Posts
    <3>. DEFINE left == [post[b].followers EXCEPT ![u] = @ - 1]
    <3>1. post[b].followers \in [Users -> Nat] /\ post[b].followers[u] > 0
      BY <1>1, <1>3 DEF Push, Posts
    <3>2. left \in [Users -> Nat]
      BY <3>1
    <3>. HIDE DEF left
    <3>3. [post[b] EXCEPT !.followers = left] \in Posts
      BY <1>1, <3>2 DEF Posts
    <3>. QED
      BY <3>3 DEF left
  <2>2. post' \in [Blogs -> Posts]
    BY <1>1, <1>3, <2>1 DEF Push
  <2>3. now \in 0 .. MaxTime
    BY <1>1, BlogsAssumption
  <2>4. feed' \in [Users -> [Blogs -> 0 .. MaxTime]]
    BY <1>1, <1>3, <2>3 DEF Push
  <2>5. page' \in Pages
    BY <1>1, <1>3 DEF Push, Pages
  <2>. QED
    BY <1>3, <2>2, <2>4, <2>5 DEF Push, BlogsTypeOK, Posts, likeVars
<1>4. CASE PushFails(b)
  <2>1. [post[b] EXCEPT !.followers = Nobody] \in Posts
    BY <1>1 DEF Posts, Nobody
  <2>2. post' \in [Blogs -> Posts]
    BY <1>1, <1>4, <2>1 DEF PushFails
  <2>. QED
    BY <1>4, <2>2 DEF PushFails, BlogsTypeOK, Posts, likeVars
<1>. QED
  BY <1>2, <1>3, <1>4

LEMMA TypePage ==
  ASSUME BlogsTypeOK, Tick \/ Reset \/ Fetch
  PROVE  BlogsTypeOK'
<1>1. now \in StartTime .. MaxTime /\ page \in Pages /\ StartTime \in Nat /\ MaxTime \in Nat
  BY BlogsAssumption DEF BlogsTypeOK
<1>2. CASE Tick
  <2>1. now' \in StartTime .. MaxTime
    BY <1>1, <1>2 DEF Tick
  <2>. QED
    BY <1>2, <2>1 DEF Tick, BlogsTypeOK, likeVars
<1>3. CASE Reset
  <2>. PICK clock \in 0 .. MaxTime :
         page' = [max |-> clock + 1, offset |-> 0, shown |-> {}, more |-> TRUE,
                  due |-> Upto(clock + 1), moved |-> FALSE]
    BY <1>3 DEF Reset
  <2>1. page' \in Pages
    <3>1. clock + 1 \in Nat /\ Upto(clock + 1) \subseteq Blogs
      BY <1>1 DEF Upto
    <3>. QED
      BY <3>1 DEF Pages
  <2>. QED
    BY <1>3, <2>1 DEF Reset, BlogsTypeOK, likeVars, feedVars
<1>4. CASE Fetch
  <2>. DEFINE list == List(page.max, page.offset)
  <2>1. list \in SUBSET Blogs
    BY DEF List, Upto
  <2>. HIDE DEF list
  <2>2. list # {} => MinTime(list) \in Nat
    BY <2>1, MinTimeIs
  <2>3. Offset(list) \in Nat
    <3>1. {b \in list : feed[Reader][b] = MinTime(list)} \in SUBSET Blogs
      BY <2>1
    <3>. QED
      BY <3>1, PartsFinite DEF Offset
  <2>4. NextOffset(list) \in Nat
    BY <1>1, <2>3 DEF NextOffset, Pages
  <2>5. page' = [page EXCEPT
         !.shown  = @ \cup list,
         !.more   = Cardinality(list) = PageSize,
         !.max    = IF list = {} THEN @ ELSE MinTime(list),
         !.offset = IF list = {} THEN @ ELSE NextOffset(list)]
    BY <1>4 DEF Fetch, list
  <2>6. page' \in Pages
    BY <1>1, <2>1, <2>2, <2>4, <2>5 DEF Pages
  <2>. QED
    BY <1>4, <2>6 DEF Fetch, BlogsTypeOK, likeVars, feedVars
<1>. QED
  BY <1>2, <1>3, <1>4

LEMMA TypeInit ==
  ASSUME BlogsInit
  PROVE  BlogsTypeOK
<1>1. Cardinality(likers) \in Nat /\ likers \subseteq Users
  BY FollowsAssumption, BlogsAssumption, FS_Subset, FS_CardinalityType DEF BlogsInit
<1>2. page \in Pages
  BY DEF BlogsInit, Pages
<1>3. feed \in [Users -> [Blogs -> 0 .. MaxTime]]
  <2>1. PICK f \in FeedsAtStart :
          feed = [u \in Users |-> IF u = Reader THEN f ELSE [b \in Blogs |-> 0]]
    BY DEF BlogsInit
  <2>2. f \in [Blogs -> 0 .. MaxTime] /\ [b \in Blogs |-> 0] \in [Blogs -> 0 .. MaxTime]
    <3>1. f \in [Blogs -> 0 .. StartTime]
      BY BlogsAssumption
    <3>2. \A b \in Blogs : f[b] \in 0 .. MaxTime
      BY <3>1, BlogsAssumption
    <3>3. 0 \in 0 .. MaxTime
      BY BlogsAssumption
    <3>. QED
      BY <3>1, <3>2, <3>3
  <2>. QED
    BY <2>1, <2>2
<1>4. post \in [Blogs -> [author : Users \cup {None}, followers : [Users -> Nat]]]
  BY DEF BlogsInit, Nobody
<1>5. now \in StartTime .. MaxTime /\ liked \in Nat /\ slips \in Nat
  BY <1>1, BlogsAssumption DEF BlogsInit
<1>6. clicks \in [Users -> [LikePcs -> Nat]]
  BY DEF BlogsInit
<1>. QED
  BY <1>1, <1>2, <1>3, <1>4, <1>5, <1>6 DEF BlogsTypeOK

LEMMA TypeStep ==
  ASSUME FollowsTypeOK, BlogsTypeOK, [BlogsNext]_vars
  PROVE  BlogsTypeOK'
<1>1. CASE UNCHANGED blogVars
  BY <1>1 DEF BlogsTypeOK, blogVars, feedVars, likeVars
<1>2. CASE \E u \in Users : ClickLike(u) \/ UpdateLiked(u) \/ UpdateLikers(u) \/ LikeFails(u)
  BY <1>2, TypeLikes
<1>3. CASE \E b \in Blogs : PushFails(b) \/ \E u \in Users : SaveBlog(b, u) \/ Push(b, u)
  BY <1>3, TypePosts, BlogsAssumption
<1>4. CASE Tick \/ Reset \/ Fetch
  BY <1>4, TypePage
<1>. QED
  BY <1>1, <1>2, <1>3, <1>4 DEF BlogsNext, vars

-----------------------------------------------------------------------------
(* Likes                                                                   *)

\* A click that will do what the set calls for is in flight: all others of
\* the same user are in excess of what a user with one click has.
Useful(u) ==
  IF u \in likers THEN clicks[u]["unlike"] > 0 \/ clicks[u]["remove"] > 0
                  ELSE clicks[u]["like"] > 0 \/ clicks[u]["add"] > 0

InFlight(u) ==
  clicks[u]["like"] + clicks[u]["unlike"] + clicks[u]["add"] + clicks[u]["remove"]

Excess == [u \in Users |-> InFlight(u) - (IF Useful(u) THEN 1 ELSE 0)]

\* The drift so far and the drift that clicks in flight may still cause stay
\* within the slips.
LikesInv ==
  LET expected == Cardinality(likers) + Clicks("add")
      actual   == liked + Clicks("remove")
      excess   == SumFunction(Excess) IN
    /\ actual + excess =< expected + slips
    /\ expected + excess =< actual + slips

LEMMA ClicksType ==
  ASSUME BlogsTypeOK, NEW u \in Users
  PROVE  /\ clicks[u]["like"] \in Nat /\ clicks[u]["unlike"] \in Nat
         /\ clicks[u]["add"] \in Nat /\ clicks[u]["remove"] \in Nat
         /\ Excess[u] \in Nat
<1>1. /\ clicks[u]["like"] \in Nat /\ clicks[u]["unlike"] \in Nat
      /\ clicks[u]["add"] \in Nat /\ clicks[u]["remove"] \in Nat
  BY DEF BlogsTypeOK, LikePcs
<1>2. Excess[u] \in Nat
  BY <1>1 DEF Excess, InFlight, Useful
<1>. QED
  BY <1>1, <1>2

\* The same of the next state.
LEMMA ClicksTypeNext ==
  ASSUME BlogsTypeOK', NEW u \in Users
  PROVE  /\ clicks'[u]["like"] \in Nat /\ clicks'[u]["unlike"] \in Nat
         /\ clicks'[u]["add"] \in Nat /\ clicks'[u]["remove"] \in Nat
         /\ Excess'[u] \in Nat
<1>1. /\ clicks'[u]["like"] \in Nat /\ clicks'[u]["unlike"] \in Nat
      /\ clicks'[u]["add"] \in Nat /\ clicks'[u]["remove"] \in Nat
  BY DEF BlogsTypeOK, LikePcs
<1>2. Excess'[u] \in Nat
  BY <1>1 DEF Excess, InFlight, Useful
<1>. QED
  BY <1>1, <1>2

\* A step that changes the clicks and the like of one user alone.
LEMMA LikesMove ==
  ASSUME BlogsTypeOK, BlogsTypeOK', LikesInv, NEW u \in Users,
         \A w \in Users : w # u => clicks'[w] = clicks[w] /\ (w \in likers' <=> w \in likers),
         /\ liked' + clicks'[u]["remove"] + Excess'[u]
              + (Cardinality(likers) + clicks[u]["add"] + slips)
            =< liked + clicks[u]["remove"] + Excess[u]
              + (Cardinality(likers') + clicks'[u]["add"] + slips'),
         /\ Cardinality(likers') + clicks'[u]["add"] + Excess'[u]
              + (liked + clicks[u]["remove"] + slips)
            =< Cardinality(likers) + clicks[u]["add"] + Excess[u]
              + (liked' + clicks'[u]["remove"] + slips')
  PROVE  LikesInv'
<1>1. IsFiniteSet(Users)
  BY FollowsAssumption
<1>2. /\ Cardinality(likers) \in Nat /\ Cardinality(likers') \in Nat
      /\ liked \in Nat /\ liked' \in Nat /\ slips \in Nat /\ slips' \in Nat
  BY <1>1, FS_Subset, FS_CardinalityType DEF BlogsTypeOK
<1>3. ASSUME NEW pc \in LikePcs
      PROVE  /\ Clicks(pc) \in Nat /\ Clicks(pc)' \in Nat
             /\ Clicks(pc)' + clicks[u][pc] = Clicks(pc) + clicks'[u][pc]
  <2>. DEFINE f == [w \in Users |-> clicks[w][pc]]
              g == [w \in Users |-> clicks'[w][pc]]
  <2>1. \A w \in Users : f[w] \in Nat /\ g[w] \in Nat
    BY <1>3 DEF BlogsTypeOK
  <2>2. \A w \in Users : w # u => g[w] = f[w]
    OBVIOUS
  <2>3. f[u] = clicks[u][pc] /\ g[u] = clicks'[u][pc]
    OBVIOUS
  <2>4. DOMAIN f = Users /\ DOMAIN g = Users
    OBVIOUS
  <2>5. Clicks(pc) = SumFunctionOnSet(f, Users) /\ Clicks(pc)' = SumFunctionOnSet(g, Users)
    BY <2>4 DEF Clicks, SumFunction
  <2>. HIDE DEF f, g
  <2>. QED
    BY <1>1, <2>1, <2>2, <2>3, <2>5, SumChange
<1>4. /\ SumFunction(Excess) \in Nat /\ SumFunction(Excess)' \in Nat
      /\ SumFunction(Excess)' + Excess[u] = SumFunction(Excess) + Excess'[u]
  <2>1. \A w \in Users : Excess[w] \in Nat /\ Excess'[w] \in Nat
    BY ClicksType, ClicksTypeNext
  <2>2. \A w \in Users : w # u => Excess'[w] = Excess[w]
    BY DEF Excess, InFlight, Useful
  <2>3. DOMAIN Excess = Users /\ DOMAIN Excess' = Users
    BY DEF Excess
  <2>4. /\ SumFunction(Excess) = SumFunctionOnSet(Excess, Users)
        /\ SumFunction(Excess)' = SumFunctionOnSet(Excess', Users)
    BY <2>3 DEF SumFunction
  <2>. QED
    BY <1>1, <2>1, <2>2, <2>4, SumChange
<1>5. /\ clicks[u]["add"] \in Nat /\ clicks[u]["remove"] \in Nat /\ Excess[u] \in Nat
      /\ clicks'[u]["add"] \in Nat /\ clicks'[u]["remove"] \in Nat /\ Excess'[u] \in Nat
  BY ClicksType, ClicksTypeNext
<1>6. /\ Clicks("add") \in Nat /\ Clicks("add")' \in Nat
      /\ Clicks("add")' + clicks[u]["add"] = Clicks("add") + clicks'[u]["add"]
      /\ Clicks("remove") \in Nat /\ Clicks("remove")' \in Nat
      /\ Clicks("remove")' + clicks[u]["remove"] = Clicks("remove") + clicks'[u]["remove"]
  BY <1>3 DEF LikePcs
<1>. QED
  BY <1>2, <1>4, <1>5, <1>6 DEF LikesInv

\* The two bounds of LikesMove: what the step adds to one side of the drift,
\* it takes from the clicks in excess or counts as a slip.
LEMMA LikesStep ==
  ASSUME BlogsTypeOK, BlogsTypeOK', LikesInv, NEW u \in Users,
         ClickLike(u) \/ UpdateLiked(u) \/ UpdateLikers(u) \/ LikeFails(u)
  PROVE  LikesInv'
<1>. DEFINE c == clicks[u]
            d == clicks'[u]
            n == Cardinality(likers)
            m == Cardinality(likers')
            e1 == Excess[u]
            e2 == Excess'[u]
            Sum(k) == k["like"] + k["unlike"] + k["add"] + k["remove"]
            IsUseful(k, s) == IF u \in s THEN k["unlike"] > 0 \/ k["remove"] > 0
                                         ELSE k["like"] > 0 \/ k["add"] > 0
<1>1. /\ clicks \in [Users -> [LikePcs -> Nat]] /\ liked \in Nat /\ slips \in Nat
      /\ IsFiniteSet(likers)
      /\ liked' \in Nat /\ slips' \in Nat
  BY FollowsAssumption, FS_Subset DEF BlogsTypeOK
<1>2. /\ c["like"] \in Nat /\ c["unlike"] \in Nat /\ c["add"] \in Nat /\ c["remove"] \in Nat
      /\ n \in Nat /\ c \in [LikePcs -> Nat] /\ e1 \in Nat /\ e2 \in Nat
  BY <1>1, ClicksType, ClicksTypeNext, FS_CardinalityType
<1>3. /\ e1 = Sum(c) - (IF IsUseful(c, likers) THEN 1 ELSE 0)
      /\ e2 = Sum(d) - (IF IsUseful(d, likers') THEN 1 ELSE 0)
  BY DEF Excess, InFlight, Useful
<1>4. ASSUME
        \A w \in Users : w # u => clicks'[w] = clicks[w] /\ (w \in likers' <=> w \in likers),
        liked' + d["remove"] + e2 + (n + c["add"] + slips)
          =< liked + c["remove"] + e1 + (m + d["add"] + slips'),
        m + d["add"] + e2 + (liked + c["remove"] + slips)
          =< n + c["add"] + e1 + (liked' + d["remove"] + slips')
      PROVE LikesInv'
  BY <1>4, LikesMove
<1>5. ASSUME NEW pc \in LikePcs, ClickEnds(u, pc)
      PROVE  /\ c[pc] > 0 /\ d = [c EXCEPT ![pc] = @ - 1]
             /\ \A w \in Users : w # u => clicks'[w] = clicks[w]
  BY <1>1, <1>5 DEF ClickEnds
<1>6. ASSUME NEW from \in LikePcs, NEW to \in LikePcs, from # to, ClickAt(u, from, to)
      PROVE  /\ c[from] > 0 /\ d = [c EXCEPT ![from] = @ - 1, ![to] = @ + 1]
             /\ \A w \in Users : w # u => clicks'[w] = clicks[w]
             /\ slips' = slips
  BY <1>1, <1>6 DEF ClickAt
<1>7. /\ likers' = likers => m = n
      /\ likers' = likers \cup {u} => m = IF u \in likers THEN n ELSE n + 1
      /\ likers' = likers \ {u} => m = IF u \in likers THEN n - 1 ELSE n
  BY <1>1, FS_AddElement, FS_RemoveElement
<1>8. CASE ClickLike(u)
  <2>1. /\ \A w \in Users : w # u => clicks'[w] = clicks[w]
        /\ d = [c EXCEPT ![NextLike(u)] = @ + 1]
        /\ slips' = IF \E pc \in LikePcs : c[pc] > 0 THEN slips + 1 ELSE slips
        /\ likers' = likers /\ liked' = liked /\ m = n
    BY <1>1, <1>7, <1>8 DEF ClickLike
  <2>2. \/ slips' = slips + 1
        \/ /\ slips' = slips /\ c["like"] = 0 /\ c["unlike"] = 0
           /\ c["add"] = 0 /\ c["remove"] = 0
    <3>1. \A pc \in LikePcs : c[pc] \in Nat
      BY <1>2
    <3>. HIDE DEF c
    <3>. QED
      BY <2>1, <3>1 DEF LikePcs
  <2>3. /\ d["add"] = c["add"] /\ d["remove"] = c["remove"]
        /\ u \in likers => d["unlike"] = c["unlike"] + 1 /\ d["like"] = c["like"]
        /\ u \notin likers => d["like"] = c["like"] + 1 /\ d["unlike"] = c["unlike"]
    BY <1>2, <2>1 DEF NextLike, LikePcs
  <2>. HIDE DEF c, d, n, m, e1, e2
  <2>4. e2 + slips =< e1 + slips'
    BY <1>1, <1>2, <1>3, <2>1, <2>2, <2>3
  <2>. QED
    BY <1>1, <1>2, <1>4, <2>1, <2>3, <2>4
<1>9. CASE UpdateLiked(u)
  <2>1. CASE ClickAt(u, "like", "add") /\ liked' = liked + 1 /\ likers' = likers
    <3>1. /\ d = [c EXCEPT !["like"] = @ - 1, !["add"] = @ + 1] /\ c["like"] > 0
          /\ \A w \in Users : w # u => clicks'[w] = clicks[w]
          /\ slips' = slips /\ m = n
      BY <1>6, <1>7, <2>1 DEF LikePcs
    <3>2. /\ d["like"] = c["like"] - 1 /\ d["add"] = c["add"] + 1
          /\ d["unlike"] = c["unlike"] /\ d["remove"] = c["remove"]
      BY <1>2, <3>1 DEF LikePcs
    <3>. HIDE DEF c, d, n, m, e1, e2
    <3>3. e2 =< e1
      BY <1>2, <1>3, <2>1, <3>2
    <3>. QED
      BY <1>1, <1>2, <1>4, <2>1, <3>1, <3>2, <3>3
  <2>2. CASE ClickAt(u, "unlike", "remove") /\ liked' = liked - 1 /\ likers' = likers
    <3>1. /\ d = [c EXCEPT !["unlike"] = @ - 1, !["remove"] = @ + 1] /\ c["unlike"] > 0
          /\ \A w \in Users : w # u => clicks'[w] = clicks[w]
          /\ slips' = slips /\ m = n
      BY <1>6, <1>7, <2>2 DEF LikePcs
    <3>2. /\ d["unlike"] = c["unlike"] - 1 /\ d["remove"] = c["remove"] + 1
          /\ d["like"] = c["like"] /\ d["add"] = c["add"]
      BY <1>2, <3>1 DEF LikePcs
    <3>. HIDE DEF c, d, n, m, e1, e2
    <3>3. e2 =< e1
      BY <1>2, <1>3, <2>2, <3>2
    <3>. QED
      BY <1>1, <1>2, <1>4, <2>2, <3>1, <3>2, <3>3
  <2>3. CASE ClickEnds(u, "unlike") /\ UNCHANGED <<liked, likers, slips>>
    <3>1. /\ d = [c EXCEPT !["unlike"] = @ - 1] /\ c["unlike"] > 0
          /\ \A w \in Users : w # u => clicks'[w] = clicks[w]
          /\ m = n
      BY <1>5, <1>7, <2>3 DEF LikePcs
    <3>2. /\ d["unlike"] = c["unlike"] - 1 /\ d["remove"] = c["remove"]
          /\ d["like"] = c["like"] /\ d["add"] = c["add"]
      BY <1>2, <3>1 DEF LikePcs
    <3>. HIDE DEF c, d, n, m, e1, e2
    <3>3. e2 =< e1
      BY <1>2, <1>3, <2>3, <3>2
    <3>. QED
      BY <1>1, <1>2, <1>4, <2>3, <3>1, <3>2, <3>3
  <2>. QED
    BY <1>9, <2>1, <2>2, <2>3 DEF UpdateLiked
<1>10. ASSUME ClickEnds(u, "add"), liked' = liked,
              \/ likers' = likers \cup {u} /\ slips' \in {slips, slips + 1}
              \/ likers' = likers /\ slips' = slips + 1
       PROVE  LikesInv'
  <2>1. /\ d = [c EXCEPT !["add"] = @ - 1] /\ c["add"] > 0
        /\ \A w \in Users : w # u => clicks'[w] = clicks[w]
    BY <1>5, <1>10 DEF LikePcs
  <2>2. /\ d["unlike"] = c["unlike"] /\ d["remove"] = c["remove"]
        /\ d["like"] = c["like"] /\ d["add"] = c["add"] - 1
    BY <1>2, <2>1 DEF LikePcs
  <2>3. \A w \in Users : w # u => (w \in likers' <=> w \in likers)
    BY <1>10
  <2>. HIDE DEF c, d, n, m, e1, e2
  <2>4. CASE likers' = likers \cup {u}
    <3>1. e2 =< e1 /\ (u \in likers => e2 + 1 =< e1)
      BY <1>2, <1>3, <2>1, <2>2, <2>4
    <3>. QED
      BY <1>1, <1>2, <1>4, <1>7, <1>10, <2>1, <2>2, <2>3, <2>4, <3>1
  <2>5. CASE likers' = likers /\ slips' = slips + 1
    <3>1. e2 =< e1
      BY <1>2, <1>3, <2>1, <2>2, <2>5
    <3>. QED
      BY <1>1, <1>2, <1>4, <1>7, <1>10, <2>1, <2>2, <2>3, <2>5, <3>1
  <2>. QED
    BY <1>10, <2>4, <2>5
<1>11. ASSUME ClickEnds(u, "remove"), liked' = liked,
              \/ likers' = likers \ {u} /\ slips' \in {slips, slips + 1}
              \/ likers' = likers /\ slips' = slips + 1
       PROVE  LikesInv'
  <2>1. /\ d = [c EXCEPT !["remove"] = @ - 1] /\ c["remove"] > 0
        /\ \A w \in Users : w # u => clicks'[w] = clicks[w]
    BY <1>5, <1>11 DEF LikePcs
  <2>2. /\ d["unlike"] = c["unlike"] /\ d["remove"] = c["remove"] - 1
        /\ d["like"] = c["like"] /\ d["add"] = c["add"]
    BY <1>2, <2>1 DEF LikePcs
  <2>3. \A w \in Users : w # u => (w \in likers' <=> w \in likers)
    BY <1>11
  <2>. HIDE DEF c, d, n, m, e1, e2
  <2>4. CASE likers' = likers \ {u}
    <3>1. e2 =< e1 /\ (u \notin likers => e2 + 1 =< e1)
      BY <1>2, <1>3, <2>1, <2>2, <2>4
    <3>. QED
      BY <1>1, <1>2, <1>4, <1>7, <1>11, <2>1, <2>2, <2>3, <2>4, <3>1
  <2>5. CASE likers' = likers /\ slips' = slips + 1
    <3>1. e2 =< e1
      BY <1>2, <1>3, <2>1, <2>2, <2>5
    <3>. QED
      BY <1>1, <1>2, <1>4, <1>7, <1>11, <2>1, <2>2, <2>3, <2>5, <3>1
  <2>. QED
    BY <1>11, <2>4, <2>5
<1>12. CASE UpdateLikers(u)
  BY <1>10, <1>11, <1>12 DEF UpdateLikers
<1>13. CASE LikeFails(u)
  <2>1. slips' = slips + 1
    BY <1>13 DEF LikeFails
  <2>n. liked \in Nat /\ liked' \in Nat
    BY <1>1
  <2>2. ASSUME NEW pc \in {"like", "unlike"}, ClickEnds(u, pc), likers' = likers,
               liked' = liked \/ liked' = liked + 1 \/ liked' = liked - 1
        PROVE  LikesInv'
    <3>1. /\ d = [c EXCEPT ![pc] = @ - 1] /\ c[pc] > 0
          /\ \A w \in Users : w # u => clicks'[w] = clicks[w]
          /\ m = n
      BY <1>5, <1>7, <2>2 DEF LikePcs
    <3>2. /\ d["remove"] = c["remove"] /\ d["add"] = c["add"]
          /\ \/ d["like"] = c["like"] - 1 /\ d["unlike"] = c["unlike"] /\ c["like"] > 0
             \/ d["like"] = c["like"] /\ d["unlike"] = c["unlike"] - 1 /\ c["unlike"] > 0
      BY <1>2, <2>2, <3>1 DEF LikePcs
    <3>. HIDE DEF c, d, n, m, e1, e2
    <3>3. e2 =< e1
      BY <1>2, <1>3, <2>2, <3>2
    <3>4. /\ liked' + d["remove"] + e2 + (n + c["add"] + slips)
               =< liked + c["remove"] + e1 + (m + d["add"] + slips')
          /\ m + d["add"] + e2 + (liked + c["remove"] + slips)
               =< n + c["add"] + e1 + (liked' + d["remove"] + slips')
      <4>1. /\ slips \in Nat /\ slips' = slips + 1
            /\ n \in Nat /\ m = n
            /\ e1 \in Nat /\ e2 \in Nat /\ e2 =< e1
        BY <1>1, <1>2, <2>1, <3>1, <3>3
      <4>2. /\ c["add"] \in Nat /\ c["remove"] \in Nat
            /\ d["add"] = c["add"] /\ d["remove"] = c["remove"]
        BY <1>2, <3>2
      <4>3. CASE liked' = liked
        BY <2>n, <4>1, <4>2, <4>3
      <4>4. CASE liked' = liked + 1
        BY <2>n, <4>1, <4>2, <4>4
      <4>5. CASE liked' = liked - 1
        BY <2>n, <4>1, <4>2, <4>5
      <4>. QED
        BY <2>2, <4>3, <4>4, <4>5
    <3>. QED
      BY <1>4, <2>2, <3>1, <3>4
  <2>3. CASE ClickEnds(u, "like") /\ liked' \in {liked, liked + 1} /\ UNCHANGED likers
    BY <2>2, <2>3
  <2>4. CASE ClickEnds(u, "unlike") /\ liked' \in {liked, Decremented(liked)} /\ UNCHANGED likers
    <3>1. Decremented(liked) = liked \/ Decremented(liked) = liked - 1
      BY <2>n DEF Decremented
    <3>2. liked' = liked \/ liked' = liked - 1
      BY <2>4, <3>1
    <3>. QED
      BY <2>2, <2>4, <3>2
  <2>5. CASE ClickEnds(u, "add") /\ likers' \in {likers, likers \cup {u}} /\ UNCHANGED liked
    BY <1>10, <2>1, <2>5
  <2>6. CASE ClickEnds(u, "remove") /\ likers' \in {likers, likers \ {u}} /\ UNCHANGED liked
    BY <1>11, <2>1, <2>6
  <2>. QED
    BY <1>13, <2>3, <2>4, <2>5, <2>6 DEF LikeFails
<1>. QED
  BY <1>8, <1>9, <1>12, <1>13

LEMMA LikesInit ==
  ASSUME BlogsInit
  PROVE  LikesInv
<1>1. IsFiniteSet(Users) /\ Cardinality(likers) \in Nat
  BY FollowsAssumption, BlogsAssumption, FS_Subset, FS_CardinalityType DEF BlogsInit
<1>2. liked = Cardinality(likers) /\ slips = 0
  BY DEF BlogsInit
<1>3. ASSUME NEW pc \in LikePcs PROVE Clicks(pc) = 0
  <2>. DEFINE f == [u \in Users |-> clicks[u][pc]]
  <2>1. DOMAIN f = Users /\ \A u \in Users : f[u] = 0
    BY DEF BlogsInit
  <2>2. Clicks(pc) = SumFunctionOnSet(f, Users)
    BY <2>1 DEF Clicks, SumFunction
  <2>. HIDE DEF f
  <2>. QED
    BY <1>1, <2>1, <2>2, SumZero
<1>4. SumFunction(Excess) = 0
  <2>1. DOMAIN Excess = Users /\ \A u \in Users : Excess[u] = 0
    BY DEF BlogsInit, Excess, InFlight, Useful, LikePcs
  <2>2. SumFunction(Excess) = SumFunctionOnSet(Excess, Users)
    BY <2>1 DEF SumFunction
  <2>. QED
    BY <1>1, <2>1, <2>2, SumZero
<1>. QED
  BY <1>1, <1>2, <1>3, <1>4 DEF LikesInv, LikePcs

LEMMA LikesStay ==
  ASSUME LikesInv, UNCHANGED likeVars
  PROVE  LikesInv'
<1>1. Clicks("add")' = Clicks("add") /\ Clicks("remove")' = Clicks("remove")
  BY DEF Clicks, likeVars
<1>2. Excess' = Excess
  BY DEF Excess, InFlight, Useful, likeVars
<1>. QED
  BY <1>1, <1>2 DEF LikesInv, likeVars

LEMMA LikesNext ==
  ASSUME BlogsTypeOK, BlogsTypeOK', LikesInv, [BlogsNext]_vars
  PROVE  LikesInv'
<1>1. \/ UNCHANGED likeVars
      \/ \E u \in Users : ClickLike(u) \/ UpdateLiked(u) \/ UpdateLikers(u) \/ LikeFails(u)
  BY DEF BlogsNext, SaveBlog, Push, PushFails, Tick, Reset, Fetch, vars, blogVars
<1>. QED
  BY <1>1, LikesStep, LikesStay

LEMMA LikesBound ==
  ASSUME BlogsTypeOK, LikesInv
  PROVE  LikesWithinSlips
<1>1. IsFiniteSet(Users) /\ Cardinality(likers) \in Nat /\ liked \in Nat /\ slips \in Nat
  BY FollowsAssumption, FS_Subset, FS_CardinalityType DEF BlogsTypeOK
<1>2. ASSUME NEW pc \in LikePcs PROVE Clicks(pc) \in Nat
  <2>. DEFINE f == [u \in Users |-> clicks[u][pc]]
  <2>1. DOMAIN f = Users /\ \A u \in Users : f[u] \in Nat
    BY DEF BlogsTypeOK
  <2>2. Clicks(pc) = SumFunctionOnSet(f, Users)
    BY <2>1 DEF Clicks, SumFunction
  <2>. HIDE DEF f
  <2>. QED
    BY <1>1, <2>1, <2>2, SumNat
<1>3. SumFunction(Excess) \in Nat
  <2>1. DOMAIN Excess = Users /\ \A u \in Users : Excess[u] \in Nat
    BY ClicksType DEF Excess
  <2>2. SumFunction(Excess) = SumFunctionOnSet(Excess, Users)
    BY <2>1 DEF SumFunction
  <2>. QED
    BY <1>1, <2>1, <2>2, SumNat
<1>4. Clicks("add") \in Nat /\ Clicks("remove") \in Nat
  BY <1>2 DEF LikePcs
<1>. QED
  BY <1>1, <1>3, <1>4 DEF LikesInv, LikesWithinSlips

-----------------------------------------------------------------------------
(* The feed as a list                                                      *)

NewerThan(max, b) == {a \in Upto(max) : Newer(a, b)}
Rank(max, b)      == Cardinality(NewerThan(max, b))

LEMMA Scores ==
  ASSUME BlogsTypeOK
  PROVE  /\ \A b \in Blogs : b \in Nat /\ feed[Reader][b] \in Nat
         /\ now \in Nat
<1>1. Reader \in Users /\ MaxTime \in Nat /\ feed \in [Users -> [Blogs -> 0 .. MaxTime]]
  BY BlogsAssumption DEF BlogsTypeOK
<1>2. \A b \in Blogs : feed[Reader][b] \in 0 .. MaxTime
  BY <1>1
<1>3. now \in Nat
  BY BlogsAssumption DEF BlogsTypeOK
<1>. QED
  BY <1>1, <1>2, <1>3, BlogsAssumption

\* Notes are in one order, the newest first.
LEMMA NewerOrders ==
  ASSUME BlogsTypeOK, NEW a \in Blogs, NEW b \in Blogs
  PROVE  /\ ~Newer(a, a)
         /\ a # b => Newer(a, b) \/ Newer(b, a)
         /\ \A c \in Blogs : Newer(a, b) /\ Newer(b, c) => Newer(a, c)
BY Scores DEF Newer

LEMMA RankNat ==
  ASSUME NEW max, NEW b
  PROVE  /\ NewerThan(max, b) \in SUBSET Blogs
         /\ IsFiniteSet(NewerThan(max, b))
         /\ Rank(max, b) \in Nat
<1>1. NewerThan(max, b) \in SUBSET Blogs
  BY DEF NewerThan, Upto
<1>. QED
  BY <1>1, PartsFinite DEF Rank

\* The rank of a note says where it is in the order.
LEMMA RankOrders ==
  ASSUME BlogsTypeOK, NEW max, NEW a \in Upto(max), NEW b \in Upto(max)
  PROVE  Newer(a, b) <=> Rank(max, a) < Rank(max, b)
<1>0. Upto(max) \subseteq Blogs
  BY DEF Upto
<1>1. ASSUME NEW x \in Upto(max), NEW y \in Upto(max), Newer(x, y)
      PROVE  Rank(max, x) < Rank(max, y)
  <2>1. NewerThan(max, x) \in SUBSET NewerThan(max, y)
    <3>1. \A c \in Upto(max) : Newer(c, x) => Newer(c, y)
      BY <1>0, <1>1, NewerOrders
    <3>. QED
      BY <3>1 DEF NewerThan
  <2>2. x \in NewerThan(max, y) /\ x \notin NewerThan(max, x)
    BY <1>0, <1>1, NewerOrders DEF NewerThan
  <2>3. /\ IsFiniteSet(NewerThan(max, y))
        /\ Rank(max, x) \in Nat /\ Rank(max, y) \in Nat
    BY RankNat
  <2>4. Rank(max, x) =< Rank(max, y) /\ Rank(max, x) # Rank(max, y)
    BY <2>1, <2>2, <2>3, FS_Subset DEF Rank
  <2>. QED
    BY <2>3, <2>4
<1>2. a # b => Newer(a, b) \/ Newer(b, a)
  BY <1>0, NewerOrders
<1>3. Rank(max, a) \in Nat /\ Rank(max, b) \in Nat
  BY RankNat
<1>. QED
  BY <1>1, <1>2, <1>3

\* The first k notes of the list.
Head(max, k) == {b \in Upto(max) : Rank(max, b) < k}

\* There are k of them, if there is one after them.
LEMMA HeadFull ==
  ASSUME BlogsTypeOK, NEW max, NEW k \in Nat,
         NEW b \in Upto(max), Rank(max, b) >= k
  PROVE  IsFiniteSet(Head(max, k)) /\ Cardinality(Head(max, k)) = k
<1>0. Upto(max) \subseteq Blogs /\ \A a : Rank(max, a) \in Nat
  BY RankNat DEF Upto
<1>. DEFINE H == Head(max, k)
            T == {Rank(max, a) : a \in Upto(max) \ H}
<1>1. H \in SUBSET Blogs /\ IsFiniteSet(H) /\ Cardinality(H) \in Nat
  <2>1. H \in SUBSET Blogs
    BY <1>0 DEF Head
  <2>. QED
    BY <2>1, PartsFinite
<1>2. Cardinality(H) =< k
  <2>. DEFINE f == [a \in H |-> Rank(max, a)]
  <2>1. \A a \in H : Rank(max, a) \in 0 .. k - 1
    BY <1>0 DEF Head
  <2>2. \A x, y \in H : Rank(max, x) = Rank(max, y) => x = y
    <3>. SUFFICES ASSUME NEW x \in H, NEW y \in H, Rank(max, x) = Rank(max, y), x # y
                  PROVE  FALSE
      OBVIOUS
    <3>1. x \in Upto(max) /\ y \in Upto(max)
      BY DEF Head
    <3>2. Newer(x, y) \/ Newer(y, x)
      BY <1>0, <3>1, NewerOrders
    <3>. QED
      BY <1>0, <3>1, <3>2, RankOrders
  <2>3. f \in Injection(H, 0 .. k - 1)
    BY <2>1, <2>2 DEF Injection, IsInjective
  <2>4. IsFiniteSet(0 .. k - 1) /\ Cardinality(0 .. k - 1) = k
    BY FS_Interval
  <2>5. Cardinality(H) =< Cardinality(0 .. k - 1)
    BY <2>3, <2>4, FS_Injection
  <2>. QED
    BY <2>4, <2>5
<1>3. Cardinality(H) >= k
  <2>1. T \subseteq Nat /\ T # {}
    BY <1>0 DEF Head
  <2>2. PICK n \in T : \A m \in T : n =< m
    <3>. HIDE DEF T
    <3>. QED
      BY <2>1, NatMin
  <2>3. PICK c \in Upto(max) \ H : n = Rank(max, c)
    BY <2>2
  <2>4. \A a \in Upto(max) \ H : Rank(max, c) =< Rank(max, a)
    BY <2>2, <2>3
  <2>5. \A a \in Upto(max) : Newer(a, c) => a \in H
    <3>. SUFFICES ASSUME NEW a \in Upto(max), Newer(a, c), a \notin H
                  PROVE  FALSE
      OBVIOUS
    <3>1. Rank(max, a) < Rank(max, c) /\ Rank(max, c) =< Rank(max, a)
      BY <2>4, RankOrders
    <3>. QED
      BY <1>0, <3>1
  <2>6. NewerThan(max, c) \in SUBSET H
    BY <2>5 DEF NewerThan
  <2>7. Rank(max, c) >= k
    BY <1>0, <2>3 DEF Head
  <2>8. Rank(max, c) =< Cardinality(H)
    BY <1>1, <2>6, FS_Subset DEF Rank
  <2>. QED
    BY <1>0, <1>1, <2>7, <2>8
<1>. QED
  BY <1>1, <1>2, <1>3

\* A request returns a full list as long as a note follows it.
LEMMA ListFull ==
  ASSUME BlogsTypeOK, NEW max, NEW k \in Nat,
         NEW b \in Upto(max), Rank(max, b) >= k + PageSize
  PROVE  Cardinality(List(max, k)) = PageSize
<1>0. PageSize \in Nat /\ k + PageSize \in Nat /\ \A a : Rank(max, a) \in Nat
  BY BlogsAssumption, RankNat
<1>1. Rank(max, b) >= k
  BY <1>0
<1>2. /\ IsFiniteSet(Head(max, k)) /\ Cardinality(Head(max, k)) = k
      /\ IsFiniteSet(Head(max, k + PageSize))
      /\ Cardinality(Head(max, k + PageSize)) = k + PageSize
  BY <1>0, <1>1, HeadFull
<1>3. List(max, k) = Head(max, k + PageSize) \ Head(max, k)
  <2>1. \A a \in Upto(max) : Rank(max, a) \in k .. k + PageSize - 1
          <=> Rank(max, a) < k + PageSize /\ ~(Rank(max, a) < k)
    BY <1>0
  <2>2. List(max, k) = {a \in Upto(max) : Rank(max, a) \in k .. k + PageSize - 1}
    BY DEF List, Rank, NewerThan
  <2>. QED
    BY <2>1, <2>2 DEF Head
<1>4. Head(max, k + PageSize) \cap Head(max, k) = Head(max, k)
  BY <1>0 DEF Head
<1>5. Cardinality(Head(max, k + PageSize) \ Head(max, k))
        = Cardinality(Head(max, k + PageSize)) - Cardinality(Head(max, k))
  BY <1>2, <1>4, FS_Difference
<1>. QED
  BY <1>0, <1>2, <1>3, <1>5

-----------------------------------------------------------------------------
(* Scrolling                                                               *)

\* While no note changes its place, every note that is due and was not shown
\* comes at or after the place the page asks for next, and the page goes on.
StillToCome ==
  ~page.moved =>
    \A b \in page.due \ page.shown :
      page.more /\ b \in Upto(page.max) /\ Rank(page.max, b) >= page.offset

ScrollInv ==
  /\ \A b \in page.due : feed[Reader][b] > 0
  /\ StillToCome

LEMMA PageType ==
  ASSUME BlogsTypeOK
  PROVE  /\ page \in Pages /\ page.max \in Nat /\ page.offset \in Nat
         /\ page.due \subseteq Blogs
BY DEF BlogsTypeOK, Pages

LEMMA ScrollReset ==
  ASSUME BlogsTypeOK, ScrollInv, Reset
  PROVE  ScrollInv'
<1>. PICK clock \in 0 .. MaxTime :
       page' = [max |-> clock + 1, offset |-> 0, shown |-> {}, more |-> TRUE,
                due |-> Upto(clock + 1), moved |-> FALSE]
  BY DEF Reset
<1>1. feed' = feed
  BY DEF Reset, feedVars
<1>2. ASSUME NEW b \in page'.due
      PROVE  /\ b \in Upto(page.max)' /\ feed'[Reader][b] > 0
             /\ Rank(page.max, b)' >= page'.offset
  <2>1. b \in Upto(clock + 1) /\ page'.max = clock + 1 /\ page'.offset = 0
    BY <1>2
  <2>2. b \in Upto(page.max)' /\ feed[Reader][b] > 0
    BY <1>1, <2>1 DEF Upto
  <2>3. Rank(page.max, b)' \in Nat
    <3>1. NewerThan(page.max, b)' \in SUBSET Blogs
      BY DEF NewerThan, Upto
    <3>. QED
      BY <3>1, PartsFinite DEF Rank
  <2>. QED
    BY <1>1, <2>1, <2>2, <2>3
<1>3. page'.more
  OBVIOUS
<1>. QED
  BY <1>2, <1>3 DEF ScrollInv, StillToCome

\* A list takes the first of the notes to come; the place after it is the
\* same in the shorter feed that starts at the last score of the list.
LEMMA ScrollFetch ==
  ASSUME BlogsTypeOK, ScrollInv, Fetch
  PROVE  ScrollInv'
<1>. DEFINE max == page.max
            k == page.offset
            list == List(max, k)
            min == MinTime(list)
<1>1. /\ page' = [page EXCEPT
           !.shown  = @ \cup list,
           !.more   = Cardinality(list) = PageSize,
           !.max    = IF list = {} THEN @ ELSE min,
           !.offset = IF list = {} THEN @ ELSE NextOffset(list)]
      /\ feed' = feed /\ now' = now /\ page.more
  BY DEF Fetch, feedVars
<1>2. /\ page'.shown = page.shown \cup list /\ page'.due = page.due /\ page'.moved = page.moved
      /\ page'.more = (Cardinality(list) = PageSize)
      /\ list # {} => page'.max = min /\ page'.offset = NextOffset(list)
  BY <1>1, PageType DEF Pages
<1>3. /\ max \in Nat /\ k \in Nat /\ page.due \subseteq Blogs
      /\ PageSize \in Nat /\ PageSize > 0
      /\ list \in SUBSET Upto(max) /\ Upto(max) \in SUBSET Blogs
  BY PageType, BlogsAssumption DEF List, Upto
<1>4. ASSUME ~page.moved, NEW b \in page.due, b \notin page.shown, b \notin list
      PROVE  /\ page'.more
             /\ b \in Upto(page'.max)
             /\ Rank(page'.max, b) >= page'.offset
  <2>1. b \in Upto(max) /\ Rank(max, b) >= k
    BY <1>4 DEF ScrollInv, StillToCome
  <2>2. Rank(max, b) \in Nat /\ Rank(max, b) >= k + PageSize
    <3>1. Rank(max, b) \in Nat
      BY RankNat
    <3>2. Rank(max, b) \notin k .. k + PageSize - 1
      BY <1>4, <2>1 DEF List, Rank, NewerThan
    <3>. QED
      BY <1>3, <2>1, <3>1, <3>2
  <2>3. Cardinality(list) = PageSize
    BY <1>3, <2>1, <2>2, ListFull
  <2>4. list # {}
    BY <1>3, <2>3, FS_EmptySet
  <2>5. min \in Nat /\ \A a \in list : min =< feed[Reader][a]
    BY <1>3, <2>4, MinTimeIs
  <2>6. PICK last \in list : min = feed[Reader][last]
    BY <1>3, <2>4, MinTimeIs
  <2>7. \A a \in list : a \in Upto(max) /\ Newer(a, b)
    <3>. SUFFICES ASSUME NEW a \in list
                  PROVE  a \in Upto(max) /\ Newer(a, b)
      OBVIOUS
    <3>1. a \in Upto(max) /\ Rank(max, a) \in k .. k + PageSize - 1
      BY DEF List, Rank, NewerThan
    <3>2. Rank(max, a) < Rank(max, b)
      BY <1>3, <2>2, <3>1
    <3>. QED
      BY <2>1, <3>1, <3>2, RankOrders
  <2>8. feed[Reader][b] =< min /\ feed[Reader][b] > 0 /\ b \in Blogs /\ feed[Reader][b] \in Nat
    <3>1. Newer(last, b)
      BY <2>7
    <3>2. b \in Blogs /\ last \in Blogs
      BY <1>3
    <3>. QED
      BY <2>6, <3>1, <3>2, Scores DEF Newer, ScrollInv
  <2>9. b \in Upto(min)
    BY <2>5, <2>8 DEF Upto
  <2>. DEFINE same == {a \in list : feed[Reader][a] = min}
  <2>10. /\ IsFiniteSet(list) /\ IsFiniteSet(same) /\ Offset(list) = Cardinality(same)
         /\ Cardinality(same) \in Nat /\ Cardinality(same) =< PageSize
    <3>1. list \in SUBSET Blogs
      BY <1>3
    <3>2. IsFiniteSet(list) /\ same \in SUBSET list
      BY <3>1, PartsFinite
    <3>3. IsFiniteSet(same) /\ Cardinality(same) =< Cardinality(list) /\ Cardinality(same) \in Nat
      BY <3>2, FS_Subset, FS_CardinalityType
    <3>. QED
      BY <2>3, <3>2, <3>3 DEF Offset
  <2>11. Rank(min, b) >= NextOffset(list)
    <3>1. CASE min = max
      <4>1. NextOffset(list) = k + Cardinality(same)
        BY <2>10, <3>1 DEF NextOffset
      <4>. QED
        BY <1>3, <2>2, <2>10, <3>1, <4>1
    <3>2. CASE min # max
      <4>1. NextOffset(list) = Cardinality(same)
        BY <2>10, <3>2 DEF NextOffset
      <4>2. same \in SUBSET NewerThan(min, b)
        <5>. SUFFICES ASSUME NEW a \in same
                      PROVE  a \in Upto(min) /\ Newer(a, b)
          BY DEF NewerThan
        <5>1. a \in Blogs /\ Newer(a, b) /\ a \in Upto(max) /\ feed[Reader][a] = min
          BY <1>3, <2>7
        <5>2. min > 0
          BY <2>5, <2>8
        <5>. QED
          BY <2>5, <5>1, <5>2 DEF Upto
      <4>3. IsFiniteSet(NewerThan(min, b)) /\ Rank(min, b) \in Nat
        BY RankNat
      <4>. QED
        BY <2>10, <4>1, <4>2, <4>3, FS_Subset DEF Rank
    <3>. QED
      BY <3>1, <3>2
  <2>. QED
    BY <1>2, <2>3, <2>4, <2>9, <2>11
<1>5. /\ Upto(page.max)' = Upto(page'.max)
      /\ \A b : Rank(page.max, b)' = Rank(page'.max, b)
  BY <1>1 DEF Upto, Rank, NewerThan, Newer
<1>. HIDE DEF max, k, list, min
<1>6. StillToCome'
  BY <1>2, <1>4, <1>5 DEF StillToCome
<1>. QED
  BY <1>1, <1>2, <1>6 DEF ScrollInv

\* A pushed note comes before those that it is newer than: their ranks grow.
LEMMA ScrollPush ==
  ASSUME BlogsTypeOK, BlogsTypeOK', ScrollInv, NEW b \in Blogs, NEW u \in Users, Push(b, u)
  PROVE  ScrollInv'
<1>1. /\ feed \in [Users -> [Blogs -> 0 .. MaxTime]]
      /\ Reader \in Users /\ now \in Nat /\ now > 0
  BY Scores, BlogsAssumption DEF BlogsTypeOK
<1>2. /\ now' = now
      /\ \A a \in Blogs : (u # Reader \/ a # b) => feed'[Reader][a] = feed[Reader][a]
      /\ u = Reader => feed'[Reader][b] = now
  BY <1>1 DEF Push
<1>3. /\ page'.max = page.max /\ page'.offset = page.offset /\ page'.due = page.due
      /\ page'.shown = page.shown /\ page'.more = page.more
      /\ page'.moved = (page.moved \/ (u = Reader /\ feed[Reader][b] \notin {0, now}))
  BY PageType DEF Push, Pages
<1>5. \A a \in page.due : feed'[Reader][a] > 0
  BY <1>1, <1>2, PageType DEF ScrollInv
<1>6. ASSUME ~page'.moved, NEW c \in page.due, c \notin page.shown
      PROVE  /\ page.more
             /\ c \in Upto(page.max)'
             /\ Rank(page.max, c)' >= page.offset
  <2>1. /\ page.more /\ c \in Upto(page.max) /\ Rank(page.max, c) >= page.offset
        /\ c \in Blogs /\ feed[Reader][c] > 0 /\ ~page.moved
    BY <1>3, <1>6, PageType DEF ScrollInv, StillToCome
  <2>2. \A a \in Blogs : feed[Reader][a] > 0 => feed'[Reader][a] = feed[Reader][a]
    <3>1. u = Reader => feed[Reader][b] \in {0, now}
      BY <1>3, <1>6
    <3>. QED
      BY <1>2, <3>1, Scores
  <2>3. \A a \in Upto(page.max) : a \in Upto(page.max)' /\ feed'[Reader][a] = feed[Reader][a]
    BY <1>3, <2>2, PageType DEF Upto
  <2>4. NewerThan(page.max, c) \in SUBSET (NewerThan(page.max, c)')
    BY <2>1, <2>3 DEF NewerThan, Newer
  <2>5. NewerThan(page.max, c)' \in SUBSET Blogs
    BY DEF NewerThan, Upto
  <2>6. /\ IsFiniteSet(NewerThan(page.max, c)')
        /\ Cardinality(NewerThan(page.max, c)') \in Nat
    BY <2>5, PartsFinite
  <2>7. Rank(page.max, c) =< Rank(page.max, c)' /\ Rank(page.max, c)' \in Nat
    BY <2>4, <2>6, FS_Subset DEF Rank
  <2>8. Rank(page.max, c) \in Nat
    BY RankNat
  <2>. QED
    BY <2>1, <2>3, <2>7, <2>8, PageType
<1>7. StillToCome'
  BY <1>3, <1>6 DEF StillToCome
<1>. QED
  BY <1>2, <1>3, <1>5, <1>7 DEF ScrollInv

LEMMA ScrollStays ==
  ASSUME ScrollInv, UNCHANGED <<feed, page>>
  PROVE  ScrollInv'
BY DEF ScrollInv, StillToCome, Rank, NewerThan, Newer, Upto

LEMMA ScrollNext ==
  ASSUME BlogsTypeOK, BlogsTypeOK', ScrollInv, [BlogsNext]_vars
  PROVE  ScrollInv'
<1>1. \/ UNCHANGED <<feed, page>>
      \/ \E b \in Blogs, u \in Users : Push(b, u)
      \/ Reset
      \/ Fetch
  BY DEF BlogsNext, ClickLike, UpdateLiked, UpdateLikers, LikeFails, ClickAt, ClickEnds, SaveBlog,
     PushFails, Tick, vars, blogVars, feedVars
<1>2. CASE UNCHANGED <<feed, page>>
  BY <1>2, ScrollStays
<1>. QED
  BY <1>1, <1>2, ScrollPush, ScrollReset, ScrollFetch

LEMMA ScrollInit ==
  ASSUME BlogsInit
  PROVE  ScrollInv
BY DEF BlogsInit, ScrollInv, StillToCome

-----------------------------------------------------------------------------
(* Theorems                                                                *)

BlogsInv == FollowsInv /\ BlogsTypeOK /\ LikesInv /\ ScrollInv

\* What the three parts need of each other, all of it kept by every step of
\* likeBlog, saveBlog, the follow requests, profile edits and the scrolling page.
THEOREM BlogsInvariance == BlogsSpec => []BlogsInv
<1>1. BlogsInit => BlogsInv
  BY InitFollows, TypeInit, LikesInit, ScrollInit DEF BlogsInit, BlogsInv
<1>2. BlogsInv /\ [BlogsNext]_vars => BlogsInv'
  <2>. SUFFICES ASSUME BlogsInv, [BlogsNext]_vars
                PROVE  BlogsInv'
    OBVIOUS
  <2>1. FollowsInv' /\ BlogsTypeOK'
    BY FollowsStays, TypeStep DEF BlogsInv, FollowsInv
  <2>2. LikesInv' /\ ScrollInv'
    BY <2>1, LikesNext, ScrollNext DEF BlogsInv
  <2>. QED
    BY <2>1, <2>2 DEF BlogsInv
<1>. QED
  BY <1>1, <1>2, PTL DEF BlogsSpec

\* The unsigned counter of likes, the clicks at each statement, the pushes
\* left for a follower and the offset of the page never run below zero, and
\* the score a page goes on from is one.
THEOREM BlogsTypeCorrect == BlogsSpec => []BlogsTypeOK
<1>1. BlogsInv => BlogsTypeOK
  BY DEF BlogsInv
<1>. QED
  BY <1>1, BlogsInvariance, PTL

\* The MySQL counter and the Redis set of the likes drift apart by at most
\* one for each failure and each click that overlaps another of its user, for
\* every number of users: overlaps of different users leave nothing.
THEOREM LikesDriftOnlySlips == BlogsSpec => []LikesWithinSlips
<1>1. BlogsInv => LikesWithinSlips
  BY LikesBound DEF BlogsInv
<1>. QED
  BY <1>1, BlogsInvariance, PTL

\* A reader who scrolls to the end has been shown all that was there when he
\* began, up to the time his browser's clock started him from, for every
\* browser clock, feed and page size: runs of one score longer than a page
\* are counted by the offset, and what is pushed meanwhile shifts nothing
\* past the place to go on from.
THEOREM ScrollShowsAll == BlogsSpec => []ScrollComplete
<1>1. BlogsInv => ScrollComplete
  BY DEF BlogsInv, ScrollInv, StillToCome, ScrollComplete
<1>. QED
  BY <1>1, BlogsInvariance, PTL
=============================================================================
