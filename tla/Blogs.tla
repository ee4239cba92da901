-------------------------------- MODULE Blogs --------------------------------
(***************************************************************************)
(* Notes: publishing with a push to the feeds of the followers, likes, the *)
(* scrolled reading of a feed (BlogServiceImpl), and the page that scrolls *)
(* it (info.html).  None of it runs in a transaction: each MySQL statement *)
(* commits at once.                                                        *)
(*                                                                         *)
(* The likes are those of one note; different notes share nothing.         *)
(* Notes are numbered in the order Redis keeps members of equal score.     *)
(***************************************************************************)
EXTENDS Follows

CONSTANTS
  Blogs,          \* bound: the notes, 1 .. n
  PageSize,       \* 2 in the code
  StartTime, MaxTime,   \* bounds of the clocks
  Reader,         \* the user whose page scrolls
  FeedsAtStart,   \* feeds the reader may start with
  LikersAtStart   \* the users who like the note

ASSUME BlogsAssumption ==
  /\ Blogs \subseteq Nat \ {0} /\ IsFiniteSet(Blogs)
  /\ PageSize \in Nat \ {0}
  /\ StartTime \in Nat \ {0} /\ MaxTime \in Nat /\ StartTime =< MaxTime
  /\ Reader \in Users
  /\ FeedsAtStart \subseteq [Blogs -> 0 .. StartTime]
  /\ LikersAtStart \subseteq Users

VARIABLES
  now,       \* the server's clock in milliseconds
  post,      \* post[b]: where saveBlog of the note is
  feed,      \* feed[u][b]: score of the note in feed:{u}, 0 if absent
  liked,     \* tb_blog.liked
  likers,    \* Redis, blog:liked:{id}
  clicks,    \* clicks[u][pc]: like requests of u at pc
  slips,     \* history: like requests that failed or overlapped one of the same user
  page       \* the reader's page

likeVars == <<liked, likers, clicks, slips>>
feedVars == <<now, post, feed>>
blogVars == <<feedVars, likeVars, page>>
vars     == <<followVars, blogVars>>

LikePcs == {"like", "unlike", "add", "remove"}

\* params, blogs2 and followMore of the page; due and moved are history: the
\* notes in the feed when the page was reset, as far as they are not newer
\* than the time it starts from, and whether a note changed its place since.
Pages == [max : Nat, offset : Nat, shown : SUBSET Blogs, more : BOOLEAN,
          due : SUBSET Blogs, moved : BOOLEAN]

BlogsTypeOK ==
  /\ now \in StartTime .. MaxTime
  /\ post \in [Blogs -> [author : Users \cup {None}, followers : [Users -> Nat]]]
  /\ feed \in [Users -> [Blogs -> 0 .. MaxTime]]
  /\ liked \in Nat
  /\ likers \subseteq Users
  /\ clicks \in [Users -> [LikePcs -> Nat]]
  /\ slips \in Nat
  /\ page \in Pages

Nobody == [u \in Users |-> 0]

BlogsInit ==
  /\ FollowsInit
  /\ now = StartTime
  /\ post = [b \in Blogs |-> [author |-> None, followers |-> Nobody]]
  /\ feed \in {[u \in Users |-> IF u = Reader THEN f ELSE [b \in Blogs |-> 0]] :
                 f \in FeedsAtStart}
  /\ likers = LikersAtStart
  /\ liked = Cardinality(likers)
  /\ clicks = [u \in Users |-> [pc \in LikePcs |-> 0]]
  /\ slips = 0
  /\ page = [max |-> 0, offset |-> 0, shown |-> {}, more |-> TRUE,
             due |-> {}, moved |-> FALSE]

\* A request that changes something, other than a follow.
Request ==
  /\ requests < MaxRequests
  /\ requests' = requests + 1
  /\ UNCHANGED <<store, editVars, follows, tx, torn, faults>>

Fault ==
  /\ faults < MaxFaults
  /\ faults' = faults + 1
  /\ UNCHANGED <<store, editVars, follows, tx, torn, requests>>

-----------------------------------------------------------------------------
(* likeBlog                                                                *)

\* Bug: whoever clicks is taken for one who does not like the note yet.
NextLikeAlways(u) == "like"

NextLike(u) == IF u \in likers THEN "unlike" ELSE "like"

\* The look into the Redis set decides what the request does.
ClickLike(u) ==
  /\ Request
  /\ clicks' = [clicks EXCEPT ![u][NextLike(u)] = @ + 1]
  /\ slips' = IF \E pc \in LikePcs : clicks[u][pc] > 0 THEN slips + 1 ELSE slips
  /\ UNCHANGED <<feedVars, page, liked, likers>>

ClickAt(u, from, to) ==
  /\ clicks[u][from] > 0
  /\ clicks' = [clicks EXCEPT ![u][from] = @ - 1, ![u][to] = @ + 1]
  /\ UNCHANGED <<followVars, feedVars, page, slips>>

ClickEnds(u, at) ==
  /\ clicks[u][at] > 0
  /\ clicks' = [clicks EXCEPT ![u][at] = @ - 1]
  /\ UNCHANGED <<feedVars, page>>

\* Bug: the column is signed.
UpdateLikedSigned(u) ==
  \/ ClickAt(u, "like", "add") /\ liked' = liked + 1 /\ UNCHANGED likers
  \/ ClickAt(u, "unlike", "remove") /\ liked' = liked - 1 /\ UNCHANGED likers

\* The column is unsigned: MySQL refuses to go below zero.
UpdateLiked(u) ==
  \/ ClickAt(u, "like", "add") /\ liked' = liked + 1 /\ UNCHANGED likers
  \/ liked > 0 /\ ClickAt(u, "unlike", "remove") /\ liked' = liked - 1
     /\ UNCHANGED likers
  \/ liked = 0 /\ ClickEnds(u, "unlike") /\ UNCHANGED <<followVars, liked, likers, slips>>

UpdateLikers(u) ==
  /\ \/ ClickEnds(u, "add") /\ likers' = likers \cup {u}
     \/ ClickEnds(u, "remove") /\ likers' = likers \ {u}
  /\ UNCHANGED <<followVars, liked, slips>>

\* A call throws, though it may have done its work, or the process dies.
LikeFails(u) ==
  /\ Fault
  /\ slips' = slips + 1
  /\ \/ ClickEnds(u, "like") /\ liked' \in {liked, liked + 1} /\ UNCHANGED likers
     \/ ClickEnds(u, "unlike") /\ liked' \in {liked, Decremented(liked)} /\ UNCHANGED likers
     \/ ClickEnds(u, "add") /\ likers' \in {likers, likers \cup {u}} /\ UNCHANGED liked
     \/ ClickEnds(u, "remove") /\ likers' \in {likers, likers \ {u}} /\ UNCHANGED liked

-----------------------------------------------------------------------------
(* saveBlog                                                                *)

\* The insert, and the query of the author's followers: a list of rows.
SaveBlog(b, author) ==
  /\ Request
  /\ post[b].author = None /\ \A u \in Users : feed[u][b] = 0
  /\ post' = [post EXCEPT ![b] =
       [author |-> author,
        followers |-> [u \in Users |-> IF u = author THEN 0 ELSE rows[<<u, author>>]]]]
  /\ UNCHANGED <<now, feed, likeVars, page>>

\* One ZADD for every row, with the time of the push; a second row of the
\* same follower moves the note.
Push(b, u) ==
  /\ post[b].followers[u] > 0
  /\ post' = [post EXCEPT ![b].followers[u] = @ - 1]
  /\ feed' = [feed EXCEPT ![u][b] = now]
  /\ page' = [page EXCEPT !.moved = @ \/ (u = Reader /\ feed[u][b] \notin {0, now})]
  /\ UNCHANGED <<followVars, likeVars, now>>

PushFails(b) ==
  /\ Fault
  /\ post[b].followers # Nobody
  /\ post' = [post EXCEPT ![b].followers = Nobody]
  /\ UNCHANGED <<now, feed, likeVars, page>>

Tick ==
  /\ now < MaxTime
  /\ now' = now + 1
  /\ UNCHANGED <<followVars, post, feed, likeVars, page>>

-----------------------------------------------------------------------------
(* queryBlogOfFollow and the page                                          *)

Upto(max) == {b \in Blogs : feed[Reader][b] \in 1 .. max}

Newer(a, b) ==
  \/ feed[Reader][a] > feed[Reader][b]
  \/ feed[Reader][a] = feed[Reader][b] /\ a > b

\* ZREVRANGEBYSCORE feed max 0 LIMIT offset PageSize.
List(max, offset) ==
  {b \in Upto(max) : Cardinality({a \in Upto(max) : Newer(a, b)})
                       \in offset .. offset + PageSize - 1}

MinTime(list) == Min({feed[Reader][b] : b \in list})

\* Bug: the offset is the length of the list.
OffsetOfList(list) == Cardinality(list)

Offset(list) == Cardinality({b \in list : feed[Reader][b] = MinTime(list)})

\* queryBlogsOfFollow(true): back to the top, which is Date.now() + 1 of the
\* browser.  Its clock may be ahead of the server's or behind; when it is
\* behind, the page starts below the newest notes and never asks for them.
Reset ==
  /\ \E clock \in 0 .. MaxTime :
       page' = [max |-> clock + 1, offset |-> 0, shown |-> {}, more |-> TRUE,
                due |-> Upto(clock + 1), moved |-> FALSE]
  /\ UNCHANGED <<followVars, feedVars, likeVars>>

\* Bug: the page forgets how far it is in a run of equal times.
NextOffsetForgets(list) == Offset(list)

NextOffset(list) ==
  IF MinTime(list) = page.max THEN page.offset + Offset(list) ELSE Offset(list)

\* The page asks for one list at a time; a list that is not full is the last.
Fetch ==
  /\ page.more
  /\ UNCHANGED <<followVars, feedVars, likeVars>>
  /\ \E list \in {List(page.max, page.offset)} :
       page' = [page EXCEPT
         !.shown  = @ \cup list,
         !.more   = Cardinality(list) = PageSize,
         !.max    = IF list = {} THEN @ ELSE MinTime(list),
         !.offset = IF list = {} THEN @ ELSE NextOffset(list)]

BlogsNext ==
  \/ FollowsNext /\ UNCHANGED blogVars
  \/ \E u \in Users : ClickLike(u) \/ UpdateLiked(u) \/ UpdateLikers(u) \/ LikeFails(u)
  \/ \E b \in Blogs, u \in Users : SaveBlog(b, u) \/ Push(b, u)
  \/ \E b \in Blogs : PushFails(b)
  \/ Tick
  \/ Reset
  \/ Fetch

BlogsSpec == BlogsInit /\ [][BlogsNext]_vars

-----------------------------------------------------------------------------
(* Safety                                                                  *)

Clicks(pc) == SumFunction([u \in Users |-> clicks[u][pc]])

\* The counter in MySQL and the set in Redis are written one after the other
\* and may drift apart for good, but only as far as there were failures and
\* clicks of one user that overlapped: clicks of different users, in any
\* order, leave no trace once they are done.
LikesWithinSlips ==
  LET expected == Cardinality(likers) + Clicks("add") IN
    /\ liked + Clicks("remove") =< expected + slips
    /\ expected =< liked + Clicks("remove") + slips

\* "offset handles equal timestamps, so that nothing is repeated or missed"
\* (design notes): the reader who scrolled to the end has seen every note
\* that was in the feed when the page was reset and not newer than the time
\* the browser started from, whatever was pushed meanwhile.  Notes newer than
\* a browser clock that is behind are not asked for until a later reset.  A
\* note that a second follow row pushes again may change its place and shift
\* the others; the claim is for feeds where none did.
ScrollComplete == ~page.more /\ ~page.moved => page.due \subseteq page.shown

-----------------------------------------------------------------------------
(* Liveness                                                                *)

\* The reader goes on scrolling.
FairBlogsSpec == BlogsSpec /\ WF_vars(Fetch)

\* A reader who has seen the first list and goes on comes to the end of the
\* feed, unless he goes back to the top: no list leads to itself.
ScrollEnds == page.shown # {} ~> (~page.more \/ page.shown = {})
=============================================================================
