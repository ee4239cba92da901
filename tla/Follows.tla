------------------------------- MODULE Follows -------------------------------
(***************************************************************************)
(* Following and unfollowing (FollowServiceImpl).  One request is one      *)
(* MySQL transaction: it looks for the follow row, inserts or deletes it,  *)
(* updates a counter of each of the two users, writes the Redis set of the *)
(* follower, and commits.  tb_follow has no unique key on the pair, and    *)
(* Redis takes no part in the transaction.                                 *)
(*                                                                         *)
(* MySQL runs at its default isolation: reads see the snapshot of the      *)
(* first one, writes see the newest rows.  With no index but the primary   *)
(* key a delete scans and locks the whole table, so it waits for every     *)
(* uncommitted insert and delete and every insert waits for it.  What a    *)
(* transaction writes is kept in tx[t] until it commits; the row locks     *)
(* make that the same as writing at once.                                  *)
(*                                                                         *)
(* The counters have a second writer: a profile edit (UserServiceImpl)     *)
(* reads the user's whole row of tb_user_info and later writes it back,    *)
(* counters included, in a transaction that does not hold the read.        *)
(***************************************************************************)
EXTENDS Naturals, FiniteSets, FiniteSetsExt

CONSTANTS
  Users, None,
  Threads,         \* the threads that serve follow requests and profile edits
  InfosAtStart,    \* the sets of users who may have details at the start
  MaxRequests,     \* bound: requests that change something
  MaxFaults        \* bound: transactions and calls that fail

ASSUME FollowsAssumption ==
  /\ IsFiniteSet(Users)
  /\ None \notin Users
  /\ InfosAtStart \subseteq SUBSET Users
  /\ MaxRequests \in Nat
  /\ MaxFaults \in Nat

\* No page offers a user to follow himself.
Pairs == {p \in Users \X Users : p[1] # p[2]}

VARIABLES
  rows,       \* rows[<<u, v>>]: committed rows of u following v in tb_follow
  infos,      \* the users with a row in tb_user_info
  fans,       \* tb_user_info.fans
  followee,   \* tb_user_info.followee
  follows,    \* Redis, follows:{user}
  tx,         \* the transaction each thread is in
  torn,       \* history: pairs whose last transaction failed after its Redis write
  edit,       \* the profile edit each thread is in, with what it read
  missed,     \* missed[u], history: follows by or of u that were committed
              \* while an edit of u had read the counters and not yet saved
  requests, faults

store      == <<rows, infos, fans, followee>>
editVars   == <<edit, missed>>
followVars == <<store, editVars, follows, tx, torn, requests, faults>>

Idle == [pc |-> "idle", op |-> "none", user |-> None, target |-> None,
         seen |-> {}, locked |-> {}]

NoEdit == [user |-> None, found |-> FALSE, fans |-> 0, followee |-> 0]

Edits == {NoEdit} \cup [user : Users, found : BOOLEAN, fans : Nat, followee : Nat]

TxPcs == {"idle", "write", "infoOwn", "infoTarget", "own", "target", "redis", "commit"}

FollowsTypeOK ==
  /\ rows \in [Pairs -> Nat]
  /\ infos \subseteq Users
  /\ fans \in [Users -> Nat]
  /\ followee \in [Users -> Nat]
  /\ follows \in [Users -> SUBSET Users]
  /\ tx \in [Threads -> [pc : TxPcs, op : {"none", "follow", "unfollow"},
                         user : Users \cup {None}, target : Users \cup {None},
                         seen : SUBSET Users, locked : SUBSET Users]]
  /\ torn \subseteq Pairs
  /\ edit \in [Threads -> Edits]
  /\ missed \in [Users -> Nat]
  /\ requests \in Nat
  /\ faults \in Nat

FollowsInit ==
  /\ rows = [p \in Pairs |-> 0]
  /\ infos \in InfosAtStart
  /\ fans = [u \in Users |-> 0]
  /\ followee = [u \in Users |-> 0]
  /\ follows = [u \in Users |-> {}]
  /\ tx = [t \in Threads |-> Idle]
  /\ torn = {}
  /\ edit = [t \in Threads |-> NoEdit]
  /\ missed = [u \in Users |-> 0]
  /\ requests = 0
  /\ faults = 0

-----------------------------------------------------------------------------
(* A transaction                                                           *)

Pair(t) == <<tx[t].user, tx[t].target>>

Written(t) == tx[t].pc \notin {"idle", "write"}

At(t, pc, next) ==
  /\ tx[t].pc = pc
  /\ tx' = [tx EXCEPT ![t].pc = next]

\* The transactions that wait for a lock of t.
Blocks(t, waiter) ==
  \/ /\ tx[waiter].pc = "write" /\ Written(t)
     /\ "unfollow" \in {tx[t].op, tx[waiter].op}
  \/ tx[waiter].pc = "infoOwn" /\ tx[waiter].user \in tx[t].locked \ tx[waiter].seen
  \/ tx[waiter].pc = "infoTarget" /\ tx[waiter].target \in tx[t].locked \ tx[waiter].seen
  \/ tx[waiter].pc = "own" /\ tx[waiter].user \in tx[t].locked
  \/ tx[waiter].pc = "target" /\ tx[waiter].target \in tx[t].locked

Free(t) == \A other \in Threads \ {t} : ~Blocks(other, t)

\* The count of the pair's rows is the first read; a follow of one who is
\* followed and an unfollow of one who is not return at once.
Begin(t, op, u, v) ==
  /\ tx[t] = Idle /\ edit[t] = NoEdit
  /\ requests < MaxRequests
  /\ requests' = requests + 1
  /\ (op = "follow") <=> (rows[<<u, v>>] = 0)
  /\ tx' = [tx EXCEPT ![t] = [pc |-> "write", op |-> op, user |-> u, target |-> v,
                              seen |-> infos, locked |-> {}]]
  /\ UNCHANGED <<store, editVars, follows, torn, faults>>

\* save, or the remove of all rows of the pair; one that removes none ends.
Write(t) ==
  /\ Free(t)
  /\ \/ tx[t].op = "follow" /\ At(t, "write", "infoOwn")
     \/ tx[t].op = "unfollow" /\ rows[Pair(t)] > 0 /\ At(t, "write", "own")
     \/ tx[t].op = "unfollow" /\ rows[Pair(t)] = 0 /\ tx[t].pc = "write"
        /\ tx' = [tx EXCEPT ![t] = Idle]
  /\ UNCHANGED <<store, editVars, follows, torn, requests, faults>>

\* ensureUserInfo: a user without details in the snapshot gets a row, unless
\* another transaction was first: the duplicate key rolls this one back.
EnsureUserInfo(t, pc, who, next) ==
  /\ \/ who \in tx[t].seen /\ At(t, pc, next)
     \/ /\ Free(t) /\ who \notin tx[t].seen \cup infos /\ tx[t].pc = pc
        /\ tx' = [tx EXCEPT ![t].pc = next, ![t].locked = @ \cup {who}]
     \/ /\ Free(t) /\ who \in infos \ tx[t].seen /\ tx[t].pc = pc
        /\ tx' = [tx EXCEPT ![t] = Idle]
  /\ UNCHANGED <<store, editVars, follows, torn, requests, faults>>

\* The update of a counter locks the user's row until the transaction ends.
LockInfo(t, pc, who, next) ==
  /\ Free(t)
  /\ tx[t].pc = pc
  /\ tx' = [tx EXCEPT ![t].pc = next, ![t].locked = @ \cup {who}]
  /\ UNCHANGED <<store, editVars, follows, torn, requests, faults>>

\* Bug: an unfollow leaves the set of the follower alone.
WriteSetAdds(t) ==
  /\ At(t, "redis", "commit")
  /\ follows' = [follows EXCEPT ![tx[t].user] =
       IF tx[t].op = "follow" THEN @ \cup {tx[t].target} ELSE @]
  /\ UNCHANGED <<store, editVars, torn, requests, faults>>

WriteSet(t) ==
  /\ At(t, "redis", "commit")
  /\ follows' = [follows EXCEPT ![tx[t].user] =
       IF tx[t].op = "follow" THEN @ \cup {tx[t].target} ELSE @ \ {tx[t].target}]
  /\ UNCHANGED <<store, editVars, torn, requests, faults>>

Decremented(n) == IF n > 0 THEN n - 1 ELSE 0

\* An edit of u that will write the counters back as it read them.
WillWriteBack(u) == \E s \in Threads : edit[s].user = u /\ edit[s].found

CountMissed(t) ==
  missed' = [u \in Users |->
    IF tx[t].op = "follow" /\ u \in {tx[t].user, tx[t].target} /\ WillWriteBack(u)
    THEN missed[u] + 1 ELSE missed[u]]

\* Bug: the counters are updated before the missing rows are inserted.
CommitCountsFirst(t) ==
  /\ tx[t].pc = "commit"
  /\ tx' = [tx EXCEPT ![t] = Idle]
  /\ torn' = torn \ {Pair(t)}
  /\ infos' = infos \cup {tx[t].user, tx[t].target}
  /\ rows' = [rows EXCEPT ![Pair(t)] = IF tx[t].op = "follow" THEN @ + 1 ELSE 0]
  /\ followee' = [followee EXCEPT ![tx[t].user] =
       IF tx[t].op = "unfollow" THEN Decremented(@) ELSE
       IF tx[t].user \in tx[t].seen THEN @ + 1 ELSE @]
  /\ fans' = [fans EXCEPT ![tx[t].target] =
       IF tx[t].op = "unfollow" THEN Decremented(@) ELSE @ + 1]
  /\ CountMissed(t)
  /\ UNCHANGED <<follows, edit, requests, faults>>

\* An unfollow removes all rows of the pair and counts one.
Commit(t) ==
  /\ tx[t].pc = "commit"
  /\ tx' = [tx EXCEPT ![t] = Idle]
  /\ torn' = torn \ {Pair(t)}
  /\ infos' = infos \cup {tx[t].user, tx[t].target}
  /\ rows' = [rows EXCEPT ![Pair(t)] = IF tx[t].op = "follow" THEN @ + 1 ELSE 0]
  /\ followee' = [followee EXCEPT ![tx[t].user] =
       IF tx[t].op = "follow" THEN @ + 1 ELSE Decremented(@)]
  /\ fans' = [fans EXCEPT ![tx[t].target] =
       IF tx[t].op = "follow" THEN @ + 1 ELSE Decremented(@)]
  /\ CountMissed(t)
  /\ UNCHANGED <<follows, edit, requests, faults>>

\* MySQL rolls the transaction back, Redis keeps what it was told.
RollBack(t) ==
  /\ tx' = [tx EXCEPT ![t] = Idle]
  /\ torn' = IF tx[t].pc = "commit" THEN torn \cup {Pair(t)} ELSE torn
  /\ UNCHANGED <<store, editVars, follows, requests>>

\* An exception (the Redis call's, whose write may have arrived), a crash or
\* a failed commit.
Fail(t) ==
  /\ faults < MaxFaults
  /\ faults' = faults + 1
  /\ \/ tx[t] # Idle /\ RollBack(t)
     \/ /\ edit[t] # NoEdit
        /\ edit' = [edit EXCEPT ![t] = NoEdit]
        /\ UNCHANGED <<store, missed, follows, tx, torn, requests>>

\* Users who follow each other wait for each other's counters, and MySQL
\* picks one of the circle.
Deadlocked(t) ==
  /\ \E circle \in SUBSET Threads :
       /\ t \in circle
       /\ \A s \in circle :
            (\E r \in circle : Blocks(r, s)) /\ (\E r \in circle : Blocks(s, r))
  /\ RollBack(t)
  /\ UNCHANGED faults

-----------------------------------------------------------------------------
(* A profile edit                                                          *)

\* getById: a user without details gets an object without counters.
ReadInfo(t, u) ==
  /\ tx[t] = Idle /\ edit[t] = NoEdit
  /\ requests < MaxRequests
  /\ requests' = requests + 1
  /\ edit' = [edit EXCEPT ![t] =
       IF u \in infos
       THEN [user |-> u, found |-> TRUE, fans |-> fans[u], followee |-> followee[u]]
       ELSE [NoEdit EXCEPT !.user = u]]
  /\ UNCHANGED <<store, missed, follows, tx, torn, faults>>

\* saveOrUpdate, a transaction of its own: it waits for the row's lock, and
\* updates the fields that are not null or inserts the row.  Its own look for
\* the row cannot matter: one that is there stays, and an insert that comes
\* second is refused as a duplicate and ends like an update without counters.
SaveInfo(t) ==
  LET u == edit[t].user IN
    /\ edit[t] # NoEdit
    /\ \A s \in Threads : u \notin tx[s].locked
    /\ infos' = infos \cup {u}
    /\ fans' = IF edit[t].found THEN [fans EXCEPT ![u] = edit[t].fans] ELSE fans
    /\ followee' = IF edit[t].found THEN [followee EXCEPT ![u] = edit[t].followee]
                                    ELSE followee
    /\ edit' = [edit EXCEPT ![t] = NoEdit]
    /\ UNCHANGED <<rows, missed, follows, tx, torn, requests, faults>>

FollowsNext ==
  \E t \in Threads :
    \/ \E op \in {"follow", "unfollow"}, p \in Pairs : Begin(t, op, p[1], p[2])
    \/ Write(t)
    \/ EnsureUserInfo(t, "infoOwn", tx[t].user, "infoTarget")
    \/ EnsureUserInfo(t, "infoTarget", tx[t].target, "own")
    \/ LockInfo(t, "own", tx[t].user, "target")
    \/ LockInfo(t, "target", tx[t].target, "redis")
    \/ WriteSet(t)
    \/ Commit(t)
    \/ Fail(t)
    \/ Deadlocked(t)
    \/ \E u \in Users : ReadInfo(t, u)
    \/ SaveInfo(t)

FollowsSpec == FollowsInit /\ [][FollowsNext]_followVars

-----------------------------------------------------------------------------
(* Safety                                                                  *)

\* Common follows are read from Redis, the feed and the button from MySQL:
\* outside the moment between the Redis write and the commit the two agree,
\* however many clicks overlap, unless a failure hit just that moment; the
\* next committed change of the pair then repairs it.
SetFollowsRows ==
  \A p \in Pairs \ torn :
    (\A t \in Threads : ~(tx[t].pc = "commit" /\ Pair(t) = p)) =>
      (p[2] \in follows[p[1]] <=> rows[p] > 0)

\* "The follow transaction changes the relation and the counters together"
\* (design notes), so a counter may overcount, because overlapping clicks
\* insert two rows that one unfollow removes, but should lose no follow.  An
\* edit of the user's profile that writes back counters it read before does
\* lose follows: those committed between its read and its save, and no other
\* overlap, duplicate, failure or deadlock loses any.
CountersNotBelowRows ==
  \A u \in Users :
    /\ followee[u] + missed[u] >= SumFunctionOnSet(rows, {p \in Pairs : p[1] = u})
    /\ fans[u] + missed[u] >= SumFunctionOnSet(rows, {p \in Pairs : p[2] = u})
=============================================================================
