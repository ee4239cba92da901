# Formal model of the hm-dianping backend

hm-dianping is a review and voucher site: a Spring Boot application in front of
MySQL, Redis and RabbitMQ. This directory holds TLA+ models of the parts whose
correctness depends on interleavings, failures and retries, TLC configurations
that check them on small instances, and TLAPS proofs of what matters most for
every size. Paths below are relative to `hm-dianping/src/main`; `J/` stands for
`java/com/hmdp/` and `R/` for `resources/`.

## Inventory

| Part | State | Operations | What is hard | What makes it correct | Model |
|---|---|---|---|---|---|
| Seckill Redis state: `R/seckill.lua`, `R/seckill_restore.lua`, `J/mq/PendingOrderService.java` | stock counter, reservation hash, legacy set of users, pending and failed sets, one detail hash per order | admission and compensation scripts; status writes by eight methods | methods of several commands, compensation repeated, late or for another order | slots plus stock are constant; a slot is freed only by its own order | `SeckillRedis` |
| Order pipeline: `J/service/impl/VoucherOrderServiceImpl.java`, `J/mq/VoucherOrderProducer.java`, `VoucherOrderConsumer`, `VoucherOrderFailedConsumer`, `PendingOrderRepublishTask`, `J/config/RabbitMqConfig.java` | order, retry, failed and parking queues; callbacks; the threads | reserve and publish, confirm and return callbacks, consume, retry, forward, recover, republish, compensate | all of it: crashes, redelivery, nack, unroutable messages, lost callbacks, stale checks | no accepted order is lost or left undecided; a failed order holds nothing | `OrderPipeline` |
| Order creation: `createVouchOrder`, `R/db/hmdp.sql` | order rows, stock column | insert, conditional stock update: one transaction from the listener, two commits from the synchronous path, which calls the method on `this` | duplicates and stock zero at the same time | never oversold, one row per user | `OrderPipeline` |
| Order status query: `querySeckillOrderStatus`, and the client that polls it | the client's last answer | reads Redis, then MySQL if there is no hash | reads between two writes; answers that late callbacks overwrite | a final answer stays true, an accepted order is not unknown, a client is answered | `OrderStatus` |
| Voucher publication: `J/service/impl/VoucherServiceImpl.java` | voucher rows, Redis stock and window | insert rows, then write Redis inside the transaction | rollback after the Redis write | what is listed is on sale; buyers of what does not exist get their slots back, unless a fault lost their message | `VoucherPublication` |
| Shop cache: `J/cache/ShopCacheService.java`, `J/mq/CacheInvalidation*`, `J/mq/CacheInvalidate*`, `ShopServiceImpl.update` | shop row, outbox row with lease, Redis entry, one local cache per instance, fan-out messages | read through two levels, update, claim, delete, broadcast, delayed second deletion | stale refill, expired leases, lost broadcasts | caches follow the row in the end; every event is finished or dead | `ShopCache` |
| Rate limiter: `R/rate_limit.lua`, `J/ratelimit/` | sorted set of request times | admit or refuse | clocks of several instances, read before the script | at most n admissions in any time shorter than the window by the error of the clocks | `SmsCodes` |
| SMS codes: `R/sms_reserve.lua`, `R/unlock.lua`, `J/sms/` | code, cool-down and daily counter per phone | reserve, store, send, take back | a late failure against a newer code; a counter that restarts | the daily quota; a delivered code is the one that works | `SmsCodes` |
| Login and sessions: `UserServiceImpl`, `RefreshTokenInterceptor`, `LoginInterceptor`, `UserHolder` | user rows, session hashes, a `ThreadLocal` per thread | log in, renew, log out, update the profile, serve a request | two first logins of a phone; a profile update against a logout; a pooled thread that keeps a user | a session names its phone's user; a handler sees its request's user | `Accounts` |
| Blogs and feed: `BlogServiceImpl`, the feed of `frontend/info.html` | counter in MySQL, set and feeds in Redis, the page's position | like, unlike, publish, push, scroll | two stores without a transaction; notes of one time across lists | counter and set drift no further than failures and overlapping clicks explain; scrolling misses nothing and ends | `Blogs` |
| Follows: `FollowServiceImpl`, and the profile edit in `UserServiceImpl.updateProfile` | rows and counters in MySQL, set in Redis | follow, unfollow; read the row with the counters, write it back | check then insert, Redis inside the transaction, locks in opposite orders, a stale row written back | the set is what the rows say; counters are below the rows only by follows that an edit overwrote | `Follows` |
| Everything else | | controllers, DTOs, mappers, uploads, nearby shops, shop types, activity messages, snowflake ids, order statistics, other pages, load tests | | | not modelled: see the last section |

How the parts interact. A request runs `seckill.lua`, which reserves a slot,
enters the order in the pending set and writes its detail hash in one atomic
step, and then publishes a message (or, with `hmdp.seckill.async-enabled` off,
writes the order to MySQL itself, without a transaction). The client gets the id of
the order and polls its status. The broker's confirm takes the order out of
the pending set; a nack, a return or an exception keeps it there. A listener
creates the order in MySQL; what it cannot process goes round the retry queue
and then, by a confirmed publish, to the failed queue, whose listener
compensates with `seckill_restore.lua` or, failing that too, parks the message
for an operator. When the broker does not confirm the parked message in five
seconds, the delivery stays with the failed listener, whose prefetch is one: it is
blocked until its channel closes. `EventuallyResolved` counts such an order as
waiting for an operator as well. Every ten seconds a task looks at pending orders:
it cleans up the ones MySQL knows, republishes the others and compensates those
that were republished too often.

Reads of a shop go through the local cache, Redis and MySQL. An update commits the
row and an outbox event in one transaction; every second each instance looks for
due events, claims one, deletes the shop from Redis and from its local cache,
broadcasts the deletion and schedules the event once more, after a delay, for the
second deletion.

A request for a code passes the limiter of its endpoint, reserves one send of its
phone, stores a code and calls the provider; when the call fails the code is taken
back, the reservation is not. `login` compares the code, inserts the user on the
first login and creates a session hash, whose key is the token. On every request
`RefreshTokenInterceptor` copies the hash into the thread's `UserHolder` and renews
its lifetime, `LoginInterceptor` asks whether there is a user, and the holder is
cleared when the request completes.

Publishing a seckill voucher inserts its two rows and writes its stock and its sale
window to Redis, inside one MySQL transaction that does not cover Redis. `seckill.lua`
asks only Redis whether a voucher can be bought; the task goes through the vouchers of
MySQL.

Following writes a row, two counters and the follower's set in Redis. Publishing a note
reads the rows and pushes the note to the feed of each follower; a page scrolls the feed
by time and offset. A like changes a counter in MySQL and then a set in Redis, and the
set decides what the next click does.

Sale, shop cache, accounts, and follows with notes share MySQL, Redis and the broker,
and take the id of the user from a session. No key or queue is written by two of them, and
one table is: `updateProfile` reads the row of the user in `tb_user_info`, with the counters
`fans` and `followee` that follows update, and writes it back some statements later
(`J/service/impl/UserServiceImpl.java:154`). The session side of that method is in
`Accounts` (`UpdateProfile`, `PutProfile`, `ExtendSession`), the row in `Follows`
(`ReadInfo`, `SaveInfo`): no step of the one depends on the other's state.

## Modules

* `SeckillRedis`: the keys of one voucher and every operation on them. A Lua
  script is one step. `markSendSuccess` and `markConsuming` read a status and
  then write; they are a test (`MaySendSuccess`, `MayConsume`) and a write that
  the caller runs in two steps.
* `OrderPipeline`: extends it with MySQL, the broker and the threads. Each
  thread is a program counter over the calls between which something else can
  happen: `request[o]`, the callbacks `confirms[o]` and `confirming[o]`,
  `consumer[c]`, `recovery`, `task[t]`. An action is named for the call it
  makes.
* `VoucherSale`: the abstract sale, three variables and three actions, which
  `OrderPipeline` implements under the mapping holders <- users with a slot,
  accepted <- orders that passed the script, sold <- rows in MySQL.
* `OrderStatus`: extends it with the clients that poll (`client[o]`) and the query they
  call, which reads the hash in one step and the row in another.
* `VoucherPublication`: extends it with the thread that publishes the voucher
  (`publisher`), the state of its rows (`row`: none, uncommitted, committed) and which
  keys Redis has (`keys`). `Gate` says which steps of the pipeline the voucher allows:
  an admission needs both keys, a stock update the committed row, a scan of the task a
  row that MySQL lists.
* `MCOrderPipeline`, `MCOrderStatus`, `MCVoucherPublication`: values for TLC.
* `OrderPipelineProofs`, `OrderVerdictProofs`, `OrderStatusProofs`,
  `VoucherPublicationProofs`, `ShopCacheProofs`, `AccountsProofs`, `FollowsProofs`,
  `BlogsProofs`: the proofs.

State and code of the pipeline:

| Variable | Code |
|---|---|
| `stock`, `reservation`, `legacy`, `pending`, `failed`, `data` | the keys of `J/mq/SeckillRedisKeys.java` |
| `dbOrders`, `dbStock` | `tb_voucher_order`, `tb_seckill_voucher.stock` |
| `orderQueue[o][k]`, `retryQueue[o][k]` | messages of `o` with `k` rejections in their `x-death` header |
| `unacked` | deliveries whose listener threw under manual acknowledgement |
| `failedQueue`, `parkingQueue` | the two last queues of `RabbitMqConfig` |
| `confirms` | confirm and return callbacks still to come |
| `issued` | history: orders that passed the script |
| `faults` | how many faults have happened, for the bound |

The shop cache has a module of its own, which shares nothing with the others.

* `ShopCache`: one shop, its two cache levels, the outbox and the broadcast.
  Readers, the outbox task of each instance and its listener are program
  counters again. `MCShopCache` gives it values.

State and code of the shop cache:

| Variable | Code |
|---|---|
| `row` | the row in `tb_shop`, as a version: 0 before it exists, one more per write |
| `outbox[e]` | the row of `tb_cache_invalidate_outbox` that the update to version `e` inserted |
| `redisEntry`, `local[i]` | `cache:shop:{id}` in Redis, the Caffeine cache of instance `i`; the Redis value 0 is the cached null |
| `reader[r]` | a thread in `ShopCacheService.queryShopById`, in one of its three ways: inside Caffeine's loader, after a failed lookup, with the local cache switched off |
| `worker[i]` | `CacheInvalidationOutboxTask` on instance `i`: the batch that `findDue` returned and the event it has claimed |
| `fanout[i]`, `bound[i]`, `parked` | the exclusive queue of instance `i`, whether it exists, and the parking queue |
| `consumer[i]` | `CacheInvalidateConsumer` under its retry interceptor |
| `failures`, `inFlight` | history: failures of an event in its stage; readers that were under way when its second deletion was scheduled |

What is abstracted in the cache: one shop (all keys carry its id); the content of an
entry, beyond the write it comes from; malformed entries in Redis; the order of
several due events beyond that of their ids; `next_retry_time`, which leaves when
an event is due open, and with it the backoff. The lease is the time that
matters: `RecoverExpired` may hit a holder that is gone, and, as a fault, one that
is only slow. That is real: no command timeout is configured for Redis, and the
default of the client is longer than the lease of 30 s.

Caffeine runs the loader of `get` under the lock of the key, and `invalidate`
waits for it (`Loading`); this is the library's documented behaviour and the
reason why a load of old content cannot be stored after the broadcast that was to
delete it.

Codes and accounts are two modules, one on top of the other.

* `SmsCodes`: the limiter, the two scripts and `SmsCodeService`, as the threads of
  `POST /user/code` run them, with time.
* `Accounts`: extends it with logins, sessions and requests on pooled threads. Its
  `Next` interleaves all of them; `login` compares with the code that `SmsCodes`
  stored. `MCAccounts` gives both their values.

| Variable | Code |
|---|---|
| `clock` | real time, which is Redis's time; keys with an expiry (`until`, `cooldown`) are gone from then on |
| `limiter` | the sorted set `rate:limit:...` of the endpoint and an address |
| `quota[p]` | `sms:send:{p}:cooldown` and `sms:send:{p}:daily` |
| `codes[p]`, `lastSaved[p]` | `login:code:p`; history: who stored a code last |
| `send[r]` | a thread in `RateLimitAspect.around` and `sendCode`; history: when its scripts let it pass |
| `users[p]`, `login[l]` | the row of `tb_user` with phone `p`; a thread in `login` |
| `sessions[l]`, `loggedOut` | the hash `login:token:<token>` created by login `l`: whose id it has, whether it has profile fields, the unit of its lifetime; history: tokens deleted by a logout |
| `thread[h]`, `holder[h]`, `leftover` | a Tomcat thread with its request; its `UserHolder`; history: threads whose last request ended without `afterCompletion` |

What is abstracted in the accounts: a request has one address and codes are never
equal by chance (one in a million); the contents of a profile; the two fields that
`updateProfile` writes one after the other; the lifetime of a session, of which only
the unit is kept (`ExpireSession` may come at any time). The stamp of a request is at
most `MaxLead` ahead of Redis's clock when it is taken and at most `MaxLag` behind it
when the script runs; the code guarantees no such bound, so the theorems hold for
whichever bound the operation of the clocks and the network gives. When a `preHandle`
throws, Spring calls `afterCompletion` only of the interceptors whose `preHandle` has
returned true; the refreshing interceptor is the first, so that nobody clears the
holder (`RenewFails`, `leftover`).

Follows and notes are two modules, one on top of the other.

* `Follows`: `FollowServiceImpl.follow`, a transaction of up to seven statements and a
  Redis write on each thread, with InnoDB's row locks (`Blocks`), waiting and deadlocks.
* `Blogs`: extends it with notes, likes, feeds and the reader's page; its `Next`
  interleaves them with follows, for a note goes to those who follow when it is written.
  `MCBlogs` gives both their values.

| Variable | Code |
|---|---|
| `rows`, `infos`, `fans`, `followee` | the committed `tb_follow` (a count per pair) and `tb_user_info` |
| `follows[u]` | the Redis set `follows:{u}` |
| `tx[t]` | a thread in `follow`: its statement, its snapshot of `tb_user_info`, the rows of it that it has locked; what it wrote itself becomes visible at its commit |
| `edit[t]`, `missed[u]` | a thread in `updateProfile` with the row it read; history: follows committed while such an edit of `u` was under way |
| `torn` | history: pairs whose last transaction failed between its Redis write and its commit |
| `post[b]`, `feed[u][b]` | a thread in `saveBlog` with the followers still to be pushed to; the time of a note in the sorted set `feed:{u}`, 0 if absent |
| `liked`, `likers`, `clicks[u]`, `slips` | `tb_blog.liked`, `blog:liked:{id}`, threads in `likeBlog`; history: failures and overlapping clicks of one user |
| `page` | `params`, `blogs2` and `followMore` of `frontend/info.html`, and as history what was due and whether a note moved |
| `now` | the clock of the application in milliseconds; a page starts from the browser's own (`Reset`) |

What is abstracted: one note for the likes, since notes share nothing; the score in
`blog:liked:{id}`, which orders the first five likers and decides nothing; contents.
`addLike` of the page has no guard against a second click, so clicks of one user may
overlap; the feed waits for one answer before the next request (`followLoading`), so a
fetch is one step, and it is the read of Redis that counts. In InnoDB a delete without
an index locks the table's rows and gaps, which makes it wait for every uncommitted
insert and delete and makes inserts wait for it. The dump shipped in `R/db/hmdp.sql`
has rows in `tb_follow` that no counter and no Redis set knows of; the model starts
from empty tables, where the program itself keeps the two in step.
One clock stamps all pushes: with several instances a note's time is that of the instance
that pushes it, and the feed is in the order of those times. The browser's clock, from which
a page starts (`info.html:144`), is any other time (`Reset`); when it is behind, the notes
newer than it are not asked for until the next reset, and `ScrollComplete` speaks of the
others. A user who follows himself, which no page offers, is left out (`Pairs`).

### What is abstracted

* One voucher: every key carries the voucher id and no operation touches two.
* Times, delays and error texts. A pending order may be due at any moment, a
  confirm callback may come late, a message may wait arbitrarily long.
* The writes of one `PendingOrderService` method (a sorted set, a set and a
  hash of the same order) are one step; a crash between two of them is not
  modelled. Its reads are separate steps.
* The transaction of `createVouchOrder`, as the listener calls it, is one step: it
  locks the stock row. `createOrderSynchronously` calls the method on `this`, past the
  proxy that opens the transaction; there its two statements are two steps, each of
  which commits (`SyncInsert`, `SyncDeduct`).
* A thread can crash by itself. The application may run as several instances
  and a crash of one thread at a time includes the crash of an instance as the
  sequence of its threads' crashes.
* Activity times: the sale is open whenever `Seckill` is taken; a refused
  request changes nothing. `SeckillReply` has all replies of the script.
* A message that the broker has stored is not lost by the broker (queues are
  durable, messages persistent).
* One listener takes the failed orders. Each instance has one, so two could handle copies
  of one order at once; what they call is what a listener and the task, which do run at
  once in the model, call.
* In the cache, a read that falls back after a failing local cache looks in Redis and MySQL
  again (`J/cache/ShopCacheService.java:71`); the model's read ends or goes on as a fresh
  one (`ReadLost`). A broadcast that its listener gives up is parked; a parking that fails
  is not modelled (`ConsumeLocal`), for nothing reads that queue.

## Runs

| Run | Instance | Checks | Shows |
|---|---|---|---|
| `ledgers` | 2 users with an order each, one of them admitted before reservations existed, stock 1, asynchronous, two attempts of the failed listener, 4 faults, returns and expiry | `RedisConservation`, `TypeOK`, `DbConservation`, `ImplementsSale` | compensating legacy and new orders never mints or burns a slot; Redis hands the one slot out again after a compensation, so several orders may reach MySQL, which takes only one |
| `rebuy` | 1 user, 2 orders, the first from before the reservations, stock 2, both modes, 3 faults, a polling client for each | `OneOrderPerUser`, `CompletedHasOrder`, `AcceptedNeverLost`, `FailedHoldsNothing`, `VerdictStaysTrue`, `AcceptedIsKnown`, `SlotFreedByItsOrder` | a second order of a user beside the leftovers of the first; an order that holds a slot always has a row, a pending entry or a message, a failed one holds nothing, and what a client was told stays true |
| `resolution` | 1 order, both modes, 1 retry, 1 republication, 1 attempt, 3 faults, fair | `EventuallyResolved` | every accepted order is decided, or waits for an operator |
| `publication` | 1 user, 2 orders, stock 1, both modes, 1 fault, publication with rollbacks, fair | `ListedIsOnSale`, `OnlyFaultsLoseMessages`, `PhantomSlotsReturn` | a listed voucher can be bought; who bought one that was rolled back gets the slot back, without the task, unless the fault lost the message of the order; only a fault does |
| `cache_fresh` | 2 instances, one of them with its local cache off, 2 readers, 1 update, 1 fault, prompt readers | `RedisFresh`, `LocalFresh`, `FinalIsFinal` | after the second deletion nothing older than the update is left in Redis, or in a local cache that has handled its broadcasts; what is finished stays finished |
| `cache_converges` | 1 instance, 1 reader, 1 update, 2 retries, 2 attempts, 3 faults, disconnections, failing local cache, fair | `TypeOK`, `DeadAfterRetries`, `EventuallyFinished`, `EventuallyFresh` | every event ends, and the caches follow the row whatever was lost |
| `accounts` | 2 requests for a code, 2 logins, 2 threads, 1 phone, stamps up to 1 late, 4 arrivals, 1 fault | `TypeOK`, `WindowBound`, `DailyBound`, `DeliveredCodeWorks`, `SessionOfItsPhone`, `HandlerSeesItsUser` | limits hold over real time; no failure takes away the code that was stored last and delivered; logins, logouts, renewals and profile updates never give a session a user that is not its own, nor a handler, unless a failing renewal left one on its thread |
| `social` | 2 users, 2 threads, 5 notes, page size 2; four notes share time 1 in the reader's feed at the start and note 3 is not yet written; times 1..2; 3 changing requests or profile edits, 1 fault; any browser clock; one user or both have details; one liker at the start; fair | `BlogsTypeOK`, `SetFollowsRows`, `CountersNotBelowRows`, `LikesWithinSlips`, `ScrollComplete`, `ScrollEnds` | the Redis set of follows is what MySQL says; follow counters miss only follows that a profile edit overwrote; likes are off by no more than failures and overlapping clicks explain; a feed whose notes share a time is scrolled to its end without a gap |
| `compensation_race` | 1 order, no fault | `OrderBackedByReservation` is violated | see findings |
| `sync_oversell` | 2 users with an order each, stock 1, synchronous, 1 fault | `NeverOversold` is violated | see findings |
| `poll_forever` | 1 order, no fault, fair | `PollersAreAnswered` is violated | see findings |
| `stale_retry_count` | 2 instances, 1 reader, 2 retries, 2 faults | `DeadAfterRetries` is violated | see findings |

The bounds, and why they are enough for the questions asked:

* `MaxRetry` (code: 3), `MaxRepublish` (code: 10) and `MaxAttempts` (code: 4) are
  the code's own limits, smaller. The code only compares a counter with its
  limit, so 0, 1 and 2 take every branch: at the limit, below it, and one round
  of each loop before it. `rebuy` has limits of 0 and three faults, which take a
  message from the first delivery to the failed listener and past it; `ledgers` goes
  round the attempts of that listener and parks the message after them; `resolution`
  goes round the retry queue and the task's republishing once.
* `MaxFaults` bounds crashes, exceptions, nacks and lost callbacks together. One
  fault reaches every handler of the admission, two reach a fault during the
  handling of another, and the third one during the recovery of the order. The
  safety properties of `rebuy` are proved for any number of faults. Reordering and
  delay need no fault.
* Users and orders: a conflict needs two orders, of one user (`rebuy`) or of two
  (`ledgers`). `ledgers` was also run with three orders, two of them
  of one user, and two faults; it holds.
* `Modes`: `ledgers` has only asynchronous instances, because the synchronous path
  oversells (the finding `sync_oversell`); Redis's ledger is proved for both modes.
* `CanReturn` and `CanExpire` switch unroutable messages and the 24-hour expiry
  of detail hashes. They are on where the ledgers are checked. They are off in the
  other runs of the sale: with returns `AcceptedNeverLost` fails
  (see findings), and an order whose hash expired while it was
  pending is given up without compensation, which takes a day.
* `publication` has one fault beyond the failing publication itself, which is enough to
  lose the only message of an order: by a nack, a send that throws or a crash before the
  send. It has no retries, `resolution` has; with two users, and
  with one user and one retry, it was run as well, and holds.
* Deadlock is not checked: a sale in which every order is decided stops, and so do
  the other instances when their requests and updates are used up.

For the cache: one update is what an entry can be older than, and the cached null
of a shop that is saved later the second kind of old entry; two instances are
what it takes to compete for a claim and to copy an old entry from one to the
other. `PromptReaders` says that reads under way at the first deletion end within
`double-delete-delay-ms`: it is the assumption that double deletion is built on,
and `RedisFresh` and `LocalFresh` hold only under it, while `EventuallyFresh` is
checked without it. A retry limit of 2 has a failure below it and one at it.

For the accounts: the limits are 1 per window of 3 and 1 per day of 3, so that two
requests exceed each of them, a window and a day pass within the four instants of a
run, and a late stamp matters. Three requests with a window limit of 2 were run as well,
and hold. Arrivals of all kinds (requests for codes, logins, HTTP requests) share a
budget of four: two sends and two logins, or a send, two logins that both find no
user, and a request. A request whose thread keeps a user needs
a send, a login and two requests. What needs more than that rests on the proofs, which
have no bound on time, arrivals or faults.

For follows and notes: two users and two threads are what two overlapping
clicks of one user, or two users following each other, need; three changing
requests allow follow/follow/unfollow of the same author, a follow in the middle of a
profile edit, two overlapping likes
and one after them, and a follow and two posts. Four notes of one time fill two
lists of two, so the offsets of successive requests have to add up, and a fifth
can be pushed between the lists; two instants are the least that has equal and
different times. The safety properties are also proved, without any of these
bounds.

Fairness (`Fairness` in `OrderPipeline`): each thread takes its next step, which
is what threads and a scheduler with a fixed delay do; callbacks arrive; a
waiting message is delivered in the end (strong, because several messages
compete for a listener); a pending order is picked by a scan again and again
(strong: it is due after at most 300 s, and scans follow one another). Buying,
faults, a channel closing and expiry are never forced.

Fairness in `ShopCache`: threads take their next step; scans follow one another,
each begins with the recovery of expired leases and finds what stays due (strong:
a task is idle between two scans); entries and leases expire; a connection comes
back. `invalidate` gets the lock of the key between two loads (strong). Reads,
writes and faults are never forced.

`OrderStatus` adds that clients go on polling (`PollFairness`). `VoucherPublication` asks
for the same fairness as the pipeline, of the steps its `Gate` allows, and that the
publishing thread runs on; it asks for none of the task and the confirms, which can do
nothing for an order of a voucher that was rolled back. `Blogs` asks
only that the reader goes on scrolling.

## Findings

* `compensation_race` (`J/mq/PendingOrderRepublishTask.java:80`): the task looks
  the order up in MySQL and runs the restore script later. While the message is
  still in a queue or in a listener, the order row can appear after the lookup:
  the slot is free, the row exists, and the voucher is sold once more in Redis
  than MySQL can take. MySQL still does not oversell (`DbConservation`).
* `sync_oversell` (`J/service/impl/VoucherOrderServiceImpl.java:150`): in synchronous
  mode `createVouchOrder` is called on `this`, so `@Transactional` has no effect and a
  row whose stock update fails, or never runs, stays. Every exception compensates,
  one after the order was created included, so that Redis sells the slot again; the
  next order is inserted as well, and MySQL has more orders than there was stock. In
  asynchronous mode the listener calls through the proxy.
* `poll_forever` (`J/mq/PendingOrderService.java:54`): an ack callback that read the
  status before the order was created writes `SENT` over `ORDER_CREATED`. The query
  looks in MySQL only when there is no hash, so the client of a completed order is
  answered `PROCESSING` until the hash expires, a day later. The answers that clients
  do get are true (`VerdictStaysTrue`).
* `stale_retry_count` (`J/mq/CacheInvalidationOutboxTask.java:87`): the retry count
  comes from the batch that `findDue` returned. Another instance may have moved the
  event to its second stage since; the failures of the first stage are then
  counted towards the limit of the second, and the event is given up early.

Four more behaviours are in the models. The first two are excluded by a constant where a
property is checked, the other two are exceptions the properties name:

* With `CanReturn`, the ack of a returned message that is handled only after the task
  has started to republish the order removes the pending entry
  (`J/mq/PendingOrderService.java:44` stands back from `ROUTE_FAILED`, not from
  `REPUBLISHING`); a crash before the send then loses the order with its slot. It takes
  a callback delayed by the retry delay of ten seconds or more, and `rebuy` with
  `CanReturn` on finds it. A `returnedMessage` that throws, whose ack then comes, does the
  same (`ReturnedThrows`).
* With `CanDisconnect`, an instance that loses its broker connection loses its queue
  (`J/config/RabbitMqConfig.java:223`) but keeps its local cache, and serves the old
  shop after the event was completed, for up to 60 s. `cache_fresh` with
  `CanDisconnect` on finds it; `EventuallyFresh` is checked with it on.
* A rolled-back publication leaves a voucher on sale in Redis. When a fault loses the only
  message of an order of it (a nack, a send that throws, a crash before the send), the order
  is only in the pending set, and `republishPendingOrders` goes through the vouchers that
  MySQL lists (`J/mq/PendingOrderRepublishTask.java:38`): the user keeps the slot for good.
  `docs/rabbitmq-reliability-completion-guide.md:244` says that the compensation task sends
  such an order again (`后续由补偿任务重投`). `Stranded` in `PhantomSlotsReturn` is this case.
* An edit of a profile writes back the counters it read: `fans` and `followee` lose the
  follows committed in between (`missed` in `CountersNotBelowRows`), although
  `docs/interview-prep/城享汇项目-07-MySQL表设计索引与主键.md:126` says that relation and
  counts are changed together. The pages do not show it, for `J/controller/UserController.java:90`
  counts the rows instead.

## Proofs

Every safety and action property that a passing run checks is also a theorem, for all
values of the constants that the named assumptions allow. The assumptions say that sets
are finite where the code counts them and that limits are natural numbers; a theorem that
needs more states it as a hypothesis.

`OrderPipelineProofs` proves first what the two scripts and the status writes do to the
ledger, and then, for all users, orders, legacy orders, consumers, tasks, limits and
numbers of faults allowed by `SeckillRedisAssumption` and `PipelineAssumption`:

| Theorem | States |
|---|---|
| `Invariance` | `Spec => []IndInv` |
| `TypeCorrect` | `Spec => []TypeOK` |
| `RedisLedger` | `Spec => []RedisConservation` |
| `NoOversell` | `Spec => []DbConservation`, if `"sync" \notin Modes` |
| `OneOrderEach` | `Spec => []OneOrderPerUser` |
| `FreedOnlyByItsOrder` | `Spec => SlotFreedByItsOrder` |
| `Implementation` | `Spec => ImplementsSale`, if `"sync" \notin Modes` |

The argument. None of these properties is inductive alone. That the stock stays
a natural number needs the ledger (a slot is only taken while stock is not
zero); that a compensation frees one slot needs a reservation to be owned by an
order of that user; that a transaction keeps one row per user needs the unique
index, and a thread in the middle of a handler needs to have an order at all.
`IndInv` therefore consists of the shape of the stores, the broker and the
threads (`StoresOK`, `BrokerOK`, `ThreadsOK`: the types, and for a thread that
it holds an order exactly when it is busy), the two ledgers and the two
uniqueness facts. The lemma `StepShape` sorts every action of the pipeline into
four kinds: an admission, an insertion, half an insertion (which takes a synchronous
request), or an internal step that at most frees slots; the ledgers, the action property and the refinement are then proved once
per kind instead of once per action. `IndInv` was checked by TLC on the
instances like that of `ledgers` before it was proved.

`OrderVerdictProofs` proves, on top of `IndInv`, what statuses say and that nothing is
lost, and `OrderStatusProofs` what clients are told:

| Theorem | States |
|---|---|
| `CompletionsTrue` | `Spec => []CompletedHasOrder` |
| `FailuresTrue` | `~CanExpire => (Spec => []FailedHoldsNothing)` |
| `AcceptedKept` | `~CanExpire /\ ~CanReturn => (Spec => []AcceptedNeverLost)` |
| `VerdictsFinal` | `~CanExpire => (StatusSpec => []VerdictStaysTrue)` |
| `AcceptedKnown` | `StatusSpec => []AcceptedIsKnown` |

An order row is never deleted (`BoughtStays`), and an order that gave its slot back never
gets it again, for the script admits fresh orders only (`FreedStays`). Both facts are
stable, so it is enough that they hold when a thread makes up its mind: `Completing(o)`
says that some thread is about to write `ORDER_CREATED`, `Failing(o)` that one is about to
write `FAILED`, and the invariants `CompletedOK` and `FailedOK` say that the user has a row
then, or the order no slot. Each step is honest: whoever begins to complete or to fail an
order has just seen or done what the status will say. A final answer therefore stays true,
although the hash it came from may be overwritten.

`AcceptedKept` needs to know where the order is. `KeptOK` says of each user with a slot
that there is a row, a pending entry, a message, or a request at work. Removing any of
these must leave another: an entry goes when an ack says the message is stored, when an
order was created or when the slot is gone; a message goes when it was handled or its copy
was confirmed. `Traced` sums this up for the three kinds of steps that touch copies,
callbacks and entries, and `HeldOK` that a thread at work on an order holds it. With
returned messages an ack does not mean that a message is stored, and the theorem is false
(see findings); with expiring hashes the task gives an order up without compensation.

`VoucherPublicationProofs` proves that a listed voucher is on sale, by an invariant that
says which keys are there when the publishing thread has come to its commit; and that the
pipeline keeps its promises when it sells a voucher that MySQL does not have, or not yet:

| Theorem | States |
|---|---|
| `ListedOnSale` | `PubSpec => []ListedIsOnSale` |
| `PublicationLedgers` | `PubSpec => [](RedisConservation /\ OneOrderPerUser)` |
| `PublicationFrees` | `PubSpec => SlotFreedByItsOrder` |
| `PublicationReports` | `PubSpec => []CompletedHasOrder`; `[]FailedHoldsNothing` too if `~CanExpire` |
| `PublicationKeepsMessages` | `~CanExpire /\ ~CanReturn => (PubSpec => OnlyFaultsLoseMessages)` |
| `PublicationImplementsSale` | `PubSpec => ImplementsSale`, if `"sync" \notin Modes` |

`PubSpec` does not imply `Spec`: a consumer whose stock update matches no voucher fails
while `dbStock` is not zero, without a fault. `PubStepOK` shows that this step and the
synchronous one are internal steps that write nothing, and `PubStepTraced` that they let go
of no message. The lemmas about the pipeline ask for the kind of a step (`StepOK`, `Honest`,
`Traced`) and not who takes it, so that everything else carries over (`StepOKKeeps`,
`StepFrees`, `StepSale`, `TracedKept`). `PublicationKeepsMessages` says what is left to an
order that the task never scans. A message is given up only for an order that is bought or
gave its slot back (`HeldStays`), so what remains are the requests: one that ends has put
the message into the queue, has decided its order, or met a fault (`RequestEnds`). TLC
checked the same properties of `PubSpec` before, on instances with one fault.

`FollowsProofs` proves, for all users, threads, requests and failures:

| Theorem | States |
|---|---|
| `FollowsInvariance` | `BlogsSpec => []FollowsInv` |
| `FollowSetsAgree` | `BlogsSpec => []SetFollowsRows` |
| `FollowsTypeCorrect` | `BlogsSpec => []FollowsTypeOK` |
| `CountersCover` | `BlogsSpec => []CountersNotBelowRows` |

Redis is written before the commit, so for a moment the two stores differ, and in that
moment no other transaction of the pair must write Redis. `Exclusive` says why: an unfollow
that removed rows is alone among the transactions that have written, through the locks its
table scan takes; follows of the same pair may overlap, but they write the same. `ToldRedis`
says that what a transaction told Redis still stands at its commit, and `Agree` that the
stores agree for every pair that nobody is about to commit and no failure has torn.

`CountersNotBelowRows` compares a counter with a sum over the rows. The library defines such
a sum as a fold with a recursive function, so the module first proves, for every finite set,
that the fold exists (`FoldIsFold`), that a sum of natural numbers is one (`SumNat`), that any
element may be taken out of it (`SumSplit`) and that a change of one value changes it by as
much (`SumChange`). Each of these is an induction on the size of a set, done as a least
counterexample with `NatMin` (from `WFMin` of the library), since the induction theorems
themselves take an operator that the provers cannot instantiate. The invariant then adds
`RowsToRemove`: an unfollow that has removed rows finds at least one at its commit, because
no other transaction can have taken them, so the counters lose one where the rows lose one
or more. For profile edits it adds that the counters an edit will write back, with the
follows missed, cover the rows as well (`EditsCover`): a follow that is committed while an
edit is under way adds one to the rows, to the counter and to what is missed, and a save
that takes the first away leaves the last.

`BlogsProofs` proves, for all users, notes, page sizes, feeds at the start and failures that
`FollowsAssumption` and `BlogsAssumption` allow:

| Theorem | States |
|---|---|
| `BlogsInvariance` | `BlogsSpec => []BlogsInv` |
| `BlogsTypeCorrect` | `BlogsSpec => []BlogsTypeOK` |
| `LikesDriftOnlySlips` | `BlogsSpec => []LikesWithinSlips` |
| `ScrollShowsAll` | `BlogsSpec => []ScrollComplete` |

`LikesWithinSlips` is not inductive: two clicks of one user that both saw the set without
the user are one slip, but drift only when the second of them writes. `LikesInv` therefore
adds to the drift the clicks in flight that may still cause one (`Excess`): all clicks of a
user but one that does what the set calls for at the moment. A click that meets the opposite
state when it writes Redis turns one of the excess into drift; a click begun while another
is in flight adds one to the excess and one to the slips; nothing else makes the sum grow
(`LikesMove`, `LikesStep`).

`ScrollComplete` needs to know what is still to come. `StillToCome` says that every note that
was due at the reset, that is not newer than the time the browser started from, and is not
shown has a score that the page asks for and a rank of at least the page's offset among those
scores. `NewerOrders` and `RankOrders` show that ranks are the order of
the sorted set, and `HeadFull` that there are `k` notes of rank below `k` if there is a note
of rank `k` or more (ranks are different numbers below `k`, so at most `k`; the first note
after them has all of them before it, so at least its rank). So a list that is not full has
nothing behind it (`ListFull`), and behind a full list every note comes after all of its
notes: in the next request, which starts at the last score of the list, at least the notes
of that score precede it, and when the score did not change also those skipped before
(`ScrollFetch`). A push gives a note a new rank but lowers no rank (`ScrollPush`), unless it
moves a note that was there, which `moved` records.

`LikesInv` and `ScrollInv` were checked by TLC on the instance of `social` before they were
proved.

`ShopCacheProofs` proves, for all instances, readers, homes, limits and faults that
`ShopCacheAssumption` allows:

| Theorem | States |
|---|---|
| `CacheInvariance` | `Spec => []CacheInv` |
| `CacheTypes` | `Spec => []TypeOK` |
| `FinalStays` | `Spec => FinalIsFinal` |
| `DoubleDeletion` | `PromptReaders /\ Spec => []RedisFresh` |
| `LocalCachesFollow` | `PromptReaders /\ ~CanDisconnect /\ ~LocalCacheFails /\ Spec => []LocalFresh` |
| `RetriesCounted` | `(\A i, j \in Instances : i = j) /\ Spec => []DeadAfterRetries` |

`CacheInv` adds to the types that an event exists only once its update has happened
(otherwise `Update` could overwrite a finished one), that open events and what tasks
remember of them are below the retry limit (otherwise `handleFailure` could exceed
it), and that a read which fills a cache has something to fill it with.
`DoubleDeletion` rests on `FreshInv`. A read that took the old row from MySQL is
dangerous until it has filled Redis; call the update settled when no such read is
left, which is stable, since MySQL returns the new row by then. When the second stage
is scheduled, the dangerous reads are among those in flight; a task learns of the
second stage only after the delay, when they are gone (`DelayedOK`, `LearnedOK`); so
what it deletes then stays deleted (`DeletedOK`), also when its lease runs out and
another task ends the claim with the first one's result, or starts the second stage
once more. Neither failing local caches nor lost connections matter for Redis, so the
theorem has no assumption about them. Both invariants were checked by TLC first, with
both switched on.

`LocalCachesFollow` adds `HandledOK`: once the last broadcast of an update is on its way,
each instance either has it in its queue, or is at work on it, or holds nothing older than
the update. A load inside Caffeine's loader that began with old content is no danger,
because `invalidate` waits for it and then removes what it stored. The three hypotheses are
where the code promises less: an instance whose connection is lost loses its queue; a local
cache that threw is filled by a `put` outside of the loader's lock, which may come after the
deletion (`cache_fresh` with `LocalCacheFails` on finds it). `RetriesCounted` is about one instance, where what a task remembers of an event is
what its row says (`SnapshotsOK`); with a second instance it is false, which is the finding
`stale_retry_count`.

`AccountsProofs` proves, for all requests, phones, logins, threads, limits, lifetimes
and errors of the stamps that `SmsAssumption` and `AccountsAssumption` allow:

| Theorem | States |
|---|---|
| `AccountTypeSafety` | `Spec => []TypeOK` |
| `EndpointLimit` | `Spec => []WindowBound` |
| `DailyQuota` | `Spec => []DailyBound` |
| `SessionsNameTheirUser` | `Spec => []SessionOfItsPhone` |
| `HoldersAreNotShared` | `Spec => []HandlerSeesItsUser` |
| `NewestCodeStays` | `Spec => []DeliveredCodeWorks` |

`WindowBound` speaks of real time, the script of stamps. `Remembered` connects them:
every request admitted within the span still has an entry whose stamp is at most
`MaxLag` older than its admission, and the key has not expired. So when the script
runs, what it keeps covers the whole span (`KeptCoversSpan`), and an admission finds
fewer than `MaxCount` there. `DailyBound` needs the shape of the counter's periods
(`Periods`): a period begins with a send, counts at least the sends in it, and of the
day before its start at most `DailyMax - 1` sends are left, because the first send of
the earlier period is at least a day old by then. The two together are fewer than
twice the quota (`LastDay`). With a cool-down that is short against a day no smaller bound
holds: the last sends of one period and all of the next can fall into one day.
For sessions, the invariant adds what a login in progress knows of its user, that
only returned tokens are logged out, and that a holder is set only while its request
runs; the unique index on the phone is what makes the first inductive. For
`DeliveredCodeWorks` it adds `CodesOK`: the request that stored a code last is past storing
it, and until its own call of the provider fails its code is in Redis. `deleteFailedCode` of
another request compares first and so leaves it alone. The invariants were checked by TLC
before they were proved.

Only model-checked are the liveness properties `EventuallyResolved`, `PhantomSlotsReturn`,
`EventuallyFinished`, `EventuallyFresh` and `ScrollEnds`: liveness under fairness is beyond the
prover. The hypotheses of a theorem mark what is false without them, and a run or a remark
above shows how: several instances (`stale_retry_count`), synchronous creation
(`sync_oversell`), returned messages, lost connections and hashes that expire.

## Plan

Done: the sale with its status query and its publication, the shop cache with its outbox,
codes and accounts, follows and notes, and the proofs above. What would come next, in this
order:

1. Abstract specifications of the shop cache (an event is open, then finished or given up,
   and a finished one is followed by fresh reads) and of follows (one atomic change of rows,
   counters and set), with their refinements proved like that of the sale.
2. `sign` and `signCount`, a bitmap per user and month.

Bounds: one or two actors of each kind and a few faults, as above.

## Not modelled

* The pages of `frontend/` apart from the feed and the like button of `info.html`. They
  show what the server answers. `frontend/js/common.js` adds the token to requests,
  sends the browser to the login page on a 401 and formats prices and image paths,
  `footer.js` and `discovery-location.js` are display helpers, and `vue.js`,
  `element.js` and `axios.min.js` are vendored libraries: they make up nearly all
  JavaScript in the repository and none of the program's own logic, which is in Java
  and Lua.
* Order statistics (`J/event/OrderCreatedEventListener.java`): counters in Redis raised
  after a commit, which nothing reads.
* Order ids: a snowflake generator from a library; ids are taken to be unique.
* `CacheClient` and `SimpleRedisLock`, which no service calls any more: the one
  field of type `CacheClient`, in `ShopServiceImpl`, is used only in a commented-out line.
* `sign` and `signCount`, uploads, nearby shops, shop types, activity messages: one
  command each, or reads.
* Malformed entries in Redis, and the wording of errors.
