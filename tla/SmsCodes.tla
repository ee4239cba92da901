------------------------------ MODULE SmsCodes ------------------------------
(* POST /user/code: the annotated rate limit of the endpoint (RateLimitAspect *)
(* with rate_limit.lua), the per-phone reservation (sms_reserve.lua) and      *)
(* SmsCodeService.sendCode, which stores a code, calls the provider and takes *)
(* the code back when the call fails.  Requests run on several threads and    *)
(* instances; one step is one call to Redis or to the provider.               *)
(*                                                                            *)
(* Time is counted in seconds from 1.  A request reads its instance's clock   *)
(* (its stamp) before the limiter's script runs: the script runs at most      *)
(* MaxLag later, and an instance's clock is at most MaxLead ahead of Redis's. *)
(* The code of a request is the request itself: two requests never draw the   *)
(* same six digits.  All requests come from one address (one limiter key).    *)
EXTENDS Integers, FiniteSets

CONSTANTS
    Requests,       \* requests for a code
    Phones,         \* valid phone numbers
    None,
    Window,         \* windowSeconds of the endpoint's limit
    MaxCount,       \* its maxCount
    Interval,       \* hmdp.sms.send-interval-seconds
    Day,            \* lifetime of the daily counter, 86400
    DailyMax,       \* hmdp.sms.max-sends-per-day
    CodeTtl,        \* LOGIN_CODE_TTL
    MaxLag, MaxLead,\* see above
    MaxTime,        \* bound on the clock
    MaxArrivals,    \* bound on the requests of all kinds
    MaxFaults       \* bound on failing calls and crashes

ASSUME SmsAssumption ==
    /\ IsFiniteSet(Requests)
    /\ None \notin Requests
    /\ {Window, MaxCount, Interval, Day, DailyMax, CodeTtl} \subseteq Nat \ {0}
    /\ {MaxLag, MaxLead, MaxTime, MaxArrivals, MaxFaults} \subseteq Nat

Never == 0

VARIABLES
    clock,
    limiter,    \* the sorted set of the endpoint's limit and its expiry
    quota,      \* per phone: expiry of the cooldown key, daily counter, its expiry
    codes,      \* per phone: login:code:<phone> and its expiry
    send,       \* per request: where it stands, and when its scripts admitted it
    lastSaved,  \* per phone: the request that stored a code last (history)
    arrivals, faults

smsVars == <<clock, limiter, quota, codes, send, lastSaved, arrivals, faults>>

Active == {"stamped", "admitted", "reserved", "saved", "failed"}

SmsTypeOK ==
    /\ clock \in Nat /\ clock > 0
    /\ limiter \in [entries : SUBSET [id : Requests, at : Nat], until : Nat]
    /\ quota \in [Phones -> [cooldown : Nat, count : Nat, until : Nat]]
    /\ codes \in [Phones -> [code : Requests \union {None}, until : Nat]]
    /\ send \in [Requests -> [pc : Active \union {"idle", "refused", "done", "over"},
                              phone : Phones \union {None}, stamp : Nat,
                              admitted : Nat, reserved : Nat]]
    /\ lastSaved \in [Phones -> Requests \union {None}]
    /\ arrivals \in Nat /\ faults \in Nat

SmsInit ==
    /\ clock = 1
    /\ limiter = [entries |-> {}, until |-> Never]
    /\ quota = [p \in Phones |-> [cooldown |-> Never, count |-> 0, until |-> Never]]
    /\ codes = [p \in Phones |-> [code |-> None, until |-> Never]]
    /\ send = [r \in Requests |-> [pc |-> "idle", phone |-> None, stamp |-> Never,
                                   admitted |-> Never, reserved |-> Never]]
    /\ lastSaved = [p \in Phones |-> None]
    /\ arrivals = 0
    /\ faults = 0

-----------------------------------------------------------------------------
(* The scripts *)

\* Entries that ZREMRANGEBYSCORE leaves in the set, which is empty once its key expired.
Kept(now) ==
    {e \in limiter.entries : clock < limiter.until /\ e.at > now - Window}

\* Bug: one request too many.
LimitAllowsOneMore(now) == Cardinality(Kept(now)) =< MaxCount

LimitAllows(now) == Cardinality(Kept(now)) < MaxCount

\* Bug: the entry is scored with the start of the window.
LimiterAfterEarly(r, now) ==
    [entries |-> Kept(now) \union {[id |-> r, at |-> now - Window]},
     until |-> clock + Window + 1]

\* What the script writes; both branches renew the expiry of the key.
LimiterAfter(r, now) ==
    [entries |-> IF LimitAllows(now) THEN Kept(now) \union {[id |-> r, at |-> now]}
                                     ELSE Kept(now),
     until |-> clock + Window + 1]

CoolingDown(p) == clock < quota[p].cooldown

SentToday(p) == IF clock < quota[p].until THEN quota[p].count ELSE 0

\* Bug: the quota is compared after the send it should have refused.
ReserveAllowsOneMore(p) == ~CoolingDown(p) /\ SentToday(p) =< DailyMax

ReserveAllows(p) == ~CoolingDown(p) /\ SentToday(p) < DailyMax

\* SET with EX, INCR, and EXPIRE when the counter has just been created.
QuotaAfter(p) ==
    [cooldown |-> clock + Interval,
     count    |-> SentToday(p) + 1,
     until    |-> IF SentToday(p) = 0 THEN clock + Day ELSE quota[p].until]

StoredCode(p) == IF clock < codes[p].until THEN codes[p].code ELSE None

-----------------------------------------------------------------------------
(* sendCode *)

Fault == faults < MaxFaults /\ faults' = faults + 1

Goto(r, pc) == send' = [send EXCEPT ![r].pc = pc]

Refuse(r) == send' = [send EXCEPT ![r].pc = "refused", ![r].stamp = Never]

\* around: the instance's clock is read before the script is called.
Arrive(r, p) ==
    /\ send[r].pc = "idle"
    /\ arrivals < MaxArrivals
    /\ arrivals' = arrivals + 1
    /\ \E stamp \in clock .. clock + MaxLead :
         send' = [send EXCEPT ![r].pc = "stamped", ![r].phone = p, ![r].stamp = stamp]
    /\ UNCHANGED <<clock, limiter, quota, codes, lastSaved, faults>>

Limit(r) ==
    /\ send[r].pc = "stamped"
    /\ limiter' = LimiterAfter(r, send[r].stamp)
    /\ IF LimitAllows(send[r].stamp)
       THEN send' = [send EXCEPT ![r].pc = "admitted", ![r].stamp = Never,
                                 ![r].admitted = clock]
       ELSE Refuse(r)
    /\ UNCHANGED <<clock, quota, codes, lastSaved, arrivals, faults>>

\* The call of the script throws; it may have run.
LimitFails(r) ==
    /\ send[r].pc = "stamped"
    /\ Fault
    /\ limiter' \in {limiter, LimiterAfter(r, send[r].stamp)}
    /\ Refuse(r)
    /\ UNCHANGED <<clock, quota, codes, lastSaved, arrivals>>

Reserve(r) ==
    LET p == send[r].phone IN
    /\ send[r].pc = "admitted"
    /\ IF ReserveAllows(p)
       THEN /\ quota' = [quota EXCEPT ![p] = QuotaAfter(p)]
            /\ send' = [send EXCEPT ![r].pc = "reserved", ![r].reserved = clock]
       ELSE /\ Goto(r, "refused")
            /\ UNCHANGED quota
    /\ UNCHANGED <<clock, limiter, codes, lastSaved, arrivals, faults>>

ReserveFails(r) ==
    LET p == send[r].phone IN
    /\ send[r].pc = "admitted"
    /\ Fault
    /\ \/ UNCHANGED quota
       \/ ReserveAllows(p) /\ quota' = [quota EXCEPT ![p] = QuotaAfter(p)]
    /\ Goto(r, "refused")
    /\ UNCHANGED <<clock, limiter, codes, lastSaved, arrivals>>

StoreCode(r) ==
    /\ codes' = [codes EXCEPT ![send[r].phone] = [code |-> r, until |-> clock + CodeTtl]]
    /\ lastSaved' = [lastSaved EXCEPT ![send[r].phone] = r]

Save(r) ==
    /\ send[r].pc = "reserved"
    /\ StoreCode(r)
    /\ Goto(r, "saved")
    /\ UNCHANGED <<clock, limiter, quota, arrivals, faults>>

SaveFails(r) ==
    /\ send[r].pc = "reserved"
    /\ Fault
    /\ StoreCode(r) \/ UNCHANGED <<codes, lastSaved>>
    /\ Goto(r, "failed")
    /\ UNCHANGED <<clock, limiter, quota, arrivals>>

\* The provider accepts the message ...
Deliver(r) ==
    /\ send[r].pc = "saved"
    /\ Goto(r, "done")
    /\ UNCHANGED <<clock, limiter, quota, codes, lastSaved, arrivals, faults>>

\* ... or sendCode of the sender throws SmsSendException, on a timeout too.
DeliverFails(r) ==
    /\ send[r].pc = "saved"
    /\ Fault
    /\ Goto(r, "failed")
    /\ UNCHANGED <<clock, limiter, quota, codes, lastSaved, arrivals>>

\* Bug: DEL without the comparison.
DeleteAnyCode(r) == [code |-> None, until |-> Never]

\* deleteFailedCode: unlock.lua deletes the key if it still holds this request's code.
CodeAfterCleanup(r) ==
    IF StoredCode(send[r].phone) = r THEN [code |-> None, until |-> Never]
                                     ELSE codes[send[r].phone]

Cleanup(r) ==
    /\ send[r].pc = "failed"
    /\ codes' = [codes EXCEPT ![send[r].phone] = CodeAfterCleanup(r)]
    /\ Goto(r, "over")
    /\ UNCHANGED <<clock, limiter, quota, lastSaved, arrivals, faults>>

CleanupFails(r) ==
    /\ send[r].pc = "failed"
    /\ Fault
    /\ Goto(r, "over")
    /\ UNCHANGED <<clock, limiter, quota, codes, lastSaved, arrivals>>

\* The instance dies between two calls.
Crash(r) ==
    /\ send[r].pc \in Active
    /\ Fault
    /\ send' = [send EXCEPT ![r].pc = "over", ![r].stamp = Never]
    /\ UNCHANGED <<clock, limiter, quota, codes, lastSaved, arrivals>>

Tick ==
    /\ clock < MaxTime
    /\ \A r \in Requests : send[r].pc = "stamped" => clock < send[r].stamp + MaxLag
    /\ clock' = clock + 1
    /\ UNCHANGED <<limiter, quota, codes, send, lastSaved, arrivals, faults>>

SendCode(r) ==
    \/ \E p \in Phones : Arrive(r, p)
    \/ Limit(r) \/ LimitFails(r)
    \/ Reserve(r) \/ ReserveFails(r)
    \/ Save(r) \/ SaveFails(r)
    \/ Deliver(r) \/ DeliverFails(r)
    \/ Cleanup(r) \/ CleanupFails(r)
    \/ Crash(r)

SmsNext == Tick \/ \E r \in Requests : SendCode(r)

SmsSpec == SmsInit /\ [][SmsNext]_smsVars

-----------------------------------------------------------------------------
(* Properties *)

\* How far the limit can be trusted: the window less what stamps may be off.
Span == Window - MaxLag - MaxLead

AdmittedIn(length, t) ==
    {r \in Requests : /\ send[r].admitted # Never
                      /\ t - length < send[r].admitted /\ send[r].admitted =< t}

\* The sliding window of rate_limit.lua counts by stamps that application instances
\* took earlier, and forgets by them; nevertheless at most maxCount requests pass in
\* any interval of real time that is shorter than the window by the error of the stamps.
WindowBound ==
    \A t \in 1 .. clock : Cardinality(AdmittedIn(Span, t)) =< MaxCount

ReservedIn(p, length, t) ==
    {r \in Requests : /\ send[r].reserved # Never /\ send[r].phone = p
                      /\ t - length < send[r].reserved /\ send[r].reserved =< t}

\* The daily counter starts anew with the first send after it expired, so that the
\* last sends of one period and the first of the next may be close; a phone never
\* gets twice the quota within a day, whatever calls failed in between.
DailyBound ==
    \A p \in Phones, t \in 1 .. clock :
        Cardinality(ReservedIn(p, Day, t)) < 2 * DailyMax

\* A code the provider accepted, stored last and not older than its lifetime is the
\* code login compares with: no failure of another request takes it away
\* (deleteFailedCode, "prevents a late failure from deleting a newer code").
DeliveredCodeWorks ==
    \A p \in Phones :
        LET r == lastSaved[p] IN
        r # None /\ send[r].pc = "done" /\ clock < send[r].reserved + CodeTtl
            => StoredCode(p) = r
=============================================================================
