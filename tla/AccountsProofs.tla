--------------------------- MODULE AccountsProofs ---------------------------
(* Proofs about codes, logins and sessions, for all sets of requests, phones, *)
(* logins and threads, all limits and lifetimes.  No bound on time, arrivals  *)
(* or faults is used.                                                         *)
EXTENDS Accounts, FiniteSetTheorems, TLAPS

-----------------------------------------------------------------------------
(* Types *)

SendType ==
    [pc : Active \union {"idle", "refused", "done", "over"},
     phone : Phones \union {None}, stamp : Nat, admitted : Nat, reserved : Nat]

\* A request that has arrived has a phone, one that has not was never admitted.
SendOK(x) ==
    /\ x \in SendType
    /\ x.pc # "idle" => x.phone \in Phones
    /\ x.pc = "idle" => x.admitted = Never /\ x.reserved = Never

LoginType ==
    [pc : {"idle", "matched", "creating", "known", "stored", "done", "over"},
     phone : Phones \union {None}, user : Logins \union {None}]

LoginOK(x) ==
    /\ x \in LoginType
    /\ x.pc # "idle" => x.phone \in Phones
    /\ x.pc \in {"known", "stored", "done"} => x.user # None

SessionType ==
    [id : Logins \union {None}, profile : BOOLEAN, ttl : {"none", "days", "minutes"}]

ThreadType ==
    [pc : {"idle", "refresh", "expire", "gate", "handler", "profile", "extend"},
     kind : Kinds \union {"none"}, token : Logins \union {None}]

\* The steps that touch a session are taken with a token.
ThreadOK(x) ==
    /\ x \in ThreadType
    /\ x.pc \in {"refresh", "expire", "profile", "extend"} => x.token # None

HolderType == [set : BOOLEAN, id : Logins \union {None}]

EntryType == [id : Requests, at : Nat]
LimiterType == [entries : SUBSET EntryType, until : Nat]
QuotaType == [cooldown : Nat, count : Nat, until : Nat]
CodeType == [code : Requests \union {None}, until : Nat]

SmsTypes ==
    /\ clock \in Nat /\ clock > 0
    /\ limiter \in LimiterType
    /\ quota \in [Phones -> QuotaType]
    /\ codes \in [Phones -> CodeType]
    /\ send \in [Requests -> SendType]
    /\ \A r \in Requests : SendOK(send[r])
    /\ lastSaved \in [Phones -> Requests \union {None}]
    /\ arrivals \in Nat /\ faults \in Nat

AccountTypes ==
    /\ users \in [Phones -> Logins \union {None}]
    /\ login \in [Logins -> LoginType]
    /\ \A l \in Logins : LoginOK(login[l])
    /\ sessions \in [Logins -> SessionType]
    /\ loggedOut \subseteq Logins
    /\ thread \in [Threads -> ThreadType]
    /\ \A h \in Threads : ThreadOK(thread[h])
    /\ holder \in [Threads -> HolderType]
    /\ leftover \subseteq Threads

LEMMA Constants ==
    /\ Window \in Nat /\ Interval \in Nat /\ CodeTtl \in Nat
    /\ MaxCount \in Nat /\ MaxCount > 0
    /\ Day \in Nat /\ Day > 0
    /\ DailyMax \in Nat /\ DailyMax > 0
    /\ MaxLag \in Nat /\ MaxLead \in Nat
BY SmsAssumption

LEMMA InitTypes == Init => SmsTypes /\ AccountTypes
<1> USE SmsAssumption, AccountsAssumption
<1> SUFFICES ASSUME Init PROVE SmsTypes /\ AccountTypes
    OBVIOUS
<1>1. SmsTypes
  BY DEF Init, SmsInit, SmsTypes, LimiterType, QuotaType, CodeType, SendType, SendOK,
         EntryType, Never, Active
<1>2. AccountTypes
  BY DEF Init, AccountTypes, LoginType, LoginOK, SessionType, NoSession, ThreadType,
         ThreadOK, Resting, HolderType, NoUser, Kinds
<1> QED BY <1>1, <1>2

\* What the scripts write has the type of what they read.
LEMMA ScriptTypes ==
  ASSUME SmsTypes
  PROVE  /\ \A r \in Requests, now \in Nat : LimiterAfter(r, now) \in LimiterType
         /\ \A p \in Phones : QuotaAfter(p) \in QuotaType
         /\ \A r \in Requests : send[r].phone \in Phones => CodeAfterCleanup(r) \in CodeType
<1> USE SmsAssumption
<1>1. \A r \in Requests, now \in Nat : LimiterAfter(r, now) \in LimiterType
  <2> SUFFICES ASSUME NEW r \in Requests, NEW now \in Nat
               PROVE  LimiterAfter(r, now) \in LimiterType
      OBVIOUS
  <2>1. Kept(now) \subseteq EntryType
    BY DEF Kept, SmsTypes, LimiterType
  <2>2. [id |-> r, at |-> now] \in EntryType
    BY DEF EntryType
  <2> QED BY <2>1, <2>2 DEF LimiterAfter, LimiterType, SmsTypes
<1>2. \A p \in Phones : QuotaAfter(p) \in QuotaType
  BY DEF QuotaAfter, SentToday, QuotaType, SmsTypes
<1>3. \A r \in Requests : send[r].phone \in Phones => CodeAfterCleanup(r) \in CodeType
  BY DEF CodeAfterCleanup, CodeType, SmsTypes, Never
<1> QED BY <1>1, <1>2, <1>3

\* A step that writes the record of one request writes one that is well formed.
LEMMA SendUpdate ==
  ASSUME SmsTypes, NEW r \in Requests, NEW x, SendOK(x), send' = [send EXCEPT ![r] = x]
  PROVE  send' \in [Requests -> SendType] /\ \A q \in Requests : SendOK(send'[q])
BY DEF SmsTypes, SendOK

LEMMA GotoOK ==
  ASSUME SmsTypes, NEW r \in Requests, send[r].pc # "idle",
         NEW pc \in Active \union {"refused", "done", "over"}, Goto(r, pc)
  PROVE  send' \in [Requests -> SendType] /\ \A q \in Requests : SendOK(send'[q])
<1> DEFINE x == [send[r] EXCEPT !.pc = pc]
<1>1. SendOK(x)
  BY DEF SmsTypes, SendOK, SendType, Active
<1>2. send' = [send EXCEPT ![r] = x]
  BY DEF Goto
<1> HIDE DEF x
<1> QED BY <1>1, <1>2, SendUpdate

LEMMA RefuseOK ==
  ASSUME SmsTypes, NEW r \in Requests, send[r].pc # "idle", Refuse(r)
  PROVE  send' \in [Requests -> SendType] /\ \A q \in Requests : SendOK(send'[q])
<1> DEFINE x == [send[r] EXCEPT !.pc = "refused", !.stamp = Never]
<1>1. SendOK(x)
  BY DEF SmsTypes, SendOK, SendType, Active, Never
<1>2. send' = [send EXCEPT ![r] = x]
  BY DEF Refuse
<1> HIDE DEF x
<1> QED BY <1>1, <1>2, SendUpdate

LEMMA SendCodeTypes ==
  ASSUME SmsTypes, NEW r \in Requests, SendCode(r)
  PROVE  SmsTypes'
<1> USE SmsAssumption
<1>1. faults' \in Nat /\ arrivals' \in Nat
  <2>1. /\ faults' = faults \/ faults' = faults + 1
        /\ arrivals' = arrivals \/ arrivals' = arrivals + 1
    BY DEF SendCode, Arrive, Limit, LimitFails, Reserve, ReserveFails, Save,
           SaveFails, Deliver, DeliverFails, Cleanup, CleanupFails, Crash, Fault
  <2> QED BY <2>1 DEF SmsTypes
<1>2. CASE \E p \in Phones : Arrive(r, p)
  <2> PICK p \in Phones : Arrive(r, p)
      BY <1>2
  <2> PICK stamp \in clock .. clock + MaxLead :
        send' = [send EXCEPT ![r].pc = "stamped", ![r].phone = p, ![r].stamp = stamp]
      BY DEF Arrive
  <2> DEFINE x == [send[r] EXCEPT !.pc = "stamped", !.phone = p, !.stamp = stamp]
  <2>0. stamp \in Nat
    BY Constants DEF SmsTypes
  <2>a. send[r] \in SendType /\ send[r].admitted = Never /\ send[r].reserved = Never
    BY DEF Arrive, SmsTypes, SendOK
  <2>b. x \in SendType
    BY <2>0, <2>a DEF SendType, Active
  <2>1. SendOK(x)
    BY <2>a, <2>b DEF SendOK, SendType
  <2>2. send' = [send EXCEPT ![r] = x]
    OBVIOUS
  <2> HIDE DEF x
  <2> QED BY <1>1, <2>1, <2>2, SendUpdate DEF Arrive, SmsTypes
<1>3. CASE Limit(r)
  <2> USE <1>3
  <2>1. send[r].pc # "idle" /\ send[r].stamp \in Nat
    BY DEF Limit, SmsTypes, SendType
  <2>2. limiter' \in LimiterType
    BY <2>1, ScriptTypes DEF Limit
  <2>3. send' \in [Requests -> SendType] /\ \A q \in Requests : SendOK(send'[q])
    <3>1. CASE LimitAllows(send[r].stamp)
      <4> DEFINE x == [send[r] EXCEPT !.pc = "admitted", !.stamp = Never,
                                      !.admitted = clock]
      <4>1. SendOK(x)
        BY <2>1 DEF SmsTypes, SendOK, SendType, Active, Never
      <4>2. send' = [send EXCEPT ![r] = x]
        BY <3>1 DEF Limit
      <4> HIDE DEF x
      <4> QED BY <4>1, <4>2, SendUpdate
    <3>2. CASE ~LimitAllows(send[r].stamp)
      BY <2>1, <3>2, RefuseOK DEF Limit
    <3> QED BY <3>1, <3>2
  <2> QED BY <1>1, <2>2, <2>3 DEF Limit, SmsTypes
<1>4. CASE LimitFails(r)
  <2> USE <1>4
  <2>1. send[r].pc # "idle" /\ send[r].stamp \in Nat
    BY DEF LimitFails, SmsTypes, SendType
  <2>2. limiter' \in LimiterType
    BY <2>1, ScriptTypes DEF LimitFails, SmsTypes
  <2> QED BY <1>1, <2>1, <2>2, RefuseOK DEF LimitFails, SmsTypes
<1>5. CASE Reserve(r)
  <2> USE <1>5
  <2> DEFINE p == send[r].phone
  <2>1. send[r].pc # "idle" /\ p \in Phones
    BY DEF Reserve, SmsTypes, SendOK
  <2>2. quota' \in [Phones -> QuotaType]
    BY <2>1, ScriptTypes DEF Reserve, SmsTypes
  <2>3. send' \in [Requests -> SendType] /\ \A q \in Requests : SendOK(send'[q])
    <3>1. CASE ReserveAllows(p)
      <4> DEFINE x == [send[r] EXCEPT !.pc = "reserved", !.reserved = clock]
      <4>1. SendOK(x)
        BY <2>1 DEF SmsTypes, SendOK, SendType, Active, Never
      <4>2. send' = [send EXCEPT ![r] = x]
        BY <3>1 DEF Reserve
      <4> HIDE DEF x
      <4> QED BY <4>1, <4>2, SendUpdate
    <3>2. CASE ~ReserveAllows(p)
      BY <2>1, <3>2, GotoOK DEF Reserve
    <3> QED BY <3>1, <3>2
  <2> QED BY <1>1, <2>2, <2>3 DEF Reserve, SmsTypes
<1>6. CASE ReserveFails(r)
  <2> USE <1>6
  <2>1. send[r].pc # "idle" /\ send[r].phone \in Phones
    BY DEF ReserveFails, SmsTypes, SendOK
  <2>2. quota' \in [Phones -> QuotaType]
    BY <2>1, ScriptTypes DEF ReserveFails, SmsTypes
  <2> QED BY <1>1, <2>1, <2>2, GotoOK DEF ReserveFails, SmsTypes
<1>7. CASE Save(r) \/ SaveFails(r)
  <2> USE <1>7
  <2>1. send[r].pc # "idle" /\ send[r].phone \in Phones
    BY DEF Save, SaveFails, SmsTypes, SendOK
  <2>2. [code |-> r, until |-> clock + CodeTtl] \in CodeType
    BY DEF CodeType, SmsTypes
  <2>3. /\ codes' \in [Phones -> CodeType]
        /\ lastSaved' \in [Phones -> Requests \union {None}]
    BY <2>1, <2>2 DEF Save, SaveFails, StoreCode, SmsTypes
  <2>4. send' \in [Requests -> SendType] /\ \A q \in Requests : SendOK(send'[q])
    BY <2>1, GotoOK DEF Save, SaveFails, Active
  <2> QED BY <1>1, <2>3, <2>4 DEF Save, SaveFails, SmsTypes
<1>8. CASE Deliver(r) \/ DeliverFails(r) \/ CleanupFails(r)
  <2> USE <1>8
  <2>1. send[r].pc # "idle"
    BY DEF Deliver, DeliverFails, CleanupFails
  <2>2. send' \in [Requests -> SendType] /\ \A q \in Requests : SendOK(send'[q])
    BY <2>1, GotoOK DEF Deliver, DeliverFails, CleanupFails, Active
  <2> QED BY <1>1, <2>2 DEF Deliver, DeliverFails, CleanupFails, SmsTypes
<1>9. CASE Cleanup(r)
  <2> USE <1>9
  <2>1. send[r].pc # "idle" /\ send[r].phone \in Phones
    BY DEF Cleanup, SmsTypes, SendOK
  <2>2. codes' \in [Phones -> CodeType]
    BY <2>1, ScriptTypes DEF Cleanup, SmsTypes
  <2>3. send' \in [Requests -> SendType] /\ \A q \in Requests : SendOK(send'[q])
    BY <2>1, GotoOK DEF Cleanup
  <2> QED BY <1>1, <2>2, <2>3 DEF Cleanup, SmsTypes
<1>10. CASE Crash(r)
  <2> USE <1>10
  <2> DEFINE x == [send[r] EXCEPT !.pc = "over", !.stamp = Never]
  <2>1. SendOK(x)
    BY DEF Crash, SmsTypes, SendOK, SendType, Active, Never
  <2>2. send' = [send EXCEPT ![r] = x]
    BY DEF Crash
  <2> HIDE DEF x
  <2>3. send' \in [Requests -> SendType] /\ \A q \in Requests : SendOK(send'[q])
    BY <2>1, <2>2, SendUpdate
  <2> QED BY <1>1, <2>3 DEF Crash, SmsTypes
<1> QED BY <1>2, <1>3, <1>4, <1>5, <1>6, <1>7, <1>8, <1>9, <1>10 DEF SendCode

-----------------------------------------------------------------------------
(* What a step does to the limiter, the daily counters and the history *)

SameAdmitted == \A q \in Requests : send'[q].admitted = send[q].admitted

Admits(r) ==
    /\ send[r].pc = "stamped"
    /\ LimitAllows(send[r].stamp)
    /\ limiter' = LimiterAfter(r, send[r].stamp)
    /\ \A q \in Requests :
         send'[q].admitted = IF q = r THEN clock ELSE send[q].admitted

\* The script runs and the request does not pass.
Consults(r) ==
    /\ send[r].pc = "stamped"
    /\ limiter' = LimiterAfter(r, send[r].stamp)
    /\ SameAdmitted

LEMMA LimiterView ==
  ASSUME SmsTypes, NEW r \in Requests, SendCode(r)
  PROVE  /\ clock' = clock
         /\ \/ Admits(r)
            \/ Consults(r)
            \/ limiter' = limiter /\ SameAdmitted
<1> USE DEF SmsTypes, SendType, SameAdmitted, Goto, Refuse
<1>1. CASE \E p \in Phones : Arrive(r, p)
  BY <1>1 DEF Arrive
<1>2. CASE Limit(r)
  BY <1>2 DEF Limit, Admits, Consults
<1>3. CASE LimitFails(r)
  BY <1>3 DEF LimitFails, Consults
<1>4. CASE Reserve(r) \/ ReserveFails(r)
  BY <1>4 DEF Reserve, ReserveFails
<1>5. CASE Save(r) \/ SaveFails(r) \/ Deliver(r) \/ DeliverFails(r)
  BY <1>5 DEF Save, SaveFails, Deliver, DeliverFails
<1>6. CASE Cleanup(r) \/ CleanupFails(r) \/ Crash(r)
  BY <1>6 DEF Cleanup, CleanupFails, Crash
<1> QED BY <1>1, <1>2, <1>3, <1>4, <1>5, <1>6 DEF SendCode

\* A request of p that is or becomes part of the history is the one reserved now,
\* or it was part of it already.
SameReserved ==
    \A q \in Requests, p \in Phones :
        send'[q].reserved # Never /\ send'[q].phone = p =>
            send[q].reserved = send'[q].reserved /\ send[q].phone = p

Reserves(r, p) ==
    /\ ReserveAllows(p)
    /\ quota' = [quota EXCEPT ![p] = QuotaAfter(p)]
    /\ send'[r].phone = p
    /\ \A q \in Requests, o \in Phones :
         send'[q].reserved # Never /\ send'[q].phone = o =>
            IF q = r THEN o = p /\ send'[q].reserved = clock
                     ELSE send[q].reserved = send'[q].reserved /\ send[q].phone = o

\* The script counts a send that does not happen.
Wastes(p) ==
    /\ ReserveAllows(p)
    /\ quota' = [quota EXCEPT ![p] = QuotaAfter(p)]
    /\ SameReserved

LEMMA QuotaView ==
  ASSUME SmsTypes, NEW r \in Requests, SendCode(r)
  PROVE  /\ clock' = clock
         /\ \/ \E p \in Phones : Reserves(r, p) \/ Wastes(p)
            \/ quota' = quota /\ SameReserved
<1> USE DEF SmsTypes, SendType, SameReserved, Goto, Refuse
<1>1. CASE \E p \in Phones : Arrive(r, p)
  BY <1>1 DEF Arrive, SendOK
<1>2. CASE Limit(r) \/ LimitFails(r)
  BY <1>2 DEF Limit, LimitFails
<1>3. CASE Reserve(r)
  <2>1. send[r].phone \in Phones
    BY <1>3 DEF Reserve, SendOK
  <2> QED BY <1>3, <2>1 DEF Reserve, Reserves
<1>4. CASE ReserveFails(r)
  <2>1. send[r].phone \in Phones
    BY <1>4 DEF ReserveFails, SendOK
  <2> QED BY <1>4, <2>1 DEF ReserveFails, Wastes
<1>5. CASE Save(r) \/ SaveFails(r) \/ Deliver(r) \/ DeliverFails(r)
  BY <1>5 DEF Save, SaveFails, Deliver, DeliverFails
<1>6. CASE Cleanup(r) \/ CleanupFails(r) \/ Crash(r)
  BY <1>6 DEF Cleanup, CleanupFails, Crash
<1> QED BY <1>1, <1>2, <1>3, <1>4, <1>5, <1>6 DEF SendCode

-----------------------------------------------------------------------------
(* The limit of the endpoint *)

\* The history lies in the past, and a stamp is as exact as its bounds say.
TimeOK ==
    \A r \in Requests :
        /\ send[r].admitted =< clock /\ send[r].reserved =< clock
        /\ send[r].pc = "stamped" => /\ clock =< send[r].stamp + MaxLag
                                     /\ send[r].stamp =< clock + MaxLead

\* The sorted set still holds every request admitted within the span.
Remembered ==
    /\ IsFiniteSet(limiter.entries)
    /\ \A r \in Requests : send[r].admitted # Never =>
         /\ send[r].admitted + Window < limiter.until
         /\ clock - Span < send[r].admitted =>
              \E e \in limiter.entries : e.id = r /\ send[r].admitted =< e.at + MaxLag

LimitInv == SmsTypes /\ TimeOK /\ Remembered /\ WindowBound

LEMMA TimeStep ==
  ASSUME SmsTypes, TimeOK, SmsNext
  PROVE  TimeOK'
<1> USE Constants
<1>1. CASE Tick
  BY <1>1 DEF Tick, SmsTypes, SendType, TimeOK
<1>2. ASSUME NEW r \in Requests, SendCode(r) PROVE TimeOK'
  <2> USE DEF SmsTypes, SendType, TimeOK, Goto, Refuse
  <2>1. CASE \E p \in Phones : Arrive(r, p)
    <3> PICK p \in Phones : Arrive(r, p)
        BY <2>1
    <3> PICK stamp \in clock .. clock + MaxLead :
          send' = [send EXCEPT ![r].pc = "stamped", ![r].phone = p, ![r].stamp = stamp]
        BY DEF Arrive
    <3>1. send' = [send EXCEPT ![r] = [send[r] EXCEPT !.pc = "stamped", !.phone = p,
                                                      !.stamp = stamp]]
      OBVIOUS
    <3>2. \A q \in Requests : /\ send'[q].admitted = send[q].admitted
                              /\ send'[q].reserved = send[q].reserved
                              /\ q # r => send'[q] = send[q]
      BY <3>1
    <3>3. send'[r].stamp = stamp
      BY <3>1
    <3>4. clock' = clock
      BY DEF Arrive
    <3> QED BY <3>2, <3>3, <3>4
  <2>2. CASE Limit(r) \/ LimitFails(r)
    BY <2>2 DEF Limit, LimitFails
  <2>3. CASE Reserve(r) \/ ReserveFails(r)
    <3>1. clock' = clock /\ send[r].pc = "admitted"
      BY <2>3 DEF Reserve, ReserveFails
    <3>2. \/ send' = [send EXCEPT ![r].pc = "refused"]
          \/ send' = [send EXCEPT ![r].pc = "reserved", ![r].reserved = clock]
      BY <2>3 DEF Reserve, ReserveFails
    <3>3. CASE send' = [send EXCEPT ![r].pc = "refused"]
      BY <3>1, <3>3
    <3>4. CASE send' = [send EXCEPT ![r].pc = "reserved", ![r].reserved = clock]
      BY <3>1, <3>4
    <3> QED BY <3>2, <3>3, <3>4
  <2>4. CASE Save(r) \/ SaveFails(r) \/ Deliver(r) \/ DeliverFails(r)
    BY <2>4 DEF Save, SaveFails, Deliver, DeliverFails
  <2>5. CASE Cleanup(r) \/ CleanupFails(r) \/ Crash(r)
    BY <2>5 DEF Cleanup, CleanupFails, Crash
  <2> QED BY <1>2, <2>1, <2>2, <2>3, <2>4, <2>5 DEF SendCode
<1> QED BY <1>1, <1>2 DEF SmsNext

\* The script counts every request admitted within the span.
LEMMA KeptCoversSpan ==
  ASSUME SmsTypes, TimeOK, Remembered, NEW r \in Requests, send[r].pc = "stamped",
         NEW q \in AdmittedIn(Span, clock)
  PROVE  \E e \in Kept(send[r].stamp) :
            e.id = q /\ send[q].admitted =< e.at + MaxLag
<1> USE Constants
<1>1. q \in Requests /\ send[q].admitted # Never /\ clock - Span < send[q].admitted
  BY DEF AdmittedIn
<1>2. PICK e \in limiter.entries : e.id = q /\ send[q].admitted =< e.at + MaxLag
  BY <1>1 DEF Remembered
<1>3. /\ e.at \in Nat /\ send[r].stamp \in Nat /\ send[q].admitted \in Nat
      /\ clock \in Nat /\ limiter.until \in Nat
  BY <1>1, <1>2 DEF SmsTypes, LimiterType, EntryType, SendType
<1>4. clock < limiter.until
  BY <1>1, <1>3 DEF Remembered, Span
<1>5. e.at > send[r].stamp - Window
  BY <1>1, <1>2, <1>3 DEF TimeOK, Span
<1> QED BY <1>2, <1>4, <1>5 DEF Kept

LEMMA SpanCounted ==
  ASSUME SmsTypes, TimeOK, Remembered, NEW r \in Requests, send[r].pc = "stamped"
  PROVE  Cardinality(AdmittedIn(Span, clock)) =< Cardinality(Kept(send[r].stamp))
<1> DEFINE A == AdmittedIn(Span, clock)
           K == Kept(send[r].stamp)
           f == [q \in A |-> CHOOSE e \in K : e.id = q]
<1>1. \A q \in A : f[q] \in K /\ f[q].id = q
  BY KeptCoversSpan
<1>2. f \in Injection(A, K)
  BY <1>1 DEF Injection, IsInjective
<1>3. IsFiniteSet(K)
  BY FS_Subset DEF Kept, Remembered
<1> HIDE DEF A, K, f
<1> QED BY <1>2, <1>3, FS_Injection DEF A, K

\* Whichever way the script decides, it keeps what it counted.
LEMMA LimiterAfterRemembers ==
  ASSUME SmsTypes, TimeOK, Remembered, NEW r \in Requests, send[r].pc = "stamped",
         limiter' = LimiterAfter(r, send[r].stamp)
  PROVE  /\ IsFiniteSet(limiter'.entries)
         /\ limiter'.until = clock + Window + 1
         /\ \A q \in AdmittedIn(Span, clock) : \E e \in limiter'.entries :
              e.id = q /\ send[q].admitted =< e.at + MaxLag
<1> DEFINE K == Kept(send[r].stamp)
<1>1. IsFiniteSet(K)
  BY FS_Subset DEF Kept, Remembered
<1>2. \A q \in AdmittedIn(Span, clock) :
         \E e \in K : e.id = q /\ send[q].admitted =< e.at + MaxLag
  BY KeptCoversSpan
<1>3. \/ limiter'.entries = K
      \/ limiter'.entries = K \union {[id |-> r, at |-> send[r].stamp]}
  BY DEF LimiterAfter
<1>4. limiter'.until = clock + Window + 1
  BY DEF LimiterAfter
<1> HIDE DEF K
<1>5. IsFiniteSet(K \union {[id |-> r, at |-> send[r].stamp]})
  BY <1>1, FS_AddElement
<1>6. IsFiniteSet(limiter'.entries) /\ K \subseteq limiter'.entries
  BY <1>1, <1>3, <1>5
<1> QED BY <1>2, <1>4, <1>6

LEMMA RememberedStep ==
  ASSUME SmsTypes, TimeOK, Remembered, SmsNext
  PROVE  Remembered'
<1> USE Constants
<1>1. CASE Tick
  BY <1>1 DEF Tick, Remembered, SmsTypes, SendType, Span
<1>2. ASSUME NEW r \in Requests, SendCode(r) PROVE Remembered'
  <2>1. clock' = clock
    BY <1>2, LimiterView
  <2>2. CASE limiter' = limiter /\ SameAdmitted
    BY <2>1, <2>2 DEF Remembered, SameAdmitted, Span
  <2>3. CASE Admits(r) \/ Consults(r)
    <3>1. send[r].pc = "stamped" /\ limiter' = LimiterAfter(r, send[r].stamp)
      BY <2>3 DEF Admits, Consults
    <3>2. /\ IsFiniteSet(limiter'.entries)
          /\ limiter'.until = clock + Window + 1
          /\ \A q \in AdmittedIn(Span, clock) : \E e \in limiter'.entries :
               e.id = q /\ send[q].admitted =< e.at + MaxLag
      BY <3>1, LimiterAfterRemembers
    <3>3. ASSUME NEW q \in Requests, send'[q].admitted = send[q].admitted,
                 send[q].admitted # Never
          PROVE  /\ send'[q].admitted + Window < limiter'.until
                 /\ clock - Span < send'[q].admitted => \E e \in limiter'.entries :
                      e.id = q /\ send'[q].admitted =< e.at + MaxLag
      <4>1. send[q].admitted =< clock /\ send[q].admitted \in Nat /\ clock \in Nat
        BY DEF TimeOK, SmsTypes, SendType
      <4>2. clock - Span < send[q].admitted => q \in AdmittedIn(Span, clock)
        BY <3>3, <4>1 DEF AdmittedIn
      <4> QED BY <3>2, <3>3, <4>1, <4>2
    <3>4. CASE Consults(r)
      BY <2>1, <3>2, <3>3, <3>4 DEF Remembered, Consults, SameAdmitted, Span
    <3>5. CASE Admits(r)
      <4>1. send'[r].admitted = clock
        BY <3>5 DEF Admits
      <4>2. clock \in Nat /\ send[r].stamp \in Nat /\ clock =< send[r].stamp + MaxLag
        BY <3>1 DEF SmsTypes, SendType, TimeOK
      <4>3. [id |-> r, at |-> send[r].stamp] \in limiter'.entries
        BY <3>5 DEF Admits, LimiterAfter
      <4>4. /\ send'[r].admitted + Window < limiter'.until
            /\ \E e \in limiter'.entries : e.id = r /\ send'[r].admitted =< e.at + MaxLag
        BY <3>2, <4>1, <4>2, <4>3
      <4>5. \A q \in Requests : q # r => send'[q].admitted = send[q].admitted
        BY <3>5 DEF Admits
      <4> QED BY <2>1, <3>2, <3>3, <4>4, <4>5 DEF Remembered, Span
    <3> QED BY <2>3, <3>4, <3>5
  <2> QED BY <1>2, <2>2, <2>3, LimiterView
<1> QED BY <1>1, <1>2 DEF SmsNext

LEMMA SubsetCardinality ==
  ASSUME NEW S, NEW T, IsFiniteSet(T), S \subseteq T
  PROVE  /\ IsFiniteSet(S) /\ Cardinality(S) \in Nat /\ Cardinality(T) \in Nat
         /\ Cardinality(S) =< Cardinality(T)
BY FS_Subset, FS_CardinalityType

LEMMA AddedCardinality ==
  ASSUME NEW S, NEW T, NEW x, IsFiniteSet(T), S \subseteq T \union {x}
  PROVE  /\ Cardinality(S) \in Nat /\ Cardinality(T) \in Nat
         /\ Cardinality(S) =< Cardinality(T) + 1
<1>1. /\ IsFiniteSet(T \union {x})
      /\ Cardinality(T \union {x}) =< Cardinality(T) + 1
      /\ Cardinality(T) \in Nat
  BY FS_AddElement, FS_CardinalityType
<1>2. Cardinality(S) =< Cardinality(T \union {x}) /\ Cardinality(S) \in Nat
      /\ Cardinality(T \union {x}) \in Nat
  BY <1>1, SubsetCardinality
<1> QED BY <1>1, <1>2

LEMMA AdmittedFinite ==
  ASSUME NEW length, NEW t
  PROVE  IsFiniteSet(AdmittedIn(length, t))
BY SmsAssumption, FS_Subset DEF AdmittedIn

LEMMA WindowBoundStep ==
  ASSUME LimitInv, SmsNext
  PROVE  WindowBound'
<1> USE Constants
<1>0. SmsTypes /\ TimeOK /\ Remembered /\ WindowBound
  BY DEF LimitInv
<1>a. /\ clock \in Nat /\ clock > 0 /\ Span \in Int
      /\ \A q \in Requests : send[q].admitted \in Nat /\ send[q].admitted =< clock
  BY <1>0 DEF SmsTypes, SendType, TimeOK, Span
<1>1. CASE Tick
  <2>1. clock' = clock + 1 /\ send' = send
    BY <1>1 DEF Tick
  <2> SUFFICES ASSUME NEW t \in 1 .. clock + 1
               PROVE  Cardinality(AdmittedIn(Span, t)') =< MaxCount
      BY <2>1 DEF WindowBound, AdmittedIn, Span
  <2>2. AdmittedIn(Span, t)' = AdmittedIn(Span, t)
    BY <2>1 DEF AdmittedIn, Span
  <2>3. CASE t \in 1 .. clock
    BY <1>0, <2>2, <2>3 DEF WindowBound
  <2>4. CASE t = clock + 1
    <3>1. AdmittedIn(Span, t) \subseteq AdmittedIn(Span, clock)
      BY <1>a, <2>4 DEF AdmittedIn
    <3>2. /\ Cardinality(AdmittedIn(Span, t)) =< Cardinality(AdmittedIn(Span, clock))
          /\ Cardinality(AdmittedIn(Span, t)) \in Nat
          /\ Cardinality(AdmittedIn(Span, clock)) \in Nat
      BY <3>1, AdmittedFinite, FS_Subset, FS_CardinalityType
    <3>3. Cardinality(AdmittedIn(Span, clock)) =< MaxCount
      BY <1>0, <1>a DEF WindowBound
    <3> QED BY <2>2, <3>2, <3>3
  <2> QED BY <1>a, <2>3, <2>4
<1>2. ASSUME NEW r \in Requests, SendCode(r) PROVE WindowBound'
  <2>1. clock' = clock
    BY <1>0, <1>2, LimiterView
  <2> SUFFICES ASSUME NEW t \in 1 .. clock
               PROVE  Cardinality(AdmittedIn(Span, t)') =< MaxCount
      BY <2>1 DEF WindowBound
  <2>2. CASE SameAdmitted
    <3>1. AdmittedIn(Span, t)' = AdmittedIn(Span, t)
      BY <2>2 DEF AdmittedIn, SameAdmitted, Span
    <3> QED BY <1>0, <3>1 DEF WindowBound
  <2>3. CASE Admits(r)
    <3> DEFINE A == AdmittedIn(Span, t)
               B == AdmittedIn(Span, t)'
    <3>0. IsFiniteSet(A) /\ Cardinality(A) \in Nat
      BY AdmittedFinite, FS_CardinalityType
    <3>1. /\ t < clock => B \subseteq A
          /\ B \subseteq A \union {r}
      BY <1>a, <2>1, <2>3 DEF AdmittedIn, Admits, Span
    <3>2. Cardinality(A) =< MaxCount
      BY <1>0 DEF WindowBound
    <3>3. CASE t < clock
      <4>1. Cardinality(B) =< Cardinality(A) /\ Cardinality(B) \in Nat
        BY <3>0, <3>1, <3>3, FS_Subset, FS_CardinalityType
      <4> QED BY <3>0, <3>2, <4>1
    <3>4. CASE t = clock
      <4> DEFINE K == Kept(send[r].stamp)
      <4>1. Cardinality(A) =< Cardinality(K)
        BY <1>0, <2>3, <3>4, SpanCounted DEF Admits
      <4>2. Cardinality(K) < MaxCount
        BY <2>3 DEF Admits, LimitAllows
      <4>3. IsFiniteSet(K) /\ Cardinality(K) \in Nat
        BY <1>0, FS_Subset, FS_CardinalityType DEF Kept, Remembered
      <4> HIDE DEF A, B, K
      <4>4. Cardinality(B) =< Cardinality(A) + 1 /\ Cardinality(B) \in Nat
        BY <3>0, <3>1, AddedCardinality
      <4>5. Cardinality(B) =< MaxCount
        BY <3>0, <4>1, <4>2, <4>3, <4>4
      <4> QED BY <4>5 DEF B
    <3> QED BY <1>a, <3>3, <3>4
  <2> QED BY <1>0, <1>2, <2>2, <2>3, LimiterView DEF Consults
<1> QED BY <1>1, <1>2 DEF SmsNext

-----------------------------------------------------------------------------
(* The daily quota *)

\* The sends of p at s or later, and those strictly between two instants, x being the
\* record of all requests.
Since(x, p, s) ==
    {r \in Requests : /\ x[r].reserved # Never /\ x[r].phone = p
                      /\ s =< x[r].reserved}

Between(x, p, a, b) ==
    {r \in Requests : /\ x[r].reserved # Never /\ x[r].phone = p
                      /\ a < x[r].reserved /\ x[r].reserved < b}

PeriodStart(p) == quota[p].until - Day

\* A period that has begun counts its sends, its first one at its start; of the day
\* before its start the first send is gone, so that one less than the quota is left.
PeriodOK(p) ==
    /\ 0 =< PeriodStart(p) /\ PeriodStart(p) =< clock
    /\ 0 < quota[p].count /\ quota[p].count =< DailyMax
    /\ Cardinality(Since(send, p, PeriodStart(p))) =< quota[p].count
    /\ Cardinality(Since(send, p, PeriodStart(p) + 1)) =< quota[p].count - 1
    /\ Cardinality(Between(send, p, PeriodStart(p) - Day, PeriodStart(p))) =< DailyMax - 1

NoPeriod(p) == quota[p].until = Never /\ Since(send, p, Never) = {}

Periods ==
    \A p \in Phones :
        /\ NoPeriod(p) \/ PeriodOK(p)
        /\ \A r \in Requests : send[r].reserved # Never /\ send[r].phone = p
                                 => send[r].reserved < quota[p].until

LEMMA HistoryFinite ==
  \A p, a, b : /\ IsFiniteSet(Since(send, p, a)) /\ IsFiniteSet(Between(send, p, a, b))
               /\ IsFiniteSet(ReservedIn(p, a, b))
               /\ IsFiniteSet(Since(send', p, a)) /\ IsFiniteSet(Between(send', p, a, b))
               /\ IsFiniteSet(ReservedIn(p, a, b)')
<1> SUFFICES ASSUME NEW p, NEW a, NEW b
             PROVE  /\ IsFiniteSet(Since(send, p, a)) /\ IsFiniteSet(Between(send, p, a, b))
                    /\ IsFiniteSet(ReservedIn(p, a, b))
                    /\ IsFiniteSet(Since(send', p, a)) /\ IsFiniteSet(Between(send', p, a, b))
                    /\ IsFiniteSet(ReservedIn(p, a, b)')
    OBVIOUS
<1>1. \A S : S \subseteq Requests => IsFiniteSet(S)
  BY SmsAssumption, FS_Subset
<1> QED BY <1>1 DEF Since, Between, ReservedIn

\* The last day of a phone: the current period, and what is left of the one before.
LEMMA LastDay ==
  ASSUME SmsTypes, TimeOK, Periods, NEW p \in Phones
  PROVE  Cardinality(ReservedIn(p, Day, clock)) < 2 * DailyMax
<1> USE Constants
<1> DEFINE R == ReservedIn(p, Day, clock)
           s == PeriodStart(p)
<1>1. /\ clock \in Nat /\ quota[p].until \in Nat /\ s \in Int /\ quota[p].count \in Nat
      /\ \A r \in Requests : send[r].reserved \in Nat
  BY DEF SmsTypes, QuotaType, SendType, PeriodStart
<1>2. IsFiniteSet(R) /\ Cardinality(R) \in Nat
  BY HistoryFinite, FS_CardinalityType
<1>3. CASE NoPeriod(p)
  <2>1. R = {}
    BY <1>1, <1>3 DEF NoPeriod, ReservedIn, Since, Never
  <2> QED BY <2>1, FS_EmptySet
<1>4. CASE PeriodOK(p) /\ clock < quota[p].until
  <2> DEFINE B == Between(send, p, s - Day, s)
             C == Since(send, p, s)
  <2>0. s =< clock
    BY <1>4 DEF PeriodOK
  <2>1. R \subseteq B \union C
    BY <1>1, <2>0 DEF ReservedIn, Between, Since
  <2>2. IsFiniteSet(B) /\ IsFiniteSet(C)
    BY HistoryFinite
  <2>3. /\ Cardinality(B) \in Nat /\ Cardinality(C) \in Nat
        /\ Cardinality(B \cap C) \in Nat
    BY <2>2, FS_CardinalityType, SubsetCardinality
  <2>4. /\ IsFiniteSet(B \union C)
        /\ Cardinality(B \union C) = Cardinality(B) + Cardinality(C) - Cardinality(B \cap C)
    BY <2>2, FS_Union
  <2>5. Cardinality(R) =< Cardinality(B \union C)
    BY <2>1, <2>4, SubsetCardinality
  <2>6. /\ Cardinality(B) =< DailyMax - 1 /\ Cardinality(C) =< quota[p].count
        /\ quota[p].count =< DailyMax
    BY <1>4 DEF PeriodOK
  <2> HIDE DEF B, C, R
  <2> QED BY <1>1, <1>2, <2>3, <2>4, <2>5, <2>6 DEF R
<1>5. CASE PeriodOK(p) /\ ~(clock < quota[p].until)
  <2>1. R \subseteq Since(send, p, s + 1)
    BY <1>1, <1>5 DEF ReservedIn, Since, PeriodStart
  <2>2. Cardinality(R) =< Cardinality(Since(send, p, s + 1)) /\ Cardinality(Since(send, p, s + 1)) \in Nat
    BY <2>1, HistoryFinite, SubsetCardinality
  <2>3. /\ Cardinality(Since(send, p, s + 1)) =< quota[p].count - 1
        /\ quota[p].count =< DailyMax
    BY <1>5 DEF PeriodOK
  <2> HIDE DEF R, s
  <2> QED BY <1>1, <1>2, <2>2, <2>3 DEF R
<1> QED BY <1>3, <1>4, <1>5 DEF Periods

\* Everything a period says of a phone stays true while its sends only grow fewer.
LEMMA PeriodKept ==
  ASSUME SmsTypes, Periods, NEW p \in Phones, quota'[p] = quota[p],
         clock' \in Nat, clock =< clock',
         \A q \in Requests : send'[q].reserved # Never /\ send'[q].phone = p =>
            send[q].reserved = send'[q].reserved /\ send[q].phone = p
  PROVE  /\ NoPeriod(p)' \/ PeriodOK(p)'
         /\ \A r \in Requests : send'[r].reserved # Never /\ send'[r].phone = p
                                  => send'[r].reserved < quota'[p].until
<1> USE Constants
<1>1. /\ clock \in Nat /\ quota[p].until \in Nat /\ quota[p].count \in Nat
      /\ PeriodStart(p) \in Int
  BY DEF SmsTypes, QuotaType, PeriodStart
<1>2. \A a, b : Since(send', p, a) \subseteq Since(send, p, a) /\ Between(send', p, a, b) \subseteq Between(send, p, a, b)
  BY DEF Since, Between
<1>3. \A a, b : /\ Cardinality(Since(send', p, a)) \in Nat /\ Cardinality(Since(send, p, a)) \in Nat
                /\ Cardinality(Since(send', p, a)) =< Cardinality(Since(send, p, a))
                /\ Cardinality(Between(send', p, a, b)) \in Nat
                /\ Cardinality(Between(send, p, a, b)) \in Nat
                /\ Cardinality(Between(send', p, a, b)) =< Cardinality(Between(send, p, a, b))
  BY <1>2, HistoryFinite, SubsetCardinality
<1>4. PeriodStart(p)' = PeriodStart(p)
  BY DEF PeriodStart
<1>5. CASE NoPeriod(p)
  BY <1>2, <1>5 DEF NoPeriod, Periods
<1>6. CASE PeriodOK(p)
  <2>1. /\ 0 =< PeriodStart(p) /\ PeriodStart(p) =< clock'
        /\ 0 < quota[p].count /\ quota[p].count =< DailyMax
    BY <1>1, <1>6 DEF PeriodOK
  <2>2. /\ Cardinality(Since(send', p, PeriodStart(p))) =< quota[p].count
        /\ Cardinality(Since(send', p, PeriodStart(p) + 1)) =< quota[p].count - 1
        /\ Cardinality(Between(send', p, PeriodStart(p) - Day, PeriodStart(p))) =< DailyMax - 1
    BY <1>1, <1>3, <1>6 DEF PeriodOK
  <2>3. PeriodOK(p)'
    BY <1>4, <2>1, <2>2 DEF PeriodOK, Since, Between
  <2> QED BY <2>3 DEF Periods
<1> QED BY <1>5, <1>6 DEF Periods

\* One more send within the period, or the first of a new one.
LEMMA PeriodGrows ==
  ASSUME SmsTypes, TimeOK, Periods, NEW p \in Phones, NEW r,
         ReserveAllows(p), quota'[p] = QuotaAfter(p), clock' = clock,
         \A q \in Requests : send'[q].reserved # Never /\ send'[q].phone = p =>
            \/ send[q].reserved = send'[q].reserved /\ send[q].phone = p
            \/ q = r /\ send'[q].reserved = clock
  PROVE  /\ PeriodOK(p)'
         /\ \A q \in Requests : send'[q].reserved # Never /\ send'[q].phone = p
                                  => send'[q].reserved < quota'[p].until
<1> USE Constants
<1>1. /\ clock \in Nat /\ quota[p].until \in Nat /\ quota[p].count \in Nat
      /\ PeriodStart(p) \in Int /\ clock > 0
      /\ \A q \in Requests : send[q].reserved \in Nat /\ send[q].reserved =< clock
  BY DEF SmsTypes, QuotaType, PeriodStart, SendType, TimeOK
<1>2. \A q \in Requests : send[q].reserved # Never /\ send[q].phone = p
                            => send[q].reserved < quota[p].until
  BY DEF Periods
<1>3. NoPeriod(p) \/ PeriodOK(p)
  BY DEF Periods
<1> DEFINE Fst == SentToday(p) = 0
<1>4. CASE Fst
  <2>1. quota'[p].count = 1 /\ quota'[p].until = clock + Day
    BY <1>4 DEF QuotaAfter
  <2>2. PeriodStart(p)' = clock
    BY <1>1, <2>1 DEF PeriodStart
  <2>3. quota[p].until =< clock
    <3>1. CASE NoPeriod(p)
      BY <1>1, <3>1 DEF NoPeriod, Never
    <3>2. CASE PeriodOK(p)
      BY <1>1, <1>4, <3>2 DEF PeriodOK, SentToday
    <3> QED BY <1>3, <3>1, <3>2
  <2>4. \A q \in Requests : send[q].reserved # Never /\ send[q].phone = p
                              => send[q].reserved < clock
    BY <1>1, <1>2, <2>3
  <2>5. Since(send', p, clock) \subseteq {r}
    BY <1>1, <2>4 DEF Since
  <2>6. Since(send', p, clock + 1) = {}
    BY <1>1, <2>4 DEF Since
  <2>7. Cardinality(Since(send', p, clock)) =< 1 /\ Cardinality(Since(send', p, clock + 1)) = 0
    <3>1. IsFiniteSet({r}) /\ Cardinality({r}) = 1
      BY FS_Singleton
    <3>2. Cardinality(Since(send', p, clock)) =< Cardinality({r})
      BY <2>5, <3>1, SubsetCardinality
    <3> QED BY <2>6, <3>1, <3>2, FS_EmptySet
  <2>8. Cardinality(Between(send', p, clock - Day, clock)) =< DailyMax - 1
    <3>1. CASE NoPeriod(p)
      <4>1. Between(send', p, clock - Day, clock) = {}
        BY <1>1, <3>1 DEF NoPeriod, Between, Since, Never
      <4> QED BY <4>1, FS_EmptySet
    <3>2. CASE PeriodOK(p)
      <4>1. Between(send', p, clock - Day, clock) \subseteq Since(send, p, PeriodStart(p) + 1)
        BY <1>1, <2>3 DEF Between, Since, PeriodStart
      <4>2. /\ Cardinality(Between(send', p, clock - Day, clock)) \in Nat
            /\ Cardinality(Since(send, p, PeriodStart(p) + 1)) \in Nat
            /\ Cardinality(Between(send', p, clock - Day, clock))
                 =< Cardinality(Since(send, p, PeriodStart(p) + 1))
        BY <4>1, HistoryFinite, SubsetCardinality
      <4>3. /\ Cardinality(Since(send, p, PeriodStart(p) + 1)) =< quota[p].count - 1
            /\ quota[p].count =< DailyMax
        BY <3>2 DEF PeriodOK
      <4> QED BY <1>1, <4>2, <4>3
    <3> QED BY <1>3, <3>1, <3>2
  <2>9. PeriodOK(p)'
    BY <1>1, <2>1, <2>2, <2>7, <2>8 DEF PeriodOK
  <2>10. \A q \in Requests : send'[q].reserved # Never /\ send'[q].phone = p
                               => send'[q].reserved < quota'[p].until
    BY <1>1, <2>1, <2>4
  <2> QED BY <2>9, <2>10
<1>5. CASE ~Fst
  <2>1. /\ clock < quota[p].until /\ quota[p].count < DailyMax
        /\ quota'[p].count = quota[p].count + 1
        /\ quota'[p].until = quota[p].until
    BY <1>5 DEF QuotaAfter, SentToday, ReserveAllows
  <2>2. PeriodOK(p)
    BY <1>1, <1>3, <2>1 DEF NoPeriod, Never
  <2> DEFINE s == PeriodStart(p)
  <2>3. PeriodStart(p)' = s
    BY <2>1 DEF PeriodStart
  <2>4. 0 =< s /\ s =< clock /\ 0 < quota[p].count
    BY <2>2 DEF PeriodOK
  <2>5. /\ Since(send', p, s) \subseteq Since(send, p, s) \union {r}
        /\ Since(send', p, s + 1) \subseteq Since(send, p, s + 1) \union {r}
    BY <1>1 DEF Since
  <2>6. Between(send', p, s - Day, s) \subseteq Between(send, p, s - Day, s)
    BY <1>1, <2>4 DEF Between
  <2>7. /\ Cardinality(Since(send', p, s)) =< Cardinality(Since(send, p, s)) + 1
        /\ Cardinality(Since(send', p, s + 1)) =< Cardinality(Since(send, p, s + 1)) + 1
        /\ Cardinality(Since(send', p, s)) \in Nat /\ Cardinality(Since(send, p, s)) \in Nat
        /\ Cardinality(Since(send', p, s + 1)) \in Nat
        /\ Cardinality(Since(send, p, s + 1)) \in Nat
    BY <2>5, HistoryFinite, AddedCardinality
  <2>8. /\ Cardinality(Between(send', p, s - Day, s)) =< Cardinality(Between(send, p, s - Day, s))
        /\ Cardinality(Between(send', p, s - Day, s)) \in Nat
        /\ Cardinality(Between(send, p, s - Day, s)) \in Nat
    BY <2>6, HistoryFinite, SubsetCardinality
  <2>9. /\ Cardinality(Since(send, p, s)) =< quota[p].count
        /\ Cardinality(Since(send, p, s + 1)) =< quota[p].count - 1
        /\ Cardinality(Between(send, p, s - Day, s)) =< DailyMax - 1
    BY <2>2 DEF PeriodOK
  <2> HIDE DEF s
  <2>10. /\ Cardinality(Since(send', p, s)) =< quota'[p].count
         /\ Cardinality(Since(send', p, s + 1)) =< quota'[p].count - 1
         /\ Cardinality(Between(send', p, s - Day, s)) =< DailyMax - 1
    BY <1>1, <2>1, <2>7, <2>8, <2>9
  <2>11. PeriodOK(p)'
    BY <1>1, <2>1, <2>3, <2>4, <2>10 DEF PeriodOK
  <2>12. \A q \in Requests : send'[q].reserved # Never /\ send'[q].phone = p
                               => send'[q].reserved < quota'[p].until
    BY <1>2, <2>1
  <2> QED BY <2>11, <2>12
<1> QED BY <1>4, <1>5

LEMMA PeriodsStep ==
  ASSUME SmsTypes, TimeOK, Periods, SmsNext
  PROVE  Periods'
<1> SUFFICES ASSUME NEW p \in Phones
             PROVE  /\ NoPeriod(p)' \/ PeriodOK(p)'
                    /\ \A r \in Requests : send'[r].reserved # Never /\ send'[r].phone = p
                                             => send'[r].reserved < quota'[p].until
    BY DEF Periods
<1>0. clock \in Nat
  BY DEF SmsTypes
<1>1. CASE Tick
  BY <1>0, <1>1, PeriodKept DEF Tick
<1>2. ASSUME NEW r \in Requests, SendCode(r)
      PROVE  /\ NoPeriod(p)' \/ PeriodOK(p)'
             /\ \A q \in Requests : send'[q].reserved # Never /\ send'[q].phone = p
                                      => send'[q].reserved < quota'[p].until
  <2>1. clock' = clock
    BY <1>2, QuotaView
  <2>2. CASE quota' = quota /\ SameReserved
    BY <1>0, <2>1, <2>2, PeriodKept DEF SameReserved
  <2>3. ASSUME NEW o \in Phones, Reserves(r, o) \/ Wastes(o)
        PROVE  /\ NoPeriod(p)' \/ PeriodOK(p)'
               /\ \A q \in Requests : send'[q].reserved # Never /\ send'[q].phone = p
                                        => send'[q].reserved < quota'[p].until
    <3>1. /\ ReserveAllows(o)
          /\ quota' = [quota EXCEPT ![o] = QuotaAfter(o)]
      BY <2>3 DEF Reserves, Wastes
    <3>2. CASE p = o
      <4>1. quota'[p] = QuotaAfter(p)
        BY <3>1, <3>2 DEF SmsTypes
      <4>2. \A q \in Requests : send'[q].reserved # Never /\ send'[q].phone = p =>
              \/ send[q].reserved = send'[q].reserved /\ send[q].phone = p
              \/ q = r /\ send'[q].reserved = clock
        BY <2>3 DEF Reserves, Wastes, SameReserved
      <4> QED BY <2>1, <3>1, <3>2, <4>1, <4>2, PeriodGrows
    <3>3. CASE p # o
      <4>1. quota'[p] = quota[p]
        BY <3>1, <3>3 DEF SmsTypes
      <4>2. \A q \in Requests : send'[q].reserved # Never /\ send'[q].phone = p =>
              send[q].reserved = send'[q].reserved /\ send[q].phone = p
        BY <2>3, <3>3 DEF Reserves, Wastes, SameReserved
      <4> QED BY <1>0, <2>1, <4>1, <4>2, PeriodKept
    <3> QED BY <3>2, <3>3
  <2> QED BY <1>2, <2>2, <2>3, QuotaView
<1> QED BY <1>1, <1>2 DEF SmsNext

DailyPast ==
    \A p \in Phones, t \in 1 .. clock - 1 :
        Cardinality(ReservedIn(p, Day, t)) < 2 * DailyMax

LEMMA DailyPastStep ==
  ASSUME SmsTypes, TimeOK, Periods, DailyPast, SmsNext
  PROVE  DailyPast'
<1> USE Constants
<1>0. clock \in Nat /\ clock > 0 /\ \A q \in Requests : send[q].reserved \in Nat
  BY DEF SmsTypes, SendType
<1>1. CASE Tick
  <2>1. clock' = clock + 1 /\ send' = send
    BY <1>1 DEF Tick
  <2> SUFFICES ASSUME NEW p \in Phones, NEW t \in 1 .. clock
               PROVE  Cardinality(ReservedIn(p, Day, t)') < 2 * DailyMax
      BY <1>0, <2>1 DEF DailyPast
  <2>2. ReservedIn(p, Day, t)' = ReservedIn(p, Day, t)
    BY <2>1 DEF ReservedIn
  <2>3. CASE t = clock
    BY <2>2, <2>3, LastDay
  <2>4. CASE t # clock
    BY <1>0, <2>2, <2>4 DEF DailyPast
  <2> QED BY <2>3, <2>4
<1>2. ASSUME NEW r \in Requests, SendCode(r) PROVE DailyPast'
  <2>1. clock' = clock
    BY <1>2, QuotaView
  <2> SUFFICES ASSUME NEW p \in Phones, NEW t \in 1 .. clock - 1
               PROVE  Cardinality(ReservedIn(p, Day, t)') < 2 * DailyMax
      BY <2>1 DEF DailyPast
  <2>2. \A q \in Requests : send'[q].reserved # Never /\ send'[q].phone = p =>
          \/ send[q].reserved = send'[q].reserved /\ send[q].phone = p
          \/ send'[q].reserved = clock
    BY <1>2, QuotaView DEF Reserves, Wastes, SameReserved
  <2>3. ReservedIn(p, Day, t)' \subseteq ReservedIn(p, Day, t)
    BY <1>0, <2>2 DEF ReservedIn
  <2>4. /\ Cardinality(ReservedIn(p, Day, t)') =< Cardinality(ReservedIn(p, Day, t))
        /\ Cardinality(ReservedIn(p, Day, t)') \in Nat
        /\ Cardinality(ReservedIn(p, Day, t)) \in Nat
    BY <2>3, HistoryFinite, SubsetCardinality
  <2>5. Cardinality(ReservedIn(p, Day, t)) < 2 * DailyMax
    BY DEF DailyPast
  <2> QED BY <2>4, <2>5
<1> QED BY <1>1, <1>2 DEF SmsNext

-----------------------------------------------------------------------------
(* Logins and sessions *)

\* A login that knows its user knows the one user of its phone.
UsersOK ==
    \A l \in Logins : login[l].pc \in {"known", "stored", "done"} =>
        login[l].user = users[login[l].phone]

\* Only tokens that were returned are logged out.
SessionsOK ==
    \A l \in Logins :
        /\ sessions[l].id # None => /\ login[l].pc \in {"stored", "done", "over"}
                                    /\ sessions[l].id = users[login[l].phone]
                                    /\ l \notin loggedOut
        /\ l \in loggedOut => login[l].pc = "done"

\* The user a thread holds is that of the request it serves.
ThreadsOK ==
    \A h \in Threads :
        /\ thread[h].token # None => login[thread[h].token].pc = "done"
        /\ h \notin leftover /\ holder[h].set =>
             /\ thread[h].pc \notin {"idle", "refresh"}
             /\ thread[h].token # None
             /\ holder[h].id \in {None, users[login[thread[h].token].phone]}

AccountInv == AccountTypes /\ UsersOK /\ SessionsOK /\ ThreadsOK

LEMMA LoginStepInv ==
  ASSUME SmsTypes, AccountInv, NEW l \in Logins, LoginStep(l)
  PROVE  AccountInv'
<1> USE AccountsAssumption DEF AccountInv, AccountTypes, UsersOK, SessionsOK, ThreadsOK,
      LoginType, LoginOK, SessionType, webVars, GotoLogin
<1>1. CASE \E p \in Phones, code \in Requests : CheckCode(l, p, code)
  <2> PICK p \in Phones, code \in Requests : CheckCode(l, p, code)
      BY <1>1
  <2> DEFINE x == [pc |-> IF StoredCode(p) = code THEN "matched" ELSE "over",
                   phone |-> p, user |-> None]
  <2>1. login' = [login EXCEPT ![l] = x] /\ x.pc \in {"matched", "over"}
    BY DEF CheckCode
  <2>2. x \in LoginType /\ LoginOK(x)
    BY <2>1
  <2>3. /\ sessions[l].id = None /\ l \notin loggedOut
        /\ \A h \in Threads : thread[h].token # l
    BY DEF CheckCode
  <2> HIDE DEF x
  <2> QED BY <2>1, <2>2, <2>3 DEF CheckCode
<1>2. CASE FindUser(l)
  <2> DEFINE known == users[login[l].phone]
             x == [login[l] EXCEPT !.user = known,
                                   !.pc = IF known = None THEN "creating" ELSE "known"]
  <2>1. login' = [login EXCEPT ![l] = x]
    BY <1>2 DEF FindUser
  <2>2. x \in LoginType /\ LoginOK(x) /\ x.phone = login[l].phone
        /\ (x.pc = "known" => x.user = users[x.phone]) /\ x.pc \in {"creating", "known"}
    BY <1>2 DEF FindUser
  <2>3. /\ sessions[l].id = None /\ l \notin loggedOut
        /\ \A h \in Threads : thread[h].token # l
    BY <1>2 DEF FindUser
  <2>4. UNCHANGED <<users, sessions, loggedOut, thread, holder, leftover>>
    BY <1>2 DEF FindUser
  <2> HIDE DEF x
  <2>5. AccountTypes'
    BY <2>1, <2>2, <2>4
  <2>6. UsersOK'
    BY <2>1, <2>2, <2>4
  <2>7. SessionsOK'
    BY <2>1, <2>2, <2>3, <2>4
  <2>8. ThreadsOK'
    BY <2>1, <2>2, <2>3, <2>4
  <2> QED BY <2>5, <2>6, <2>7, <2>8
<1>3. CASE CreateUser(l)
  <2> DEFINE p == login[l].phone
  <2>0. p \in Phones /\ sessions[l].id = None /\ l \notin loggedOut
        /\ \A h \in Threads : thread[h].token # l
    BY <1>3 DEF CreateUser
  <2>1. CASE users[p] = None
    <3> DEFINE x == [login[l] EXCEPT !.pc = "known", !.user = l]
    <3>1. users' = [users EXCEPT ![p] = l] /\ login' = [login EXCEPT ![l] = x]
      BY <1>3, <2>1 DEF CreateUser
    <3>2. x \in LoginType /\ LoginOK(x) /\ x.phone = p /\ x.user = l /\ x.pc = "known"
      BY <1>3, <2>0 DEF CreateUser
    <3>3. UNCHANGED <<sessions, loggedOut, thread, holder, leftover>>
      BY <1>3 DEF CreateUser
    <3> HIDE DEF x, p
    <3>4. AccountTypes'
      BY <2>0, <3>1, <3>2, <3>3
    <3>5. UsersOK'
      BY <2>0, <2>1, <3>1, <3>2 DEF p
    <3>6. SessionsOK'
      BY <2>0, <2>1, <3>1, <3>2, <3>3
    <3>7. ThreadsOK'
      BY <2>0, <2>1, <3>1, <3>2, <3>3
    <3> QED BY <3>4, <3>5, <3>6, <3>7
  <2>2. CASE users[p] # None
    <3>1. login' = [login EXCEPT ![l].pc = "over"]
      BY <1>3, <2>2 DEF CreateUser
    <3>2. UNCHANGED <<users, sessions, loggedOut, thread, holder, leftover>>
      BY <1>3, <2>2 DEF CreateUser
    <3> HIDE DEF p
    <3>3. AccountTypes'
      BY <2>0, <3>1, <3>2 DEF p
    <3>4. UsersOK' /\ SessionsOK'
      BY <2>0, <3>1, <3>2
    <3>5. ThreadsOK'
      BY <2>0, <3>1, <3>2
    <3> QED BY <3>3, <3>4, <3>5
  <2> QED BY <2>1, <2>2
<1>4. CASE StoreSession(l)
  <2>1. /\ login[l].phone \in Phones /\ login[l].user = users[login[l].phone]
        /\ login[l].user \in Logins /\ l \notin loggedOut
        /\ \A h \in Threads : thread[h].token # l
    BY <1>4 DEF StoreSession
  <2> QED BY <1>4, <2>1 DEF StoreSession
<1>5. CASE ReturnToken(l)
  BY <1>5 DEF ReturnToken
<1>6. CASE LoginBreaks(l)
  <2>1. /\ l \notin loggedOut /\ \A h \in Threads : thread[h].token # l
    BY <1>6 DEF LoginBreaks
  <2> QED BY <1>6, <2>1 DEF LoginBreaks
<1>7. CASE ExpireSession(l)
  BY <1>7 DEF ExpireSession, NoSession
<1> QED BY <1>1, <1>2, <1>3, <1>4, <1>5, <1>6, <1>7 DEF LoginStep

\* The parts that a request whose sessions and logins stay as they are can disturb.
LEMMA CompleteOK ==
  ASSUME AccountInv, NEW h \in Threads, Complete(h),
         UNCHANGED <<users, login>>,
         sessions' \in [Logins -> SessionType],
         loggedOut' \subseteq Logins,
         SessionsOK'
  PROVE  AccountInv'
<1> USE AccountsAssumption DEF AccountInv, AccountTypes
<1>1. /\ thread' = [thread EXCEPT ![h] = Resting]
      /\ holder' = [holder EXCEPT ![h] = NoUser]
      /\ leftover' = leftover \ {h}
  BY DEF Complete
<1>2. Resting \in ThreadType /\ ThreadOK(Resting) /\ NoUser \in HolderType
  BY DEF Resting, ThreadType, ThreadOK, NoUser, HolderType
<1>3. AccountTypes'
  BY <1>1, <1>2
<1>4. UsersOK'
  BY DEF UsersOK
<1>5. ThreadsOK'
  BY <1>1 DEF ThreadsOK, Resting, NoUser
<1> QED BY <1>3, <1>4, <1>5

\* A step that moves a thread on and leaves its token and the holders as they are.
LEMMA GotoThreadOK ==
  ASSUME AccountInv, NEW h \in Threads,
         NEW pc \in {"gate", "handler", "profile", "extend"},
         GotoThread(h, pc),
         pc \in {"profile", "extend"} => thread[h].token # None,
         UNCHANGED <<users, login, holder, leftover>>,
         sessions' \in [Logins -> SessionType],
         UNCHANGED loggedOut,
         SessionsOK'
  PROVE  AccountInv'
<1> USE AccountsAssumption DEF AccountInv, AccountTypes
<1> DEFINE x == [thread[h] EXCEPT !.pc = pc]
<1>1. thread' = [thread EXCEPT ![h] = x]
  BY DEF GotoThread
<1>2. x \in ThreadType /\ ThreadOK(x) /\ x.token = thread[h].token /\ x.pc = pc
  BY DEF ThreadType, ThreadOK
<1> HIDE DEF x
<1>3. AccountTypes'
  BY <1>1, <1>2
<1>4. UsersOK'
  BY DEF UsersOK
<1>5. ThreadsOK'
  BY <1>1, <1>2 DEF ThreadsOK
<1> QED BY <1>3, <1>4, <1>5

\* Lifetimes and profiles are written without touching the user a session names.
LEMMA SessionWrites ==
  ASSUME AccountInv, NEW l \in Logins, UNCHANGED <<users, login, loggedOut>>,
         \/ UNCHANGED sessions
         \/ \E ttl \in {"days", "minutes"} : SetLifetime(l, ttl)
         \/ sessions' = [sessions EXCEPT ![l].profile = TRUE]
  PROVE  sessions' \in [Logins -> SessionType] /\ SessionsOK'
<1> USE AccountsAssumption DEF AccountInv, AccountTypes, SessionType
<1> SUFFICES /\ sessions' \in [Logins -> SessionType]
             /\ \A m \in Logins : sessions'[m].id = sessions[m].id
    BY DEF SessionsOK
<1>1. CASE UNCHANGED sessions
  BY <1>1
<1>2. ASSUME NEW ttl \in {"days", "minutes"}, sessions' = [sessions EXCEPT ![l].ttl = ttl]
      PROVE  /\ sessions' \in [Logins -> SessionType]
             /\ \A m \in Logins : sessions'[m].id = sessions[m].id
  BY <1>2
<1>3. CASE sessions' = [sessions EXCEPT ![l].profile = TRUE]
  BY <1>3
<1> QED BY <1>1, <1>2, <1>3 DEF SetLifetime

LEMMA ThreadStepInv ==
  ASSUME AccountInv, NEW h \in Threads, ThreadStep(h)
  PROVE  AccountInv'
<1> USE AccountsAssumption
<1> DEFINE token == thread[h].token
<1>0. /\ thread[h] \in ThreadType /\ ThreadOK(thread[h]) /\ token \in Logins \union {None}
      /\ sessions \in [Logins -> SessionType] /\ loggedOut \subseteq Logins
      /\ thread[h].pc \in {"refresh", "expire", "profile", "extend"} => token \in Logins
      /\ SessionsOK
  BY DEF AccountInv, AccountTypes, ThreadType, ThreadOK
<1>a. ASSUME UNCHANGED <<users, login, sessions, loggedOut>>
      PROVE  sessions' \in [Logins -> SessionType] /\ SessionsOK'
  BY <1>0, <1>a DEF SessionsOK
<1>1. CASE \E kind \in Kinds, t \in Logins \union {None} : Receive(h, kind, t)
  <2> PICK kind \in Kinds, t \in Logins \union {None} : Receive(h, kind, t)
      BY <1>1
  <2> DEFINE x == [pc |-> IF t = None THEN "gate" ELSE "refresh", kind |-> kind, token |-> t]
  <2>1. /\ thread[h].pc = "idle" /\ (t # None => login[t].pc = "done")
        /\ thread' = [thread EXCEPT ![h] = x]
        /\ UNCHANGED <<users, login, sessions, loggedOut, holder, leftover>>
    BY DEF Receive, loginVars
  <2>2. x \in ThreadType /\ ThreadOK(x) /\ x.token = t
    BY DEF ThreadType, ThreadOK
  <2> HIDE DEF x
  <2>3. AccountTypes'
    BY <2>1, <2>2 DEF AccountInv, AccountTypes
  <2>4. UsersOK' /\ SessionsOK'
    BY <1>a, <2>1 DEF AccountInv, UsersOK
  <2>5. ThreadsOK'
    BY <2>1, <2>2 DEF AccountInv, AccountTypes, ThreadsOK
  <2> QED BY <2>3, <2>4, <2>5 DEF AccountInv
<1>2. CASE Refresh(h)
  <2> DEFINE s == sessions[token]
             user == [set |-> TRUE, id |-> s.id]
  <2>1. /\ thread[h].pc = "refresh" /\ token \in Logins
        /\ UNCHANGED <<users, login, sessions, loggedOut, leftover>>
    BY <1>0, <1>2 DEF Refresh, loginVars
  <2>2. CASE Exists(s)
    <3> DEFINE x == [thread[h] EXCEPT !.pc = "expire"]
    <3>1. thread' = [thread EXCEPT ![h] = x] /\ holder' = [holder EXCEPT ![h] = user]
      BY <1>2, <2>2 DEF Refresh, GotoThread
    <3>2. /\ x \in ThreadType /\ ThreadOK(x) /\ x.token = token /\ x.pc = "expire"
          /\ user \in HolderType
      BY <1>0, <2>1 DEF ThreadType, ThreadOK, HolderType, SessionType
    <3>3. user.id \in {None, users[login[token].phone]}
      BY <1>0, <2>1 DEF SessionsOK
    <3> HIDE DEF x, user
    <3>4. AccountTypes'
      BY <2>1, <3>1, <3>2 DEF AccountInv, AccountTypes
    <3>5. UsersOK' /\ SessionsOK'
      BY <1>a, <2>1 DEF AccountInv, UsersOK
    <3>6. ThreadsOK'
      BY <2>1, <3>1, <3>2, <3>3 DEF AccountInv, AccountTypes, ThreadsOK
    <3> QED BY <3>4, <3>5, <3>6 DEF AccountInv
  <2>3. CASE ~Exists(s)
    <3>1. GotoThread(h, "gate") /\ UNCHANGED holder
      BY <1>2, <2>3 DEF Refresh
    <3>2. sessions' \in [Logins -> SessionType] /\ SessionsOK'
      BY <1>a, <2>1
    <3> DEFINE x == [thread[h] EXCEPT !.pc = "gate"]
    <3>3. thread' = [thread EXCEPT ![h] = x]
      BY <3>1 DEF GotoThread
    <3>4. x \in ThreadType /\ ThreadOK(x) /\ x.token = token /\ x.pc = "gate"
      BY <1>0 DEF ThreadType, ThreadOK
    <3> HIDE DEF x
    <3>5. AccountTypes'
      BY <2>1, <3>1, <3>3, <3>4 DEF AccountInv, AccountTypes
    <3>6. UsersOK'
      BY <2>1 DEF AccountInv, UsersOK
    <3>7. ThreadsOK'
      BY <2>1, <3>1, <3>3, <3>4 DEF AccountInv, AccountTypes, ThreadsOK
    <3> QED BY <3>2, <3>5, <3>6, <3>7 DEF AccountInv
  <2> QED BY <2>2, <2>3
<1>3. CASE Renew(h)
  <2>1. /\ thread[h].pc = "expire" /\ SetLifetime(token, "minutes") /\ GotoThread(h, "gate")
        /\ UNCHANGED <<users, login, loggedOut, holder, leftover>>
    BY <1>3 DEF Renew, loginVars
  <2>2. sessions' \in [Logins -> SessionType] /\ SessionsOK'
    BY <1>0, <2>1, SessionWrites
  <2> QED BY <2>1, <2>2, GotoThreadOK
<1>4. CASE RenewFails(h)
  <2>1. /\ leftover' = leftover \union {h} /\ thread' = [thread EXCEPT ![h] = Resting]
        /\ UNCHANGED <<users, login, sessions, loggedOut, holder>>
    BY <1>4 DEF RenewFails, loginVars
  <2>2. Resting \in ThreadType /\ ThreadOK(Resting)
    BY DEF Resting, ThreadType, ThreadOK
  <2>3. AccountTypes'
    BY <2>1, <2>2 DEF AccountInv, AccountTypes
  <2>4. UsersOK' /\ SessionsOK'
    BY <1>a, <2>1 DEF AccountInv, UsersOK
  <2>5. ThreadsOK'
    BY <2>1 DEF AccountInv, AccountTypes, ThreadsOK, Resting
  <2> QED BY <2>3, <2>4, <2>5 DEF AccountInv
<1>5. CASE Gate(h)
  <2>1. thread[h].pc = "gate" /\ UNCHANGED <<users, login, sessions, loggedOut>>
    BY <1>5 DEF Gate, loginVars
  <2>2. \/ GotoThread(h, "handler") /\ UNCHANGED <<holder, leftover>>
        \/ Complete(h)
    BY <1>5 DEF Gate
  <2> QED BY <1>0, <1>a, <2>1, <2>2, CompleteOK, GotoThreadOK
<1>6. CASE Handle(h) \/ HandlerBreaks(h)
  <2>1. Complete(h) /\ UNCHANGED <<users, login, sessions, loggedOut>>
    BY <1>6 DEF Handle, HandlerBreaks, loginVars
  <2> QED BY <1>0, <1>a, <2>1, CompleteOK
<1>7. CASE Logout(h)
  <2>1. Complete(h) /\ UNCHANGED <<users, login>>
    BY <1>7 DEF Logout, loginVars
  <2>2. CASE token = None
    BY <1>0, <1>7, <1>a, <2>1, <2>2, CompleteOK DEF Logout
  <2>3. CASE token # None
    <3>1. /\ token \in Logins /\ login[token].pc = "done"
          /\ sessions' = [sessions EXCEPT ![token] = NoSession]
          /\ loggedOut' = loggedOut \union {token}
      BY <1>0, <1>7, <2>3 DEF Logout, AccountInv, ThreadsOK
    <3>2. sessions' \in [Logins -> SessionType] /\ loggedOut' \subseteq Logins
      BY <1>0, <3>1 DEF NoSession, SessionType
    <3>3. SessionsOK'
      BY <1>0, <2>1, <3>1 DEF NoSession, SessionsOK
    <3> QED BY <2>1, <3>2, <3>3, CompleteOK
  <2> QED BY <2>2, <2>3
<1>8. CASE UpdateProfile(h)
  <2>1. thread[h].pc = "handler" /\ UNCHANGED <<users, login, sessions, loggedOut>>
    BY <1>8 DEF UpdateProfile, loginVars
  <2>2. \/ token # None /\ GotoThread(h, "profile") /\ UNCHANGED <<holder, leftover>>
        \/ Complete(h)
    BY <1>8 DEF UpdateProfile
  <2> QED BY <1>0, <1>a, <2>1, <2>2, CompleteOK, GotoThreadOK
<1>9. CASE PutProfile(h)
  <2>1. /\ thread[h].pc = "profile" /\ sessions' = [sessions EXCEPT ![token].profile = TRUE]
        /\ GotoThread(h, "extend")
        /\ UNCHANGED <<users, login, loggedOut, holder, leftover>>
    BY <1>9 DEF PutProfile, loginVars
  <2>2. sessions' \in [Logins -> SessionType] /\ SessionsOK'
    BY <1>0, <2>1, SessionWrites
  <2> QED BY <1>0, <2>1, <2>2, GotoThreadOK
<1>10. CASE ExtendSession(h)
  <2>1. /\ thread[h].pc = "extend" /\ SetLifetime(token, "days") /\ Complete(h)
        /\ UNCHANGED <<users, login, loggedOut>>
    BY <1>10 DEF ExtendSession, loginVars
  <2>2. sessions' \in [Logins -> SessionType] /\ SessionsOK'
    BY <1>0, <2>1, SessionWrites
  <2> QED BY <1>0, <2>1, <2>2, CompleteOK
<1> QED BY <1>1, <1>2, <1>3, <1>4, <1>5, <1>6, <1>7, <1>8, <1>9, <1>10 DEF ThreadStep

-----------------------------------------------------------------------------
(* The code of a phone *)

Saved == {"saved", "done", "failed", "over"}

\* The request that stored a code last is past storing it, and until its call of the
\* provider fails its code is in Redis, for the lifetime of a code or longer.
CodesOK ==
    \A p \in Phones, r \in Requests : lastSaved[p] = r =>
        /\ send[r].phone = p /\ send[r].pc \in Saved
        /\ send[r].pc \in {"saved", "done"} =>
             codes[p].code = r /\ send[r].reserved + CodeTtl =< codes[p].until

\* A request that does not store a code may go on or fail, but cannot become saved.
LEMMA CodesKept ==
  ASSUME SmsTypes, CodesOK, NEW r \in Requests, send[r].pc \notin {"saved", "done"},
         \A q \in Requests : q # r => send'[q] = send[q],
         send[r].pc \in Saved => /\ send'[r].phone = send[r].phone
                                 /\ send'[r].pc \in {"failed", "over"},
         UNCHANGED <<codes, lastSaved>>
  PROVE  CodesOK'
BY DEF CodesOK, Saved

LEMMA CodesStep ==
  ASSUME SmsTypes, TimeOK, CodesOK, NEW r \in Requests, SendCode(r)
  PROVE  CodesOK'
<1>1. /\ send \in [Requests -> SendType] /\ SendOK(send[r])
      /\ codes \in [Phones -> CodeType]
      /\ lastSaved \in [Phones -> Requests \union {None}]
      /\ clock \in Nat /\ CodeTtl \in Nat
  BY Constants DEF SmsTypes
<1>2. \A q \in Requests : q # r => send'[q] = send[q]
  BY <1>1 DEF SendCode, Arrive, Limit, LimitFails, Reserve, ReserveFails, Save, SaveFails,
         Deliver, DeliverFails, Cleanup, CleanupFails, Crash, Goto, Refuse
<1>3. CASE \/ \E p \in Phones : Arrive(r, p)
           \/ Limit(r) \/ LimitFails(r) \/ Reserve(r) \/ ReserveFails(r)
  <2>1. send[r].pc \in {"idle", "stamped", "admitted"} /\ UNCHANGED <<codes, lastSaved>>
    BY <1>3 DEF Arrive, Limit, LimitFails, Reserve, ReserveFails
  <2> QED BY <1>2, <2>1, CodesKept DEF Saved
<1>4. CASE Save(r) \/ SaveFails(r)
  <2> DEFINE p == send[r].phone
  <2>1. send[r].pc = "reserved" /\ p \in Phones
    BY <1>1, <1>4 DEF Save, SaveFails, SendOK
  <2>2. send'[r].phone = p /\ send'[r].reserved = send[r].reserved
    BY <1>1, <1>4 DEF Save, SaveFails, Goto, SendType
  <2>3. CASE StoreCode(r)
    <3>1. /\ codes' = [codes EXCEPT ![p] = [code |-> r, until |-> clock + CodeTtl]]
          /\ lastSaved' = [lastSaved EXCEPT ![p] = r]
      BY <2>3 DEF StoreCode
    <3>2. codes'[p].code = r /\ codes'[p].until = clock + CodeTtl
      BY <1>1, <2>1, <3>1
    <3>3. send[r].reserved + CodeTtl =< clock + CodeTtl
      BY <1>1 DEF TimeOK, SendType
    <3>4. send'[r].pc \in {"saved", "failed"}
      BY <1>1, <1>4 DEF Save, SaveFails, Goto, SendType
    <3>5. \A o \in Phones : o # p => codes'[o] = codes[o] /\ lastSaved'[o] = lastSaved[o]
      BY <1>1, <3>1
    <3>6. lastSaved'[p] = r
      BY <1>1, <2>1, <3>1
    <3>7. \A o \in Phones, q \in Requests : o # p /\ lastSaved'[o] = q => q # r
      BY <2>1, <3>5 DEF CodesOK, Saved
    <3> HIDE DEF p
    <3>8. ASSUME NEW o \in Phones, NEW q \in Requests, lastSaved'[o] = q
          PROVE  /\ send'[q].phone = o /\ send'[q].pc \in Saved
                 /\ send'[q].pc \in {"saved", "done"} =>
                      codes'[o].code = q /\ send'[q].reserved + CodeTtl =< codes'[o].until
      <4>1. CASE o = p
        BY <2>2, <3>2, <3>3, <3>4, <3>6, <3>8, <4>1 DEF Saved
      <4>2. CASE o # p
        BY <1>2, <3>5, <3>7, <3>8, <4>2 DEF CodesOK
      <4> QED BY <4>1, <4>2
    <3> QED BY <3>8 DEF CodesOK
  <2>4. CASE UNCHANGED <<codes, lastSaved>>
    BY <1>2, <2>1, <2>4, CodesKept DEF Saved
  <2> QED BY <1>4, <2>3, <2>4 DEF Save, SaveFails, StoreCode
<1>5. CASE Deliver(r)
  <2>1. /\ send[r].pc = "saved" /\ send'[r].pc = "done" /\ send'[r].phone = send[r].phone
        /\ send'[r].reserved = send[r].reserved /\ UNCHANGED <<codes, lastSaved>>
    BY <1>1, <1>5 DEF Deliver, Goto, SendType
  <2> QED BY <1>2, <2>1 DEF CodesOK, Saved
<1>6. CASE DeliverFails(r) \/ CleanupFails(r) \/ Crash(r)
  <2>1. /\ send'[r].pc \in {"failed", "over"} /\ send'[r].phone = send[r].phone
        /\ UNCHANGED <<codes, lastSaved>>
    BY <1>1, <1>6 DEF DeliverFails, CleanupFails, Crash, Goto, SendType
  <2> QED BY <1>2, <2>1 DEF CodesOK, Saved
<1>7. CASE Cleanup(r)
  <2> DEFINE p == send[r].phone
  <2>1. /\ send[r].pc = "failed" /\ p \in Phones /\ send'[r].phone = p
        /\ send'[r].pc = "over" /\ UNCHANGED lastSaved
        /\ codes' = [codes EXCEPT ![p] = CodeAfterCleanup(r)]
    BY <1>1, <1>7 DEF Cleanup, Goto, SendOK, SendType
  <2>2. \A o \in Phones : codes'[o] = codes[o] \/ (o = p /\ codes[o].code = r)
    BY <1>1, <2>1, SmsAssumption DEF CodeAfterCleanup, StoredCode
  <2> HIDE DEF p
  <2>3. ASSUME NEW o \in Phones, NEW q \in Requests, lastSaved'[o] = q
        PROVE  /\ send'[q].phone = o /\ send'[q].pc \in Saved
               /\ send'[q].pc \in {"saved", "done"} =>
                    codes'[o].code = q /\ send'[q].reserved + CodeTtl =< codes'[o].until
    <3>1. CASE q = r
      BY <2>1, <2>3, <3>1 DEF CodesOK, Saved, p
    <3>2. CASE q # r
      BY <1>2, <2>1, <2>2, <2>3, <3>2 DEF CodesOK
    <3> QED BY <3>1, <3>2
  <2> QED BY <2>3 DEF CodesOK
<1> QED BY <1>3, <1>4, <1>5, <1>6, <1>7 DEF SendCode

-----------------------------------------------------------------------------
(* The theorems *)

SmsInv == LimitInv /\ Periods /\ DailyPast /\ CodesOK

LEMMA SmsInvStep ==
  ASSUME SmsInv, SmsNext
  PROVE  SmsInv'
<1>1. SmsTypes /\ TimeOK /\ Remembered /\ WindowBound /\ Periods /\ DailyPast /\ CodesOK
  BY DEF SmsInv, LimitInv
<1>2. SmsTypes'
  <2>1. CASE Tick
    BY <1>1, <2>1 DEF Tick, SmsTypes
  <2> QED BY <1>1, <2>1, SendCodeTypes DEF SmsNext
<1>3. TimeOK' /\ Remembered' /\ Periods' /\ DailyPast'
  BY <1>1, TimeStep, RememberedStep, PeriodsStep, DailyPastStep
<1>4. WindowBound'
  BY WindowBoundStep DEF SmsInv
<1>5. CodesOK'
  <2>1. CASE Tick
    BY <1>1, <2>1 DEF Tick, CodesOK
  <2> QED BY <1>1, <2>1, CodesStep DEF SmsNext
<1> QED BY <1>2, <1>3, <1>4, <1>5 DEF SmsInv, LimitInv

\* Logins and requests leave codes and limits alone.
LEMMA AccountStepsSms ==
  ASSUME SmsTypes,
         (\E l \in Logins : LoginStep(l)) \/ (\E h \in Threads : ThreadStep(h))
  PROVE  /\ UNCHANGED <<clock, limiter, quota, codes, send, lastSaved>>
         /\ arrivals' \in Nat /\ faults' \in Nat
<1>1. ASSUME NEW l \in Logins, LoginStep(l)
      PROVE  /\ UNCHANGED smsRest
             /\ arrivals' \in {arrivals, arrivals + 1} /\ faults' \in {faults, faults + 1}
  BY <1>1 DEF LoginStep, CheckCode, FindUser, CreateUser, StoreSession, ReturnToken,
         LoginBreaks, ExpireSession, Fault
<1>2. ASSUME NEW h \in Threads, ThreadStep(h)
      PROVE  /\ UNCHANGED smsRest
             /\ arrivals' \in {arrivals, arrivals + 1} /\ faults' \in {faults, faults + 1}
  BY <1>2 DEF ThreadStep, Receive, Refresh, Renew, RenewFails, Gate, Handle, Logout,
         UpdateProfile, PutProfile, ExtendSession, HandlerBreaks, Fault
<1> QED BY <1>1, <1>2 DEF smsRest, SmsTypes

LEMMA SmsInvSame ==
  ASSUME SmsInv, UNCHANGED <<clock, limiter, quota, codes, send, lastSaved>>,
         arrivals' \in Nat, faults' \in Nat
  PROVE  SmsInv'
<1>1. SmsTypes'
  BY DEF SmsInv, LimitInv, SmsTypes
<1>2. TimeOK' /\ Remembered'
  BY DEF SmsInv, LimitInv, TimeOK, Remembered, Span
<1>3. WindowBound'
  BY DEF SmsInv, LimitInv, WindowBound, AdmittedIn, Span
<1>4. Periods'
  BY DEF SmsInv, Periods, NoPeriod, PeriodOK, PeriodStart, Since, Between
<1>5. DailyPast'
  BY DEF SmsInv, DailyPast, ReservedIn
<1>6. CodesOK'
  BY DEF SmsInv, CodesOK
<1> QED BY <1>1, <1>2, <1>3, <1>4, <1>5, <1>6 DEF SmsInv, LimitInv

LEMMA AccountInvSame ==
  ASSUME AccountInv, UNCHANGED accountVars
  PROVE  AccountInv'
BY DEF AccountInv, accountVars, AccountTypes, UsersOK, SessionsOK, ThreadsOK

Inv == SmsInv /\ AccountInv

LEMMA InvInit == Init => Inv
<1> SUFFICES ASSUME Init PROVE Inv
    OBVIOUS
<1> USE Constants
<1>1. SmsTypes /\ AccountTypes
  BY InitTypes
<1>2. /\ clock = 1 /\ limiter = [entries |-> {}, until |-> Never]
      /\ \A r \in Requests : /\ send[r].pc = "idle"
                             /\ send[r].admitted = Never /\ send[r].reserved = Never
      /\ \A p \in Phones : quota[p].until = Never
  BY DEF Init, SmsInit
<1>3. TimeOK
  BY <1>2 DEF TimeOK, Never
<1>4. Remembered
  BY <1>2, FS_EmptySet DEF Remembered
<1>5. WindowBound
  <2>1. \A t : AdmittedIn(Span, t) = {}
    BY <1>2 DEF AdmittedIn
  <2> QED BY <2>1, FS_EmptySet DEF WindowBound
<1>6. Periods
  BY <1>2 DEF Periods, NoPeriod, Since
<1>7. DailyPast
  BY <1>2 DEF DailyPast
<1>8. UsersOK /\ SessionsOK /\ ThreadsOK
  BY DEF Init, UsersOK, SessionsOK, ThreadsOK, NoSession, Resting, NoUser
<1>9. CodesOK
  BY SmsAssumption DEF Init, SmsInit, CodesOK
<1> QED BY <1>1, <1>3, <1>4, <1>5, <1>6, <1>7, <1>8, <1>9
        DEF Inv, SmsInv, LimitInv, AccountInv

LEMMA InvStep == Inv /\ [Next]_vars => Inv'
<1> SUFFICES ASSUME Inv, [Next]_vars PROVE Inv'
    OBVIOUS
<1>0. SmsInv /\ AccountInv /\ SmsTypes
  BY DEF Inv, SmsInv, LimitInv
<1>1. CASE SmsNext /\ UNCHANGED accountVars
  BY <1>0, <1>1, SmsInvStep, AccountInvSame DEF Inv
<1>2. CASE \E l \in Logins : LoginStep(l)
  <2>1. SmsInv'
    BY <1>0, <1>2, AccountStepsSms, SmsInvSame
  <2>2. AccountInv'
    BY <1>0, <1>2, LoginStepInv
  <2> QED BY <2>1, <2>2 DEF Inv
<1>3. CASE \E h \in Threads : ThreadStep(h)
  <2>1. SmsInv'
    BY <1>0, <1>3, AccountStepsSms, SmsInvSame
  <2>2. AccountInv'
    BY <1>0, <1>3, ThreadStepInv
  <2> QED BY <2>1, <2>2 DEF Inv
<1>4. CASE UNCHANGED vars
  <2>1. SmsInv'
    BY <1>0, <1>4, SmsInvSame DEF vars, smsVars, SmsTypes
  <2>2. AccountInv'
    BY <1>0, <1>4, AccountInvSame DEF vars
  <2> QED BY <2>1, <2>2 DEF Inv
<1> QED BY <1>1, <1>2, <1>3, <1>4 DEF Next

LEMMA Invariance == Spec => []Inv
BY InvInit, InvStep, PTL DEF Spec

\* Every state of the sending of codes, the logins and the requests is well formed.
THEOREM AccountTypeSafety == Spec => []TypeOK
<1>1. Inv => TypeOK
  <2> SUFFICES ASSUME Inv PROVE TypeOK
      OBVIOUS
  <2>1. SmsTypes /\ AccountTypes
    BY DEF Inv, SmsInv, LimitInv, AccountInv
  <2> QED BY <2>1 DEF TypeOK, SmsTypeOK, SmsTypes, AccountTypes, LimiterType, EntryType,
          QuotaType, CodeType, SendType, LoginType, SessionType, ThreadType, HolderType
<1> QED BY <1>1, Invariance, PTL

\* rate_limit.lua counts and forgets by stamps the instances took before the call:
\* at most maxCount requests pass in any interval shorter than the window by what the
\* stamps may be off, whatever the limit, the delays and the failures.
THEOREM EndpointLimit == Spec => []WindowBound
<1>1. Inv => WindowBound
  BY DEF Inv, SmsInv, LimitInv
<1> QED BY <1>1, Invariance, PTL

\* sms_reserve.lua restarts a phone's daily counter with the first send after it
\* expired: a phone never gets twice the quota within a day.
THEOREM DailyQuota == Spec => []DailyBound
<1>1. Inv => DailyBound
  <2> SUFFICES ASSUME Inv, NEW p \in Phones, NEW t \in 1 .. clock
               PROVE  Cardinality(ReservedIn(p, Day, t)) < 2 * DailyMax
      BY DEF DailyBound
  <2>1. SmsTypes /\ TimeOK /\ Periods /\ DailyPast /\ clock \in Nat
    BY DEF Inv, SmsInv, LimitInv, SmsTypes
  <2>2. CASE t = clock
    BY <2>1, <2>2, LastDay
  <2>3. CASE t # clock
    BY <2>1, <2>3 DEF DailyPast
  <2> QED BY <2>2, <2>3
<1> QED BY <1>1, Invariance, PTL

\* Once the provider accepted the message of the request that stored a code last, login
\* finds that code for as long as a code lives: deleteFailedCode of an earlier request,
\* however late its call of the provider failed, compares before it deletes.
THEOREM NewestCodeStays == Spec => []DeliveredCodeWorks
<1>1. Inv => DeliveredCodeWorks
  <2> SUFFICES ASSUME Inv, NEW p \in Phones, NEW r, lastSaved[p] = r, r # None,
                      send[r].pc = "done", clock < send[r].reserved + CodeTtl
               PROVE  StoredCode(p) = r
      BY DEF DeliveredCodeWorks
  <2>1. SmsTypes /\ CodesOK
    BY DEF Inv, SmsInv, LimitInv
  <2>2. r \in Requests
    BY <2>1 DEF SmsTypes
  <2>3. codes[p].code = r /\ send[r].reserved + CodeTtl =< codes[p].until
    BY <2>1, <2>2 DEF CodesOK
  <2>4. clock \in Nat /\ codes[p].until \in Nat /\ send[r].reserved + CodeTtl \in Nat
    BY <2>1, <2>2, Constants DEF SmsTypes, CodeType, SendType
  <2> QED BY <2>3, <2>4 DEF StoredCode
<1> QED BY <1>1, Invariance, PTL

\* A session that names a user names the one user of the phone its login proved, and
\* was not logged out, however first logins, logouts, renewals and profile updates
\* interleave.
THEOREM SessionsNameTheirUser == Spec => []SessionOfItsPhone
<1>1. Inv => SessionOfItsPhone
  BY DEF Inv, AccountInv, SessionsOK, SessionOfItsPhone
<1> QED BY <1>1, Invariance, PTL

\* UserHolder never shows a handler another request's user, unless the refresh of an
\* earlier request of the thread threw between saveUser and its return.
THEOREM HoldersAreNotShared == Spec => []HandlerSeesItsUser
<1>1. Inv => HandlerSeesItsUser
  BY DEF Inv, AccountInv, ThreadsOK, HandlerSeesItsUser
<1> QED BY <1>1, Invariance, PTL
=============================================================================
