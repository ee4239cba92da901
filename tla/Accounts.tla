------------------------------ MODULE Accounts ------------------------------
(* Login by code and the sessions it opens: UserServiceImpl.login, logout and *)
(* updateProfile, and the two interceptors around every request.  A session   *)
(* is a Redis hash; a request on a Tomcat thread copies it into the thread's  *)
(* UserHolder, runs its handler and clears the holder.  The steps of logins   *)
(* and requests interleave with each other and with the sending of codes.     *)
EXTENDS SmsCodes

CONSTANTS
    Logins,         \* calls of login; the token a login creates is the login itself
    Threads         \* Tomcat threads

ASSUME AccountsAssumption == None \notin Logins

VARIABLES
    users,      \* tb_user, unique on phone: the user's id is the login that inserted it
    login,      \* per login: where it stands
    sessions,   \* per token: the hash login:token:<token> and its lifetime
    loggedOut,  \* tokens a logout has deleted (history)
    thread,     \* per thread: the request it serves
    holder,     \* per thread: UserHolder's ThreadLocal
    leftover    \* threads whose last request ended without afterCompletion (history)

accountVars == <<users, login, sessions, loggedOut, thread, holder, leftover>>
vars == <<smsVars, accountVars>>

NoSession == [id |-> None, profile |-> FALSE, ttl |-> "none"]
Exists(s) == s.id # None \/ s.profile
NoUser == [set |-> FALSE, id |-> None]
Resting == [pc |-> "idle", kind |-> "none", token |-> None]

\* A request to an open path, a protected one, PUT /user/info, POST /user/logout.
Kinds == {"open", "protected", "profile", "logout"}

TypeOK ==
    /\ SmsTypeOK
    /\ users \in [Phones -> Logins \union {None}]
    /\ login \in [Logins -> [pc : {"idle", "matched", "creating", "known", "stored",
                                   "done", "over"},
                             phone : Phones \union {None},
                             user : Logins \union {None}]]
    /\ sessions \in [Logins -> [id : Logins \union {None}, profile : BOOLEAN,
                                ttl : {"none", "days", "minutes"}]]
    /\ loggedOut \subseteq Logins
    /\ thread \in [Threads -> [pc : {"idle", "refresh", "expire", "gate", "handler",
                                     "profile", "extend"},
                               kind : Kinds \union {"none"},
                               token : Logins \union {None}]]
    /\ holder \in [Threads -> [set : BOOLEAN, id : Logins \union {None}]]
    /\ leftover \subseteq Threads

Init ==
    /\ SmsInit
    /\ users = [p \in Phones |-> None]
    /\ login = [l \in Logins |-> [pc |-> "idle", phone |-> None, user |-> None]]
    /\ sessions = [l \in Logins |-> NoSession]
    /\ loggedOut = {}
    /\ thread = [h \in Threads |-> Resting]
    /\ holder = [h \in Threads |-> NoUser]
    /\ leftover = {}

-----------------------------------------------------------------------------
(* login *)

smsRest == <<clock, limiter, quota, codes, send, lastSaved>>
webVars == <<loggedOut, thread, holder, leftover>>

GotoLogin(l, pc) == login' = [login EXCEPT ![l].pc = pc]

\* The user types a code some request made; a mismatch ends the call.
CheckCode(l, p, code) ==
    /\ login[l].pc = "idle"
    /\ arrivals < MaxArrivals
    /\ arrivals' = arrivals + 1
    /\ login' = [login EXCEPT ![l] =
         [pc |-> IF StoredCode(p) = code THEN "matched" ELSE "over",
          phone |-> p, user |-> None]]
    /\ UNCHANGED <<smsRest, faults, users, sessions, webVars>>

\* query().eq("phone", phone).one()
FindUser(l) ==
    LET known == users[login[l].phone] IN
    /\ login[l].pc = "matched"
    /\ login' = [login EXCEPT ![l].user = known,
                              ![l].pc = IF known = None THEN "creating" ELSE "known"]
    /\ UNCHANGED <<smsRest, arrivals, faults, users, sessions, webVars>>

\* Bug: tb_user has no unique index on phone.
CreateAnotherUser(l) ==
    /\ login[l].pc = "creating"
    /\ users' = [users EXCEPT ![login[l].phone] = l]
    /\ login' = [login EXCEPT ![l].pc = "known", ![l].user = l]
    /\ UNCHANGED <<smsRest, arrivals, faults, sessions, webVars>>

\* createUserWithPhone: the insert fails on the unique phone if another login was first.
CreateUser(l) ==
    LET p == login[l].phone IN
    /\ login[l].pc = "creating"
    /\ IF users[p] = None
       THEN /\ users' = [users EXCEPT ![p] = l]
            /\ login' = [login EXCEPT ![l].pc = "known", ![l].user = l]
       ELSE /\ GotoLogin(l, "over")
            /\ UNCHANGED users
    /\ UNCHANGED <<smsRest, arrivals, faults, sessions, webVars>>

\* putAll of the user's summary: a hash without a lifetime ...
StoreSession(l) ==
    /\ login[l].pc = "known"
    /\ sessions' = [sessions EXCEPT ![l] =
         [id |-> login[l].user, profile |-> TRUE, ttl |-> "none"]]
    /\ GotoLogin(l, "stored")
    /\ UNCHANGED <<smsRest, arrivals, faults, users, webVars>>

\* ... until the call that sets it, in days; then the token is returned.
ReturnToken(l) ==
    /\ login[l].pc = "stored"
    /\ sessions' = [sessions EXCEPT ![l].ttl = "days"]
    /\ GotoLogin(l, "done")
    /\ UNCHANGED <<smsRest, arrivals, faults, users, webVars>>

\* A call of Redis or MySQL fails, or the instance dies: the client gets no token.
LoginBreaks(l) ==
    /\ login[l].pc \in {"matched", "creating", "known", "stored"}
    /\ Fault
    /\ GotoLogin(l, "over")
    /\ UNCHANGED <<smsRest, arrivals, users, sessions, webVars>>

\* Redis drops a hash whose lifetime is over.
ExpireSession(l) ==
    /\ sessions[l].ttl # "none"
    /\ sessions' = [sessions EXCEPT ![l] = NoSession]
    /\ UNCHANGED <<smsRest, arrivals, faults, users, login, webVars>>

-----------------------------------------------------------------------------
(* Requests *)

loginVars == <<users, login>>

GotoThread(h, pc) == thread' = [thread EXCEPT ![h].pc = pc]

\* Bug: the holder is left as it is.
CompleteKeepsUser(h) ==
    /\ thread' = [thread EXCEPT ![h] = Resting]
    /\ UNCHANGED <<holder, leftover>>

\* afterCompletion: removeUser, and the thread goes back to the pool.
Complete(h) ==
    /\ holder' = [holder EXCEPT ![h] = NoUser]
    /\ leftover' = leftover \ {h}
    /\ thread' = [thread EXCEPT ![h] = Resting]

\* A request without a token passes RefreshTokenInterceptor untouched.
Receive(h, kind, token) ==
    /\ thread[h].pc = "idle"
    /\ token # None => login[token].pc = "done"
    /\ arrivals < MaxArrivals
    /\ arrivals' = arrivals + 1
    /\ thread' = [thread EXCEPT ![h] =
         [pc |-> IF token = None THEN "gate" ELSE "refresh", kind |-> kind, token |-> token]]
    /\ UNCHANGED <<smsRest, faults, loginVars, sessions, loggedOut, holder, leftover>>

\* RefreshTokenInterceptor reads the hash ...
Refresh(h) ==
    LET s == sessions[thread[h].token] IN
    /\ thread[h].pc = "refresh"
    /\ IF Exists(s)
       THEN /\ holder' = [holder EXCEPT ![h] = [set |-> TRUE, id |-> s.id]]
            /\ GotoThread(h, "expire")
       ELSE /\ GotoThread(h, "gate")
            /\ UNCHANGED holder
    /\ UNCHANGED <<smsRest, arrivals, faults, loginVars, sessions, loggedOut, leftover>>

SetLifetime(l, ttl) ==
    sessions' = IF Exists(sessions[l]) THEN [sessions EXCEPT ![l].ttl = ttl] ELSE sessions

\* ... and renews its lifetime, in minutes.
Renew(h) ==
    /\ thread[h].pc = "expire"
    /\ SetLifetime(thread[h].token, "minutes")
    /\ GotoThread(h, "gate")
    /\ UNCHANGED <<smsRest, arrivals, faults, loginVars, loggedOut, holder, leftover>>

\* preHandle throws after saveUser: Spring calls afterCompletion only of interceptors
\* whose preHandle returned true, and this one is the first.
RenewFails(h) ==
    /\ thread[h].pc = "expire"
    /\ Fault
    /\ leftover' = leftover \union {h}
    /\ thread' = [thread EXCEPT ![h] = Resting]
    /\ UNCHANGED <<smsRest, arrivals, loginVars, sessions, loggedOut, holder>>

\* LoginInterceptor answers 401 on a protected path without a user.
Gate(h) ==
    /\ thread[h].pc = "gate"
    /\ IF thread[h].kind = "open" \/ holder[h].set
       THEN GotoThread(h, "handler") /\ UNCHANGED <<holder, leftover>>
       ELSE Complete(h)
    /\ UNCHANGED <<smsRest, arrivals, faults, loginVars, sessions, loggedOut>>

\* Handlers that change none of this state.
Handle(h) ==
    /\ thread[h].pc = "handler"
    /\ thread[h].kind \in {"open", "protected"}
    /\ Complete(h)
    /\ UNCHANGED <<smsRest, arrivals, faults, loginVars, sessions, loggedOut>>

Logout(h) ==
    LET token == thread[h].token IN
    /\ thread[h].pc = "handler" /\ thread[h].kind = "logout"
    /\ IF token = None
       THEN UNCHANGED <<sessions, loggedOut>>
       ELSE /\ sessions' = [sessions EXCEPT ![token] = NoSession]
            /\ loggedOut' = loggedOut \union {token}
    /\ Complete(h)
    /\ UNCHANGED <<smsRest, arrivals, faults, loginVars>>

\* updateProfile refuses a holder without an id, and writes the two tables
\* otherwise; what that does to the counters in tb_user_info is in Follows.
UpdateProfile(h) ==
    /\ thread[h].pc = "handler" /\ thread[h].kind = "profile"
    /\ IF holder[h].id = None \/ thread[h].token = None
       THEN Complete(h)
       ELSE GotoThread(h, "profile") /\ UNCHANGED <<holder, leftover>>
    /\ UNCHANGED <<smsRest, arrivals, faults, loginVars, sessions, loggedOut>>

\* The new nickName and icon are put into the hash, whether it still exists or not.
PutProfile(h) ==
    /\ thread[h].pc = "profile"
    /\ sessions' = [sessions EXCEPT ![thread[h].token].profile = TRUE]
    /\ GotoThread(h, "extend")
    /\ UNCHANGED <<smsRest, arrivals, faults, loginVars, loggedOut, holder, leftover>>

ExtendSession(h) ==
    /\ thread[h].pc = "extend"
    /\ SetLifetime(thread[h].token, "days")
    /\ Complete(h)
    /\ UNCHANGED <<smsRest, arrivals, faults, loginVars, loggedOut>>

\* A handler throws: afterCompletion is called all the same.
HandlerBreaks(h) ==
    /\ thread[h].pc \in {"handler", "profile", "extend"}
    /\ Fault
    /\ Complete(h)
    /\ UNCHANGED <<smsRest, arrivals, loginVars, sessions, loggedOut>>

LoginStep(l) ==
    \/ \E p \in Phones, code \in Requests : CheckCode(l, p, code)
    \/ FindUser(l) \/ CreateUser(l) \/ StoreSession(l) \/ ReturnToken(l)
    \/ LoginBreaks(l) \/ ExpireSession(l)

ThreadStep(h) ==
    \/ \E kind \in Kinds, token \in Logins \union {None} : Receive(h, kind, token)
    \/ Refresh(h) \/ Renew(h) \/ RenewFails(h) \/ Gate(h)
    \/ Handle(h) \/ Logout(h) \/ UpdateProfile(h) \/ PutProfile(h) \/ ExtendSession(h)
    \/ HandlerBreaks(h)

Next ==
    \/ SmsNext /\ UNCHANGED accountVars
    \/ \E l \in Logins : LoginStep(l)
    \/ \E h \in Threads : ThreadStep(h)

Spec == Init /\ [][Next]_vars

-----------------------------------------------------------------------------
(* Properties *)

\* Two first logins with one phone race to insert its user, and updateProfile may
\* write to a hash a logout or expiry removed: every session that names a user names
\* the one user of the phone its login proved, and it is not a session logged out.
SessionOfItsPhone ==
    \A l \in Logins :
        sessions[l].id # None => /\ l \notin loggedOut
                                 /\ sessions[l].id = users[login[l].phone]

\* A handler never runs as a user other than the one its own request's token stands
\* for, and without a token as nobody: afterCompletion keeps threads from passing a
\* user on.  The exception is a thread on which the refresh threw after saveUser: the
\* user it left is there until a later request of that thread completes.
HandlerSeesItsUser ==
    \A h \in Threads \ leftover :
        thread[h].pc = "handler" /\ holder[h].set =>
            /\ thread[h].token # None
            /\ holder[h].id \in {None, users[login[thread[h].token].phone]}
=============================================================================
