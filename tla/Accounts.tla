------------------------------ MODULE Accounts ------------------------------
(***************************************************************************)
(* Accounts and their sessions (app/services/sessions.py, otp.py,           *)
(* accounts.py, user_admin.py, entitlements.py, feature_flags.py,           *)
(* core/auth.py, api/routes/auth.py and admin.py).                          *)
(*                                                                          *)
(* Requests run in threads of the web server, each over the row of the user *)
(* it loaded; the tokens, the codes and the counters are in Redis.          *)
(***************************************************************************)
EXTENDS Integers, FiniteSets

CONSTANTS
    Users, Owners,      \* ALWAYS_ADMIN_EMAILS
    Handlers,           \* threads that answer requests
    MaxAttempts,        \* OTP_MAX_ATTEMPTS
    MaxCodes,           \* OTP_MAX_REQUESTS_PER_HOUR
    DefaultUses,        \* a feature's default quota_per_day
    MaxTokens, MaxCalls,    \* bounds: tokens issued, requests made
    AccountScenes       \* the situations looked at, see AccountScene

Roles == {"user", "manager", "admin", "unknown"}     \* unknown: no row yet

\* A situation: who there is, on whose team, whom the requests are about
\* and what they ask.
AccountScene == [role : [Users -> Roles], team : [Users -> SUBSET Users],
                 calls : SUBSET {"code", "other", "refresh", "logout", "admin", "edit", "feature", "grant"},
                 who : SUBSET Users, max : 0..MaxCalls]

ASSUME AccountConstants ==
    /\ AccountScenes \subseteq AccountScene
    /\ Owners \subseteq Users
    /\ IsFiniteSet(Handlers) /\ Handlers # {}
    /\ {MaxAttempts, MaxCodes, DefaultUses, MaxTokens, MaxCalls} \subseteq Nat

VARIABLES
    uscene,     \* the situation, which never changes
    user,       \* the rows of users
    live,       \* refresh:<hash> of Redis
    spent,      \* refresh_used:<hash>
    code,       \* otp:<email>: the code the HMAC stands for, and the guesses
    mailer,     \* otp_count and otp_cooldown of the email
    grant,      \* what each user may use of a feature, by override or default
    flags,      \* invite_only, and the kill switch of the feature
    uses,       \* quota:<user>:<feature>:<day>
    req,        \* what each thread is doing
    ulog        \* history, for the properties

uvars == <<uscene, user, live, spent, code, mailer, grant, flags, uses, req, ulog>>

NoCode == [mac |-> 0, attempts |-> 0]
Free == [pc |-> "idle", user |-> "nobody", sv |-> 0, token |-> 0, chain |-> 0, mac |-> 0, guess |-> 0,
         new |-> FALSE, op |-> "none", by |-> "nobody", role |-> "unknown"]
Default == [enabled |-> TRUE, quota |-> DefaultUses, override |-> FALSE]
Known(u) == user[u].role # "unknown"

Init ==
    /\ uscene \in AccountScenes
    /\ user = [u \in Users |-> [role |-> uscene.role[u], active |-> uscene.role[u] # "unknown", sv |-> 0]]
    /\ live = {} /\ spent = {}
    /\ code = [u \in Users |-> NoCode]
    /\ mailer = [u \in Users |-> [count |-> 0, cooling |-> FALSE]]
    /\ grant = [u \in Users |-> Default]
    /\ flags = [inviteOnly |-> FALSE, featureOn |-> TRUE]
    /\ uses = [u \in Users |-> 0]
    /\ req = [h \in Handlers |-> Free]
    /\ ulog = [calls |-> 0, tokens |-> 0,
               codes |-> 0, guesses |-> [c \in 0..MaxCalls |-> 0],
               out |-> {},              \* sessions a revocation was to end
               raced |-> {},            \* users with two revocations at once
               overlapped |-> FALSE,    \* two edits of administrators at once
               edited |-> FALSE]        \* an owner's row was edited by hand

At(h, pc) == req[h].pc = pc
Step(h, s) == req' = [req EXCEPT ![h] = s]
Ends(h) == Step(h, Free)
Called(h, what) == At(h, "idle") /\ what \in uscene.calls /\ ulog.calls < uscene.max
More == [ulog EXCEPT !.calls = @ + 1]
Call(h, what) == Called(h, what) /\ ulog' = More

----------------------------------------------------------------------------
(* One-time codes *)

\* issue_code: the code replaces the one before, once a minute and so many an hour.
Issue(u) ==
    /\ ~mailer[u].cooling
    /\ mailer' = [mailer EXCEPT ![u].count = @ + 1, ![u].cooling = mailer[u].count < MaxCodes]
    /\ IF mailer[u].count < MaxCodes
       THEN /\ code' = [code EXCEPT ![u] = [mac |-> ulog.codes + 1, attempts |-> 0]]
            /\ ulog' = [More EXCEPT !.codes = @ + 1]
       ELSE ulog' = More /\ UNCHANGED code

\* request_otp: whether the code is mailed changes nothing here.
RequestCode(h, u) ==
    /\ Called(h, "code") /\ Issue(u)
    /\ UNCHANGED <<uscene, user, live, spent, grant, flags, uses, req>>

CooldownEnds(u) ==
    /\ mailer[u].cooling
    /\ mailer' = [mailer EXCEPT ![u].cooling = FALSE]
    /\ UNCHANGED <<uscene, user, live, spent, code, grant, flags, uses, req, ulog>>

CodeExpires(u) ==
    /\ code[u].mac # 0         \* attempts counted after a code is gone stay
    /\ code' = [code EXCEPT ![u] = NoCode]
    /\ UNCHANGED <<uscene, user, live, spent, mailer, grant, flags, uses, req, ulog>>

\* check_code: the HMAC is read...
VerifyReads(h, u, guess) ==
    /\ Call(h, "code")
    /\ IF code[u].mac = 0 THEN UNCHANGED req
       ELSE Step(h, [Free EXCEPT !.pc = "count", !.user = u, !.mac = code[u].mac, !.guess = guess])
    /\ UNCHANGED <<uscene, user, live, spent, code, mailer, grant, flags, uses>>

\* ... the attempt is counted, in whatever hash there is by now, and the guess compared...
VerifyCounts(h) ==
    LET r == req[h]
        u == r.user
        attempts == code[u].attempts + 1
        compared == attempts <= MaxAttempts
        right == compared /\ r.guess = r.mac
    IN /\ At(h, "count")
       /\ code' = [code EXCEPT ![u].attempts = attempts]
       /\ ulog' = IF compared THEN [ulog EXCEPT !.guesses[r.mac] = @ + 1] ELSE ulog
       /\ Step(h, IF right \/ attempts >= MaxAttempts
                  THEN [r EXCEPT !.pc = "drop", !.op = IF right THEN "ok" ELSE "locked"]
                  ELSE Free)
       /\ UNCHANGED <<uscene, user, live, spent, mailer, grant, flags, uses>>

\* ... and the code deleted: it was right, or there were too many attempts.
VerifyDrops(h) ==
    /\ At(h, "drop")
    /\ code' = [code EXCEPT ![req[h].user] = NoCode]
    /\ Step(h, IF req[h].op = "ok" THEN [Free EXCEPT !.pc = "signin", !.user = req[h].user] ELSE Free)
    /\ UNCHANGED <<uscene, user, live, spent, mailer, grant, flags, uses, ulog>>

----------------------------------------------------------------------------
(* Sign-in and sessions *)

\* google_sign_in, once Google has vouched for the email
GoogleSignIn(h, u) ==
    /\ Call(h, "other")
    /\ Step(h, [Free EXCEPT !.pc = "signin", !.user = u])
    /\ UNCHANGED <<uscene, user, live, spent, code, mailer, grant, flags, uses>>

\* login with the right password: an owner who was disabled is not restored.
Login(h, u) ==
    /\ Called(h, "other") /\ Known(u) /\ user[u].active
    /\ ulog' = More
    /\ Step(h, [Free EXCEPT !.pc = "session", !.user = u, !.sv = user[u].sv])
    /\ UNCHANGED <<uscene, user, live, spent, code, mailer, grant, flags, uses>>

\* register
Register(h, u) ==
    /\ Called(h, "other") /\ ~Known(u) /\ (flags.inviteOnly => u \in Owners)
    /\ ulog' = More
    /\ Step(h, [Free EXCEPT !.pc = "session", !.user = u, !.new = TRUE])
    /\ UNCHANGED <<uscene, user, live, spent, code, mailer, grant, flags, uses>>

\* ensure_always_admin
Restored(u, row) == IF u \in Owners THEN [row EXCEPT !.role = "admin", !.active = TRUE] ELSE row

\* sign_in_verified: a new account while sign-up is open, an owner made an
\* active admin again (committed with the session), a disabled one refused.
SignIn(h) ==
    LET u == req[h].user IN
    /\ At(h, "signin")
    /\ Step(h, IF ~Known(u) /\ flags.inviteOnly /\ u \notin Owners THEN Free
               ELSE IF Known(u) /\ ~user[u].active /\ u \notin Owners THEN Free
               ELSE [req[h] EXCEPT !.pc = "session", !.sv = user[u].sv, !.new = ~Known(u),
                                   !.op = IF Restored(u, user[u]) # user[u] THEN "restore" ELSE "none"])
    /\ UNCHANGED <<uscene, user, live, spent, code, mailer, grant, flags, uses, ulog>>

\* The account that start_session commits with it.  A second row for the same
\* email is refused by the database, and the request ends there.
Signed(r) ==
    LET u == r.user IN
    IF r.new THEN [user EXCEPT ![u] = Restored(u, [role |-> "user", active |-> TRUE, sv |-> 0])]
    ELSE IF r.op = "restore" THEN [user EXCEPT ![u] = Restored(u, @)]
    ELSE user

\* start_session: the refresh token carries version sv
Start(h, sv) ==
    LET r == req[h]
        token == ulog.tokens + 1
    IN /\ At(h, "session")
       /\ IF r.new /\ Known(r.user) THEN UNCHANGED <<live, user, ulog>>
          ELSE /\ token <= MaxTokens
               /\ live' = live \cup {[id |-> token, user |-> r.user, sv |-> sv,
                                      chain |-> IF r.chain = 0 THEN token ELSE r.chain]}
               /\ ulog' = [ulog EXCEPT !.tokens = token]
               /\ user' = Signed(r)
       /\ Ends(h)
       /\ UNCHANGED <<uscene, spent, code, mailer, grant, flags, uses>>

\* Fault: the version is read again as the token is made.
StartSessionFresh(h) == Start(h, user[req[h].user].sv)

\* The version is the one of the row that was loaded.
StartSession(h) == Start(h, req[h].sv)

Token(t) == {x \in live : x.id = t}

\* Fault: the token is deleted only when its successor is on the way.
RotateKeeping(h, t) ==
    /\ Call(h, "refresh")
    /\ \E x \in Token(t) : Step(h, [Free EXCEPT !.pc = "mark", !.user = x.user, !.sv = x.sv, !.chain = x.chain,
                                                !.token = t])
    /\ UNCHANGED <<uscene, user, live, spent, code, mailer, grant, flags, uses>>

\* rotate: the token is read and deleted at once; one that was used before
\* ends every session of its user.
Rotate(h, t) ==
    /\ Call(h, "refresh")
    /\ live' = live \ Token(t)
    /\ \/ \E x \in Token(t) : Step(h, [Free EXCEPT !.pc = "mark", !.user = x.user, !.sv = x.sv, !.chain = x.chain,
                                                   !.token = t])
       \/ \E x \in spent : /\ x.id = t /\ Token(t) = {}
                           /\ Step(h, [Free EXCEPT !.pc = "reused", !.user = x.user])
       \/ Token(t) = {} /\ (\A x \in spent : x.id # t) /\ UNCHANGED req
    /\ UNCHANGED <<uscene, user, spent, code, mailer, grant, flags, uses>>

\* It is noted as used, and its version compared with the user's.
RotateMarks(h) ==
    LET r == req[h] IN
    /\ At(h, "mark")
    /\ spent' = spent \cup {[id |-> r.token, user |-> r.user]}
    /\ Step(h, IF user[r.user].active /\ user[r.user].sv = r.sv
               THEN [Free EXCEPT !.pc = "session", !.user = r.user, !.sv = r.sv, !.chain = r.chain]
               ELSE Free)
    /\ UNCHANGED <<uscene, user, live, code, mailer, grant, flags, uses, ulog>>

Revoking(u) == {h \in Handlers : At(h, "write") /\ req[h].user = u /\ req[h].op \in {"reset", "disable"}}
Raced(log, u) == IF Revoking(u) # {} THEN [log EXCEPT !.raced = @ \cup {u}] ELSE log

\* revoke_all_sessions after a reuse: the version is read...
Reused(h) ==
    LET u == req[h].user IN
    /\ At(h, "reused")
    /\ Step(h, [Free EXCEPT !.pc = "write", !.user = u, !.sv = user[u].sv, !.op = "reset"])
    /\ ulog' = Raced(ulog, u)
    /\ UNCHANGED <<uscene, user, live, spent, code, mailer, grant, flags, uses>>

\* end_session
Logout(h, t) ==
    /\ Call(h, "logout")
    /\ live' = live \ Token(t)
    /\ UNCHANGED <<uscene, user, spent, code, mailer, grant, flags, uses, req>>

\* get_current_user of an owner whose row was edited
Authorize(u) ==
    /\ u \in Owners /\ Known(u)
    /\ user' = [user EXCEPT ![u] = Restored(u, @)]
    /\ user' # user
    /\ UNCHANGED <<uscene, live, spent, code, mailer, grant, flags, uses, req, ulog>>

EditByHand(u) ==
    /\ "edit" \in uscene.calls /\ u \in Owners /\ user[u].active
    /\ user' = [user EXCEPT ![u].active = FALSE]
    /\ ulog' = [ulog EXCEPT !.edited = TRUE]
    /\ UNCHANGED <<uscene, live, spent, code, mailer, grant, flags, uses, req>>

----------------------------------------------------------------------------
(* The console *)

Admins == {u \in Users : user[u].role = "admin" /\ user[u].active}

\* Fault: disabled administrators count.
LastEver(u) == u \in Admins /\ Cardinality({v \in Users : user[v].role = "admin"}) <= 1

\* _guard_last_admin
Last(u) == u \in Admins /\ Cardinality(Admins) <= 1

\* get_manageable: an admin everyone, a manager the users on the team.
Manages(a, role, u) ==
    /\ Known(u)
    /\ role = "admin" \/ (role = "manager" /\ user[u].role = "user" /\ u \in uscene.team[a])

\* What update_user, set_active and reset_sessions refuse.  Disabling a user
\* who is disabled only revokes the sessions, which is a "reset" here.
Allowed(a, role, u, op) ==
    /\ Manages(a, role, u)
    /\ op \in {"promote", "demote"} => role = "admin" /\ a # u /\ u \notin Owners
    /\ op = "promote" => user[u].role = "user"
    /\ op = "demote" => user[u].role = "admin"
    /\ op = "disable" => a # u /\ u \notin Owners /\ user[u].active
    /\ op = "enable" => ~user[u].active
    /\ op \in {"disable", "demote"} => ~Last(u)

\* A console route: get_current_user and require_role answer for the actor...
AdminCalls(h, a, u, op) ==
    /\ Call(h, "admin") /\ user[a].active /\ user[a].role \in {"manager", "admin"} /\ Allowed(a, user[a].role, u, op)
    /\ Step(h, [Free EXCEPT !.pc = "check", !.user = u, !.op = op, !.by = a, !.role = user[a].role])
    /\ UNCHANGED <<uscene, user, live, spent, code, mailer, grant, flags, uses>>

\* ... the target is loaded and the rules checked...
AdminLoads(h) ==
    LET r == req[h]
        u == r.user
        unmakes == {g \in Handlers : At(g, "write") /\ req[g].op \in {"disable", "demote"}}
    IN /\ At(h, "check")
       /\ IF Allowed(r.by, r.role, u, r.op)
          THEN /\ Step(h, [r EXCEPT !.pc = "write", !.sv = user[u].sv])
               /\ ulog' = [(IF r.op \in {"reset", "disable"} THEN Raced(ulog, u) ELSE ulog) EXCEPT
                             !.overlapped = @ \/ (r.op \in {"disable", "demote"} /\ unmakes # {})]
          ELSE Ends(h) /\ UNCHANGED ulog
       /\ UNCHANGED <<uscene, user, live, spent, code, mailer, grant, flags, uses>>

\* The sessions of a user, those that are just being refreshed included.
SessionsOf(u) ==
    ({t.chain : t \in {x \in live : x.user = u}}
        \cup {req[h].chain : h \in {g \in Handlers : req[g].user = u /\ (At(g, "mark") \/ At(g, "session"))}}) \ {0}

\* ... and the change committed, over the version that was loaded.
AdminWrites(h) ==
    LET r == req[h]
        u == r.user
        revokes == r.op \in {"reset", "disable"}
    IN /\ At(h, "write")
       /\ user' = [user EXCEPT
                     ![u].sv = IF revokes THEN r.sv + 1 ELSE @,
                     ![u].active = IF r.op = "disable" THEN FALSE ELSE IF r.op = "enable" THEN TRUE ELSE @,
                     ![u].role = IF r.op = "promote" THEN "admin" ELSE IF r.op = "demote" THEN "user" ELSE @]
       /\ ulog' = IF revokes THEN [ulog EXCEPT !.out = @ \cup SessionsOf(u)] ELSE ulog
       /\ Ends(h)
       /\ UNCHANGED <<uscene, live, spent, code, mailer, grant, flags, uses>>

CreateUser(h, a, u) ==
    /\ Call(h, "admin") /\ user[a].role = "admin" /\ user[a].active /\ ~Known(u)
    /\ user' = [user EXCEPT ![u] = [role |-> "user", active |-> TRUE, sv |-> 0]]
    /\ UNCHANGED <<uscene, live, spent, code, mailer, grant, flags, uses, req>>

\* feature_flags.set_flag
Switched(f) == [flags EXCEPT ![f] = ~@]

\* The console's route.  Switching off auto apply also cancels the runs, see ApplyEngine.
SetFlag(h, f) ==
    /\ Call(h, "grant")
    /\ flags' = Switched(f)
    /\ UNCHANGED <<uscene, user, live, spent, code, mailer, grant, uses, req>>

----------------------------------------------------------------------------
(* Features *)

\* manager_may_grant: no more than the manager holds
MayGrant(a, e) ==
    /\ e.enabled => grant[a].enabled
    /\ e.quota <= grant[a].quota

\* set_override, clear_override
Overridden(u, e) == [grant EXCEPT ![u] = e]

\* set_entitlement, reset_entitlement; an override also ends at its expires_at.
SetEntitlement(h, a, u, e) ==
    /\ Called(h, "grant") /\ user[a].active /\ Manages(a, user[a].role, u)
    /\ user[a].role = "admin" \/ MayGrant(a, e)
    /\ grant' = Overridden(u, e)
    /\ ulog' = More
    /\ UNCHANGED <<uscene, user, live, spent, code, mailer, flags, uses, req>>

OverrideExpires(u) ==
    /\ grant[u].override
    /\ grant' = [grant EXCEPT ![u] = Default]
    /\ UNCHANGED <<uscene, user, live, spent, code, mailer, flags, uses, req, ulog>>

\* check_feature: the switch and the entitlement are read...
UseReads(h, u) ==
    /\ Call(h, "feature")
    /\ IF flags.featureOn /\ grant[u].enabled
       THEN Step(h, [Free EXCEPT !.pc = "use", !.user = u])
       ELSE UNCHANGED req
    /\ UNCHANGED <<uscene, user, live, spent, code, mailer, grant, flags, uses>>

\* ... and the use counted, whether it is allowed or not.
UseCounts(h) ==
    LET u == req[h].user IN
    /\ At(h, "use")
    /\ uses' = [uses EXCEPT ![u] = @ + 1]
    /\ Ends(h)
    /\ UNCHANGED <<uscene, user, live, spent, code, mailer, grant, flags, ulog>>

----------------------------------------------------------------------------

Thread(h) ==
    \/ VerifyCounts(h) \/ VerifyDrops(h) \/ SignIn(h) \/ StartSession(h) \/ RotateMarks(h)
    \/ Reused(h) \/ AdminLoads(h) \/ AdminWrites(h) \/ UseCounts(h)

Asked(h) ==
    \/ \E u \in uscene.who :
         \/ RequestCode(h, u) \/ GoogleSignIn(h, u) \/ Login(h, u) \/ Register(h, u) \/ UseReads(h, u)
         \/ \E guess \in {0, code[u].mac} : VerifyReads(h, u, guess)
         \/ \E a \in Users : \/ CreateUser(h, a, u)
                             \/ \E op \in {"disable", "enable", "reset", "promote", "demote"} : AdminCalls(h, a, u, op)
                             \/ \E e \in {Default} \cup [enabled : {TRUE}, quota : {1, DefaultUses + 1}, override : {TRUE}]
                                        \cup [enabled : {FALSE}, quota : {0}, override : {TRUE}] : SetEntitlement(h, a, u, e)
    \/ \E t \in 1..ulog.tokens : Rotate(h, t) \/ Logout(h, t)
    \/ \E f \in DOMAIN flags : SetFlag(h, f)

Next ==
    \/ \E h \in Handlers : Thread(h) \/ Asked(h)
    \/ \E u \in Users : CooldownEnds(u) \/ CodeExpires(u) \/ Authorize(u) \/ EditByHand(u) \/ OverrideExpires(u)

Spec == Init /\ [][Next]_uvars

----------------------------------------------------------------------------
(* Properties *)

\* Rows, tokens and threads are well formed; a live token was never used, and
\* a thread works for a user that is known or about to be.
TypeOK ==
    /\ \A u \in Users : user[u].role \in Roles /\ user[u].sv \in 0..MaxCalls /\ mailer[u].count \in 0..MaxCalls
    /\ \A t \in live : t.chain <= t.id /\ t.id <= ulog.tokens /\ \A x \in spent : x.id # t.id
    /\ \A h \in Handlers : req[h].pc \in {"idle", "count", "drop", "signin", "session", "mark", "reused", "check", "write", "use"}

\* sessions.py:11-16: every refresh consumes the token and issues one: of a
\* session there is one token, live or in the hands of the thread that rotates it.
OneTokenPerSession ==
    \A t \in live :
        /\ \A x \in live : x.chain = t.chain => x = t
        /\ \A h \in Handlers : At(h, "mark") \/ At(h, "session") => req[h].chain # t.chain

\* sessions.py:18-20: a session that was live when all sessions of its user
\* were revoked can not be refreshed any more, whatever refresh was under way
\* -- unless two revocations of the user overlapped, which lose an increment.
RevokedStayOut ==
    \A t \in live : t.chain \in ulog.out /\ t.user \notin ulog.raced => t.sv # user[t.user].sv

\* otp.py:8: so many guesses are compared with a code, and one more for each
\* thread that had read it before it was invalidated.
GuessesBounded ==
    \A c \in DOMAIN ulog.guesses : ulog.guesses[c] <= MaxAttempts + Cardinality(Handlers) - 1

\* Who has signed in, and only they, goes on: a code is not guessed, a session
\* has one token, and one that was revoked has none (otp.py, sessions.py).
SignInHolds == GuessesBounded /\ OneTokenPerSession /\ RevokedStayOut

\* user_admin.py:8-9: the console can not lock itself out, whoever disables,
\* demotes and enables whom -- as long as two such edits do not overlap, and
\* no row is edited by hand.
SomeAdmin ==
    (\E u \in Users : uscene.role[u] = "admin") => Admins # {} \/ ulog.overlapped \/ ulog.edited
=============================================================================
