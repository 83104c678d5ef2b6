--------------------------- MODULE AccountsProofs ---------------------------
(***************************************************************************)
(* Theorems about Accounts, for any users, owners, threads and limits:      *)
(* what a sign-in gives (SignInHolds), that an administrator remains        *)
(* (SomeAdmin), and the types (TypeOK).                                     *)
(*                                                                          *)
(* The invariant has four parts.  RowsTyped: the rows and threads.          *)
(* Guessed: a code that can still be read was compared no more often than   *)
(* attempts were counted, and of one that is gone only the threads that had *)
(* read it can compare it once more.  Sessions: a session has one bearer, a *)
(* live token or the thread that rotates it, and what it carries is of an   *)
(* older version than a revocation made.  AdminKept: the thread that is to  *)
(* unmake an administrator leaves another one.                              *)
(***************************************************************************)
EXTENDS Accounts, FiniteSetTheorems, TLAPS

----------------------------------------------------------------------------
(* The inductive invariant *)

Pcs == {"idle", "count", "drop", "signin", "session", "mark", "reused", "check", "write", "use"}
Ops == {"none", "ok", "locked", "restore", "disable", "enable", "reset", "promote", "demote"}
Someone == Users \cup {"nobody"}
ReqRow == [pc : Pcs, user : Someone, sv : Nat, token : Nat, chain : Nat, mac : Nat, guess : Nat,
           new : BOOLEAN, op : Ops, by : Someone, role : Roles]
UserRow == [role : Roles, active : BOOLEAN, sv : Nat]
TokenRow == [id : Nat, user : Users, sv : Nat, chain : Nat]
CodeRow == [mac : Nat, attempts : Nat]
AccountLog == [calls : Nat, tokens : Nat, codes : Nat, guesses : [0..MaxCalls -> Nat],
        out : SUBSET Nat, raced : SUBSET Users, overlapped : BOOLEAN, edited : BOOLEAN]

RowsTyped ==
    /\ uscene \in AccountScenes
    /\ user \in [Users -> UserRow]
    /\ live \subseteq TokenRow /\ spent \subseteq [id : Nat, user : Users]
    /\ code \in [Users -> CodeRow]
    /\ req \in [Handlers -> ReqRow]
    /\ \A h \in Handlers : req[h].pc # "idle" => req[h].user \in Users
    /\ ulog \in AccountLog
    /\ ulog.calls <= uscene.max /\ ulog.codes <= ulog.calls

(* Codes *)

Holds(r, c) == r.pc = "count" /\ r.mac = c
Holding(c) == {h \in Handlers : Holds(req[h], c)}
Current(c) == \E u \in Users : code[u].mac = c

\* The code a thread is to compare was the code of its user.
OwnCode(r) ==
    r.pc = "count" => /\ r.mac \in 1..ulog.codes
                      /\ \A u \in Users : code[u].mac = r.mac => u = r.user

\* A code that is there: the thread that counted the last attempt is to drop it.
CodesCounted(u) ==
    code[u].mac # 0 => /\ code[u].mac \in 1..ulog.codes
                       /\ \A v \in Users : code[v].mac = code[u].mac => u = v
                       /\ ulog.guesses[code[u].mac] <= code[u].attempts
                       /\ code[u].attempts >= MaxAttempts /\ code[u].attempts > 0 =>
                              \E h \in Handlers : req[h].pc = "drop" /\ req[h].user = u

GuessBound == MaxAttempts + Cardinality(Handlers) - 1

Compared(c) ==
    /\ c \notin 1..ulog.codes \/ MaxAttempts = 0 => ulog.guesses[c] = 0
    /\ c \in 1..ulog.codes /\ Current(c) => ulog.guesses[c] <= MaxAttempts
    /\ c \in 1..ulog.codes /\ ~Current(c) /\ MaxAttempts > 0 =>
           ulog.guesses[c] + Cardinality(Holding(c)) <= GuessBound

Guessed ==
    /\ \A h \in Handlers : OwnCode(req[h])
    /\ \A u \in Users : CodesCounted(u)
    /\ \A c \in 0..MaxCalls : Compared(c)

(* Sessions *)

Carries(r) == r.pc \in {"mark", "session"}
Revokes(r) == r.pc = "write" /\ r.op \in {"reset", "disable"}

\* What a token or a thread carries for user u: of no later version than the
\* user's, and of an older one once the session was to end.
Older(u, sv, chain) ==
    u \notin ulog.raced => sv <= user[u].sv /\ (chain \in ulog.out => sv # user[u].sv)

TokenFits(t) == /\ t.id \in 1..ulog.tokens /\ t.chain \in 1..ulog.tokens
                /\ Known(t.user) /\ Older(t.user, t.sv, t.chain)

ThreadFits(r) ==
    /\ Carries(r) => r.chain \in 0..ulog.tokens /\ Older(r.user, r.sv, r.chain)
    /\ r.pc = "signin" => r.chain = 0
    /\ r.pc = "mark" => r.chain # 0 /\ Known(r.user)
    /\ r.pc = "session" => IF r.new THEN r.chain = 0 /\ r.sv = 0 ELSE Known(r.user)
    /\ r.pc \in {"reused", "write"} => Known(r.user)
    /\ Revokes(r) /\ r.user \notin ulog.raced => r.sv = user[r.user].sv

Sessions ==
    /\ \A u \in Users : ~Known(u) => user[u].sv = 0
    /\ ulog.out \subseteq 1..ulog.tokens
    /\ \A t \in live : TokenFits(t)
    /\ \A x \in spent : Known(x.user)
    /\ \A h \in Handlers : ThreadFits(req[h])
    /\ \A t, x \in live : t.id = x.id \/ t.chain = x.chain => t = x
    /\ \A t \in live, h \in Handlers : Carries(req[h]) => req[h].chain # t.chain
    /\ \A g, h \in Handlers : g # h =>
          /\ Carries(req[g]) /\ Carries(req[h]) => req[g].chain # req[h].chain \/ req[h].chain = 0
          /\ Revokes(req[g]) /\ Revokes(req[h]) /\ req[g].user = req[h].user => req[h].user \in ulog.raced

(* Administrators *)

Unmakes(r) == r.pc = "write" /\ r.op \in {"disable", "demote"}
Leaves(r) == Unmakes(r) => \E v \in Admins : v # r.user
Remain ==
    /\ Admins # {}
    /\ \A h \in Handlers : Leaves(req[h])
    /\ \A g, h \in Handlers : Unmakes(req[g]) /\ Unmakes(req[h]) => g = h
AdminKept == (\E u \in Users : uscene.role[u] = "admin") => Remain \/ ulog.overlapped \/ ulog.edited

AccInv == RowsTyped /\ Guessed /\ Sessions /\ AdminKept

----------------------------------------------------------------------------
(* What a step of one thread leaves alone *)

LEMMA ThreadRow ==
    ASSUME RowsTyped, NEW h \in Handlers
    PROVE  req[h] \in ReqRow /\ (req[h].pc # "idle" => req[h].user \in Users)
  BY DEF RowsTyped

LEMMA ThreadMoves ==
    ASSUME RowsTyped, NEW h \in Handlers, NEW r \in ReqRow, r.pc # "idle" => r.user \in Users,
           req' = [req EXCEPT ![h] = r]
    PROVE  /\ req' \in [Handlers -> ReqRow]
           /\ \A g \in Handlers : req'[g].pc # "idle" => req'[g].user \in Users
           /\ req'[h] = r /\ \A g \in Handlers : g # h => req'[g] = req[g]
  BY DEF RowsTyped

LEMMA CallIsCounted ==
    ASSUME RowsTyped, ulog.calls < uscene.max
    PROVE  /\ More \in AccountLog /\ More.calls <= uscene.max /\ More.codes <= More.calls
           /\ More.codes + 1 <= More.calls /\ More.calls \in 0..MaxCalls
           /\ More.tokens = ulog.tokens /\ More.codes = ulog.codes /\ More.guesses = ulog.guesses
           /\ More.out = ulog.out /\ More.raced = ulog.raced
           /\ (More.overlapped <=> ulog.overlapped) /\ (More.edited <=> ulog.edited)
<1>1. uscene.max \in 0..MaxCalls /\ MaxCalls \in Nat
  BY AccountConstants DEF RowsTyped, AccountScene
<1>2. ulog \in AccountLog /\ ulog.calls \in Nat /\ ulog.codes \in Nat /\ ulog.codes <= ulog.calls
  BY DEF RowsTyped, AccountLog
<1>3. ulog.calls + 1 \in Nat
  BY <1>2
<1>4. More.calls = ulog.calls + 1 /\ More \in AccountLog
      /\ More.tokens = ulog.tokens /\ More.codes = ulog.codes /\ More.guesses = ulog.guesses
      /\ More.out = ulog.out /\ More.raced = ulog.raced
      /\ More.overlapped = ulog.overlapped /\ More.edited = ulog.edited
  BY <1>2, <1>3 DEF More, AccountLog
<1> QED
  BY <1>1, <1>2, <1>4

\* Codes: a thread that has no code in hand moves.
LEMMA GuessedMoves ==
    ASSUME RowsTyped, Guessed, NEW h \in Handlers, NEW r \in ReqRow, r.pc # "idle" => r.user \in Users,
           req' = [req EXCEPT ![h] = r], UNCHANGED code,
           ulog'.codes = ulog.codes, ulog'.guesses = ulog.guesses,
           req[h].pc \notin {"count", "drop"}, r.pc \notin {"count", "drop"}
    PROVE  Guessed'
<1>1. req'[h] = r /\ \A g \in Handlers : g # h => req'[g] = req[g]
  BY ThreadMoves
<1>2. ASSUME NEW g \in Handlers PROVE OwnCode(req[g])'
  <2>1. OwnCode(req[g])
    BY DEF Guessed
  <2> QED
    BY <1>1, <2>1 DEF OwnCode
<1>3. ASSUME NEW u \in Users PROVE CodesCounted(u)'
  <2>1. CodesCounted(u)
    BY DEF Guessed
  <2>2. ASSUME NEW g \in Handlers, req[g].pc = "drop" /\ req[g].user = u
        PROVE  req'[g].pc = "drop" /\ req'[g].user = u
    BY <1>1, <2>2
  <2> QED
    BY <2>1, <2>2 DEF CodesCounted
<1>4. ASSUME NEW c \in 0..MaxCalls PROVE Compared(c)'
  <2>1. Compared(c) /\ (Current(c)' <=> Current(c))
    BY DEF Guessed, Current
  <2>2. Holding(c)' = Holding(c)
    BY <1>1 DEF Holding, Holds
  <2> QED
    BY <2>1, <2>2 DEF Compared, GuessBound
<1> QED
  BY <1>2, <1>3, <1>4 DEF Guessed

LEMMA GuessedSame ==
    ASSUME Guessed, UNCHANGED <<code, req>>, ulog'.codes = ulog.codes, ulog'.guesses = ulog.guesses
    PROVE  Guessed'
<1>1. ASSUME NEW g \in Handlers PROVE OwnCode(req[g])'
  BY DEF Guessed, OwnCode
<1>2. ASSUME NEW u \in Users PROVE CodesCounted(u)'
  BY DEF Guessed, CodesCounted
<1>3. ASSUME NEW c \in 0..MaxCalls PROVE Compared(c)'
  <2>1. Compared(c) /\ (Current(c)' <=> Current(c)) /\ Holding(c)' = Holding(c)
    BY DEF Guessed, Current, Holding, Holds
  <2> QED
    BY <2>1 DEF Compared, GuessBound
<1> QED
  BY <1>1, <1>2, <1>3 DEF Guessed

\* Sessions: a step that makes no token and ends none by a revocation.
VersionsStay ==
    /\ \A u \in Users : user'[u].sv = user[u].sv /\ (Known(u) => Known(u)')
    /\ ulog'.out = ulog.out /\ ulog.raced \subseteq ulog'.raced
    /\ ulog.tokens \in Nat /\ ulog'.tokens \in Nat /\ ulog.tokens <= ulog'.tokens

LEMMA RowStillFits ==
    ASSUME RowsTyped, VersionsStay, NEW r \in ReqRow, r.pc # "idle" => r.user \in Users, ThreadFits(r),
           NEW g \in Handlers, req'[g] = r
    PROVE  ThreadFits(req[g])'
<1>1. CASE r.pc = "idle"
  BY <1>1 DEF ThreadFits, Carries, Revokes
<1>2. CASE r.pc # "idle"
  BY <1>2 DEF ThreadFits, Carries, Revokes, Older, VersionsStay
<1> QED
  BY <1>1, <1>2

LEMMA TokenStillFits ==
    ASSUME RowsTyped, VersionsStay, NEW t \in TokenRow, TokenFits(t)
    PROVE  TokenFits(t)'
<1>1. t.user \in Users
  BY DEF TokenRow
<1> QED
  BY <1>1 DEF TokenFits, Older, VersionsStay

LEMMA TokensStillFit ==
    ASSUME RowsTyped, Sessions, VersionsStay, live' \subseteq live, \A x \in spent' : Known(x.user),
           spent' \subseteq [id : Nat, user : Users], user' \in [Users -> UserRow]
    PROVE  /\ \A u \in Users : ~Known(u)' => user'[u].sv = 0
           /\ ulog'.out \subseteq 1..ulog'.tokens
           /\ (\A t \in live : TokenFits(t))'
           /\ (\A x \in spent : Known(x.user))'
           /\ \A t, x \in live' : t.id = x.id \/ t.chain = x.chain => t = x
<1>1. ASSUME NEW t \in live' PROVE TokenFits(t)'
  <2>1. t \in live /\ t \in TokenRow /\ TokenFits(t)
    BY DEF Sessions, RowsTyped
  <2> QED
    BY <2>1, TokenStillFits
<1>2. \A x \in spent' : x.user \in Users /\ Known(x.user)'
  BY DEF VersionsStay
<1> QED
  BY <1>1, <1>2 DEF Sessions, VersionsStay

LEMMA SessionsMove ==
    ASSUME RowsTyped, Sessions, NEW h \in Handlers, NEW r \in ReqRow, r.pc # "idle" => r.user \in Users,
           req' = [req EXCEPT ![h] = r], VersionsStay, live' \subseteq live,
           \A x \in spent' : Known(x.user), spent' \subseteq [id : Nat, user : Users],
           user' \in [Users -> UserRow], ThreadFits(r),
           Carries(r) => \A t \in live' : r.chain # t.chain,
           Carries(r) => \A g \in Handlers \ {h} : Carries(req[g]) => r.chain # req[g].chain \/ r.chain = 0,
           Revokes(r) => \A g \in Handlers \ {h} :
                            Revokes(req[g]) /\ req[g].user = r.user => r.user \in ulog'.raced
    PROVE  Sessions'
<1>1. req'[h] = r /\ \A g \in Handlers : g # h => req'[g] = req[g]
  BY ThreadMoves
<1>2. ASSUME NEW g \in Handlers PROVE ThreadFits(req[g])'
  <2>1. CASE g = h
    BY <1>1, <2>1, RowStillFits
  <2>2. CASE g # h
    <3>1. ThreadFits(req[g]) /\ req[g] \in ReqRow /\ (req[g].pc # "idle" => req[g].user \in Users)
      BY ThreadRow DEF Sessions
    <3> QED
      BY <1>1, <2>2, <3>1, RowStillFits
  <2> QED
    BY <2>1, <2>2
<1>3. ASSUME NEW t \in live', NEW g \in Handlers, Carries(req'[g])
      PROVE  req'[g].chain # t.chain
  <2>1. CASE g = h
    BY <1>1, <1>3, <2>1
  <2>2. CASE g # h
    BY <1>1, <1>3, <2>2 DEF Sessions
  <2> QED
    BY <2>1, <2>2
<1>4. ASSUME NEW f \in Handlers, NEW g \in Handlers, f # g
      PROVE  /\ Carries(req'[f]) /\ Carries(req'[g]) => req'[f].chain # req'[g].chain \/ req'[g].chain = 0
             /\ Revokes(req'[f]) /\ Revokes(req'[g]) /\ req'[f].user = req'[g].user => req'[g].user \in ulog'.raced
  <2>1. CASE f # h /\ g # h
    BY <1>1, <1>4, <2>1 DEF Sessions, VersionsStay
  <2>2. CASE f = h
    BY <1>1, <1>4, <2>2
  <2>3. CASE g = h
    BY <1>1, <1>4, <2>3
  <2> QED
    BY <2>1, <2>2, <2>3
<1>5. \A t \in live', g \in Handlers : Carries(req[g])' => req'[g].chain # t.chain
  BY <1>3 DEF Carries
<1>6. \A f, g \in Handlers : f # g =>
        /\ Carries(req[f])' /\ Carries(req[g])' => req'[f].chain # req'[g].chain \/ req'[g].chain = 0
        /\ Revokes(req[f])' /\ Revokes(req[g])' /\ req'[f].user = req'[g].user => req'[g].user \in ulog'.raced
  BY <1>4 DEF Carries, Revokes
<1> QED
  BY <1>2, <1>5, <1>6, TokensStillFit DEF Sessions

LEMMA SessionsSame ==
    ASSUME RowsTyped, Sessions, UNCHANGED <<req, spent>>, VersionsStay, live' \subseteq live,
           user' \in [Users -> UserRow]
    PROVE  Sessions'
<1>1. ASSUME NEW g \in Handlers PROVE ThreadFits(req[g])'
  <2>1. ThreadFits(req[g]) /\ req[g] \in ReqRow /\ (req[g].pc # "idle" => req[g].user \in Users)
    BY ThreadRow DEF Sessions
  <2> QED
    BY <2>1, RowStillFits
<1>2. \A x \in spent' : Known(x.user)
  BY DEF Sessions
<1>3. spent' \subseteq [id : Nat, user : Users]
  BY DEF RowsTyped
<1> QED
  BY <1>1, <1>2, <1>3, TokensStillFit DEF Sessions, VersionsStay, Carries, Revokes

\* Administrators: a step that unmakes none.
LEMMA KeptMoves ==
    ASSUME RowsTyped, AdminKept, NEW h \in Handlers, NEW r \in ReqRow, r.pc # "idle" => r.user \in Users,
           req' = [req EXCEPT ![h] = r], UNCHANGED uscene,
           Admins \subseteq Admins' \/ ulog'.edited,
           ulog.overlapped => ulog'.overlapped, ulog.edited => ulog'.edited,
           Unmakes(r) /\ Remain => \E v \in Admins : v # r.user,
           Unmakes(r) => (\A g \in Handlers \ {h} : ~Unmakes(req[g])) \/ ulog'.overlapped
    PROVE  AdminKept'
<1>1. req'[h] = r /\ \A g \in Handlers : g # h => req'[g] = req[g]
  BY ThreadMoves
<1> SUFFICES ASSUME Remain, Admins \subseteq Admins', ~ulog'.overlapped PROVE Remain'
  BY DEF AdminKept
<1>2. Admins' # {}
  BY DEF Remain
<1>3. ASSUME NEW g \in Handlers PROVE Leaves(req[g])'
  <2>1. CASE g = h
    BY <1>1, <2>1 DEF Leaves, Unmakes
  <2>2. CASE g # h
    BY <1>1, <2>2 DEF Remain, Leaves, Unmakes
  <2> QED
    BY <2>1, <2>2
<1>4. \A f, g \in Handlers : Unmakes(req[f])' /\ Unmakes(req[g])' => f = g
  BY <1>1 DEF Remain, Unmakes
<1> QED
  BY <1>2, <1>3, <1>4 DEF Remain

LEMMA KeptSame ==
    ASSUME AdminKept, UNCHANGED <<uscene, req>>, Admins \subseteq Admins' \/ ulog'.edited,
           ulog.overlapped => ulog'.overlapped, ulog.edited => ulog'.edited
    PROVE  AdminKept'
  BY DEF AdminKept, Remain, Leaves, Unmakes

\* A step of a thread that has no code in hand and writes no row of a user.
LEMMA QuietThread ==
    ASSUME AccInv, NEW h \in Handlers, NEW r \in ReqRow, r.pc # "idle" => r.user \in Users,
           req' = [req EXCEPT ![h] = r], UNCHANGED <<uscene, user, code>>, live' \subseteq live,
           spent' \subseteq [id : Nat, user : Users], \A x \in spent' : Known(x.user),
           UNCHANGED ulog \/ (ulog' = More /\ ulog.calls < uscene.max),
           req[h].pc \notin {"count", "drop"}, r.pc \notin {"count", "drop", "write"}, ThreadFits(r),
           Carries(r) => \A t \in live' : r.chain # t.chain,
           Carries(r) => \A g \in Handlers \ {h} : Carries(req[g]) => r.chain # req[g].chain \/ r.chain = 0
    PROVE  AccInv'
<1>1. /\ ulog' \in AccountLog /\ ulog'.calls <= uscene.max /\ ulog'.codes <= ulog'.calls
      /\ ulog'.tokens = ulog.tokens /\ ulog'.codes = ulog.codes /\ ulog'.guesses = ulog.guesses
      /\ ulog'.out = ulog.out /\ ulog'.raced = ulog.raced
      /\ (ulog'.overlapped <=> ulog.overlapped) /\ (ulog'.edited <=> ulog.edited)
  BY CallIsCounted DEF AccInv, RowsTyped
<1>2. RowsTyped'
  BY <1>1, ThreadMoves DEF AccInv, RowsTyped
<1>3. Guessed'
  BY <1>1, GuessedMoves DEF AccInv
<1>4. VersionsStay /\ user' \in [Users -> UserRow]
  BY <1>1 DEF VersionsStay, AccInv, RowsTyped, AccountLog, Known
<1>5. Sessions'
  BY <1>4, SessionsMove DEF AccInv, Revokes
<1>6. AdminKept'
  BY <1>1, KeptMoves DEF AccInv, Unmakes, Admins
<1> QED
  BY <1>2, <1>3, <1>5, <1>6 DEF AccInv

\* A step in which no thread moves, and rows of users at most begin.
LEMMA QuietStep ==
    ASSUME AccInv, UNCHANGED <<uscene, req, code, spent>>, live' \subseteq live,
           user' \in [Users -> UserRow],
           \A u \in Users : user'[u].sv = user[u].sv /\ (Known(u) => Known(u)'),
           Admins \subseteq Admins' \/ ulog'.edited,
           \/ UNCHANGED ulog
           \/ ulog' = More /\ ulog.calls < uscene.max
           \/ ulog' = [ulog EXCEPT !.edited = TRUE]
    PROVE  AccInv'
<1>1. /\ ulog' \in AccountLog /\ ulog'.calls <= uscene.max /\ ulog'.codes <= ulog'.calls
      /\ ulog'.tokens = ulog.tokens /\ ulog'.codes = ulog.codes /\ ulog'.guesses = ulog.guesses
      /\ ulog'.out = ulog.out /\ ulog'.raced = ulog.raced
      /\ (ulog.overlapped => ulog'.overlapped) /\ (ulog.edited => ulog'.edited)
  <2>1. CASE UNCHANGED ulog
    BY <2>1 DEF AccInv, RowsTyped
  <2>2. CASE ulog' = More /\ ulog.calls < uscene.max
    BY <2>2, CallIsCounted DEF AccInv, RowsTyped
  <2>3. CASE ulog' = [ulog EXCEPT !.edited = TRUE]
    BY <2>3 DEF AccInv, RowsTyped, AccountLog
  <2> QED
    BY <2>1, <2>2, <2>3
<1>2. RowsTyped'
  BY <1>1 DEF AccInv, RowsTyped
<1>3. Guessed'
  BY <1>1, GuessedSame DEF AccInv
<1>4. VersionsStay
  BY <1>1 DEF VersionsStay, AccInv, RowsTyped, AccountLog
<1>5. Sessions'
  BY <1>4, SessionsSame DEF AccInv
<1>6. AdminKept'
  BY <1>1, KeptSame DEF AccInv
<1> QED
  BY <1>2, <1>3, <1>5, <1>6 DEF AccInv

----------------------------------------------------------------------------
(* Sign-in, sessions and the other calls, step by step *)

LEMMA FreeRow ==
    /\ Free \in ReqRow /\ Free.pc = "idle" /\ Free.chain = 0 /\ Free.sv = 0 /\ Free.op = "none"
    /\ ~Free.new /\ ThreadFits(Free)
  BY DEF Free, ReqRow, Pcs, Ops, Someone, Roles, ThreadFits, Carries, Revokes

\* The session that a sign-in begins has no chain yet.
LEMMA NoChain ==
    ASSUME AccInv
    PROVE  /\ 0 \notin ulog.out /\ \A t \in live : t.chain # 0
           /\ ulog.tokens \in Nat
  BY DEF AccInv, RowsTyped, AccountLog, Sessions, TokenFits

\* Of the rows: those that are there, and the versions.
LEMMA RowOfUser ==
    ASSUME AccInv, NEW u \in Users
    PROVE  user[u] \in UserRow /\ user[u].sv \in Nat /\ (~Known(u) => user[u].sv = 0)
  BY DEF AccInv, RowsTyped, UserRow, Sessions

LEMMA Stays ==
    ASSUME AccInv
    PROVE  /\ live \subseteq live /\ spent \subseteq [id : Nat, user : Users] /\ \A x \in spent : Known(x.user)
           /\ uscene.who \subseteq Users
  BY AccountConstants DEF AccInv, RowsTyped, Sessions, AccountScene

\* A thread begins to work on a call, is handed on to a new session, or ends.
LEMMA ThreadGoesOn ==
    ASSUME AccInv, NEW h \in Handlers, NEW r \in ReqRow, r.pc # "idle" => r.user \in Users,
           req' = [req EXCEPT ![h] = r], UNCHANGED <<uscene, user, code, live, spent>>,
           UNCHANGED ulog \/ (ulog' = More /\ ulog.calls < uscene.max),
           req[h].pc \notin {"count", "drop"}, r.pc \notin {"count", "drop", "write"},
           ThreadFits(r), r.chain = 0
    PROVE  AccInv'
  BY Stays, NoChain, QuietThread

LEMMA GoogleHolds ==
    ASSUME AccInv, NEW h \in Handlers, NEW u \in Users, GoogleSignIn(h, u)
    PROVE  AccInv'
<1> DEFINE r == [Free EXCEPT !.pc = "signin", !.user = u]
<1>1. r \in ReqRow /\ r.pc = "signin" /\ r.user = u /\ r.chain = 0
  BY FreeRow DEF ReqRow, Pcs, Someone
<1>2. /\ req' = [req EXCEPT ![h] = r] /\ ulog' = More /\ ulog.calls < uscene.max /\ req[h].pc = "idle"
      /\ UNCHANGED <<uscene, user, code, live, spent>>
  BY DEF GoogleSignIn, Call, Called, Step, At
<1>3. ThreadFits(r)
  BY <1>1 DEF ThreadFits, Carries, Revokes
<1> HIDE DEF r
<1> QED
  BY <1>1, <1>2, <1>3, ThreadGoesOn

LEMMA LoginHolds ==
    ASSUME AccInv, NEW h \in Handlers, NEW u \in Users, Login(h, u)
    PROVE  AccInv'
<1> DEFINE sv == user[u].sv
           r == [Free EXCEPT !.pc = "session", !.user = u, !.sv = sv]
<1>1. sv \in Nat
  BY RowOfUser
<1>2. r \in ReqRow /\ r.pc = "session" /\ r.user = u /\ r.chain = 0 /\ r.sv = sv /\ ~r.new
  <2> HIDE DEF sv
  <2> QED
    BY <1>1, FreeRow DEF ReqRow, Pcs, Someone
<1>3. /\ req' = [req EXCEPT ![h] = r] /\ ulog' = More /\ ulog.calls < uscene.max /\ req[h].pc = "idle"
      /\ Known(u) /\ UNCHANGED <<uscene, user, code, live, spent>>
  BY DEF Login, Called, Step, At
<1>4. ThreadFits(r)
  BY <1>1, <1>2, <1>3, NoChain DEF ThreadFits, Carries, Revokes, Older
<1> HIDE DEF r
<1> QED
  BY <1>2, <1>3, <1>4, ThreadGoesOn

LEMMA RegisterHolds ==
    ASSUME AccInv, NEW h \in Handlers, NEW u \in Users, Register(h, u)
    PROVE  AccInv'
<1> DEFINE r == [Free EXCEPT !.pc = "session", !.user = u, !.new = TRUE]
<1>1. r \in ReqRow /\ r.pc = "session" /\ r.user = u /\ r.chain = 0 /\ r.sv = 0 /\ r.new
  BY FreeRow DEF ReqRow, Pcs, Someone
<1>2. /\ req' = [req EXCEPT ![h] = r] /\ ulog' = More /\ ulog.calls < uscene.max /\ req[h].pc = "idle"
      /\ UNCHANGED <<uscene, user, code, live, spent>>
  BY DEF Register, Called, Step, At
<1>3. ThreadFits(r)
  BY <1>1, RowOfUser, NoChain DEF ThreadFits, Carries, Revokes, Older
<1> HIDE DEF r
<1> QED
  BY <1>1, <1>2, <1>3, ThreadGoesOn

\* A thread that is done.
LEMMA ThreadEnds ==
    ASSUME AccInv, NEW h \in Handlers, Ends(h), UNCHANGED <<uscene, user, code, live, spent, ulog>>,
           req[h].pc \notin {"count", "drop"}
    PROVE  AccInv'
<1>1. req' = [req EXCEPT ![h] = Free]
  BY DEF Ends, Step
<1> QED
  BY <1>1, FreeRow, ThreadGoesOn

LEMMA SignInStepHolds ==
    ASSUME AccInv, NEW h \in Handlers, SignIn(h)
    PROVE  AccInv'
<1> DEFINE u == req[h].user
           sv == user[u].sv
           new == ~Known(u)
           op == IF Restored(u, user[u]) # user[u] THEN "restore" ELSE "none"
           r == [req[h] EXCEPT !.pc = "session", !.sv = sv, !.new = new, !.op = op]
<1>1. /\ req[h].pc = "signin" /\ UNCHANGED <<uscene, user, code, live, spent, ulog>>
      /\ Ends(h) \/ req' = [req EXCEPT ![h] = r]
  BY DEF SignIn, At, Step, Ends
<1>2. req[h] \in ReqRow /\ u \in Users /\ req[h].chain = 0
  BY <1>1, ThreadRow DEF AccInv, Sessions, ThreadFits
<1>3. sv \in Nat /\ new \in BOOLEAN /\ op \in Ops /\ (new => sv = 0) /\ (new <=> ~Known(u))
  BY <1>2, RowOfUser DEF Ops
<1>4. r \in ReqRow /\ r.pc = "session" /\ r.user = u /\ r.chain = 0 /\ r.sv = sv /\ r.new = new
  <2> HIDE DEF sv, new, op
  <2> QED
    BY <1>2, <1>3 DEF ReqRow, Pcs
<1>5. ThreadFits(r)
  <2> HIDE DEF r, new
  <2> QED
    BY <1>2, <1>3, <1>4, NoChain DEF ThreadFits, Carries, Revokes, Older
<1> HIDE DEF r
<1> QED
  BY <1>1, <1>2, <1>4, <1>5, ThreadEnds, ThreadGoesOn

\* The token is in one hand: the thread takes the chain and the token is gone.
LEMMA RotateHolds ==
    ASSUME AccInv, NEW h \in Handlers, NEW t, Rotate(h, t)
    PROVE  AccInv'
<1>1. /\ req[h].pc = "idle" /\ ulog' = More /\ ulog.calls < uscene.max /\ live' = live \ Token(t)
      /\ UNCHANGED <<uscene, user, spent, code>>
  BY DEF Rotate, Call, Called, At
<1>2. ASSUME NEW x \in Token(t),
             req' = [req EXCEPT ![h] = [Free EXCEPT !.pc = "mark", !.user = x.user, !.sv = x.sv, !.chain = x.chain,
                                                    !.token = t]]
      PROVE  AccInv'
  <2> DEFINE r == [Free EXCEPT !.pc = "mark", !.user = x.user, !.sv = x.sv, !.chain = x.chain, !.token = t]
  <2>1. /\ x \in live /\ x.id = t /\ x.user \in Users /\ x.sv \in Nat /\ x.chain \in Nat /\ t \in Nat
        /\ TokenFits(x)
    BY DEF Token, AccInv, RowsTyped, TokenRow, Sessions
  <2>2. r \in ReqRow /\ r.pc = "mark" /\ r.user = x.user /\ r.chain = x.chain /\ r.sv = x.sv
    BY <2>1, FreeRow DEF ReqRow, Pcs, Someone
  <2>3. ThreadFits(r)
    BY <2>1, <2>2 DEF ThreadFits, TokenFits, Carries, Revokes
  <2>4. \A y \in live' : r.chain # y.chain
    BY <1>1, <2>1, <2>2 DEF AccInv, Sessions, Token
  <2>5. \A g \in Handlers \ {h} : Carries(req[g]) => r.chain # req[g].chain
    BY <2>1, <2>2 DEF AccInv, Sessions
  <2> HIDE DEF r
  <2> QED
    BY <1>1, <1>2, <2>1, <2>2, <2>3, <2>4, <2>5, Stays, QuietThread DEF r
<1>3. ASSUME NEW x \in spent, Token(t) = {}, req' = [req EXCEPT ![h] = [Free EXCEPT !.pc = "reused", !.user = x.user]]
      PROVE  AccInv'
  <2> DEFINE r == [Free EXCEPT !.pc = "reused", !.user = x.user]
  <2>1. x.user \in Users /\ Known(x.user)
    BY DEF AccInv, RowsTyped, Sessions
  <2>2. r \in ReqRow /\ r.pc = "reused" /\ r.user = x.user /\ r.chain = 0
    BY <2>1, FreeRow DEF ReqRow, Pcs, Someone
  <2>3. ThreadFits(r)
    BY <2>1, <2>2 DEF ThreadFits, Carries, Revokes
  <2>4. live' = live
    BY <1>1, <1>3
  <2> HIDE DEF r
  <2> QED
    BY <1>1, <1>3, <2>1, <2>2, <2>3, <2>4, ThreadGoesOn DEF r
<1>4. CASE UNCHANGED req
  <2>1. VersionsStay /\ user' \in [Users -> UserRow]
    BY <1>1, CallIsCounted DEF AccInv, VersionsStay, RowsTyped, AccountLog, Known
  <2> QED
    BY <1>1, <1>4, <2>1, QuietStep DEF VersionsStay, Admins
<1> QED
  BY <1>2, <1>3, <1>4 DEF Rotate, Step

LEMMA RotateMarksHolds ==
    ASSUME AccInv, NEW h \in Handlers, RotateMarks(h)
    PROVE  AccInv'
<1> DEFINE r0 == req[h]
           r == [Free EXCEPT !.pc = "session", !.user = r0.user, !.sv = r0.sv, !.chain = r0.chain]
           spend == spent \cup {[id |-> r0.token, user |-> r0.user]}
<1>1. /\ r0.pc = "mark" /\ UNCHANGED <<uscene, user, live, code, ulog>> /\ spent' = spend
      /\ Ends(h) \/ req' = [req EXCEPT ![h] = r]
  BY DEF RotateMarks, At, Step, Ends
<1>2. /\ r0 \in ReqRow /\ r0.user \in Users /\ Known(r0.user) /\ r0.chain # 0 /\ ThreadFits(r0)
      /\ r0.sv \in Nat /\ r0.chain \in Nat /\ r0.token \in Nat
  BY <1>1, ThreadRow DEF AccInv, Sessions, ThreadFits, ReqRow
<1>3. spend \subseteq [id : Nat, user : Users] /\ \A x \in spend : Known(x.user)
  BY <1>2, Stays
<1>4. r \in ReqRow /\ r.pc = "session" /\ r.user = r0.user /\ r.chain = r0.chain /\ r.sv = r0.sv /\ ~r.new
  BY <1>2, FreeRow DEF ReqRow, Pcs, Someone
<1>5. /\ \A y \in live : r.chain # y.chain
      /\ \A g \in Handlers \ {h} : Carries(req[g]) => r.chain # req[g].chain \/ r.chain = 0
  BY <1>1, <1>4 DEF AccInv, Sessions, Carries
<1> HIDE DEF spend
<1>6. ThreadFits(r)
  <2> HIDE DEF r0, r
  <2> QED
    BY <1>1, <1>2, <1>4 DEF ThreadFits, Carries, Revokes
<1>7. CASE Ends(h)
  <2>1. req' = [req EXCEPT ![h] = Free]
    BY <1>7 DEF Ends, Step
  <2> QED
    BY <1>1, <1>3, <2>1, FreeRow, QuietThread DEF Carries
<1>8. CASE req' = [req EXCEPT ![h] = r]
  <2> HIDE DEF r
  <2> QED
    BY <1>1, <1>2, <1>3, <1>4, <1>5, <1>6, <1>8, QuietThread
<1> QED
  BY <1>1, <1>7, <1>8

LEMMA AdminCallsHolds ==
    ASSUME AccInv, NEW h \in Handlers, NEW a \in Users, NEW u \in Users, NEW op \in Ops, AdminCalls(h, a, u, op)
    PROVE  AccInv'
<1> DEFINE role == user[a].role
           r == [Free EXCEPT !.pc = "check", !.user = u, !.op = op, !.by = a, !.role = role]
<1>1. role \in Roles
  BY RowOfUser DEF UserRow
<1>2. r \in ReqRow /\ r.pc = "check" /\ r.user = u /\ r.chain = 0
  <2> HIDE DEF role
  <2> QED
    BY <1>1, FreeRow DEF ReqRow, Pcs, Someone
<1>3. /\ req' = [req EXCEPT ![h] = r] /\ ulog' = More /\ ulog.calls < uscene.max /\ req[h].pc = "idle"
      /\ UNCHANGED <<uscene, user, code, live, spent>>
  BY DEF AdminCalls, Call, Called, Step, At
<1>4. ThreadFits(r)
  BY <1>2 DEF ThreadFits, Carries, Revokes
<1> HIDE DEF r
<1> QED
  BY <1>2, <1>3, <1>4, ThreadGoesOn

LEMMA UseReadsHolds ==
    ASSUME AccInv, NEW h \in Handlers, NEW u \in Users, UseReads(h, u)
    PROVE  AccInv'
<1> DEFINE r == [Free EXCEPT !.pc = "use", !.user = u]
<1>1. r \in ReqRow /\ r.pc = "use" /\ r.user = u /\ r.chain = 0
  BY FreeRow DEF ReqRow, Pcs, Someone
<1>2. /\ ulog' = More /\ ulog.calls < uscene.max /\ req[h].pc = "idle"
      /\ UNCHANGED <<uscene, user, code, live, spent>>
      /\ req' = [req EXCEPT ![h] = r] \/ UNCHANGED req
  BY DEF UseReads, Call, Called, Step, At
<1>3. ThreadFits(r)
  BY <1>1 DEF ThreadFits, Carries, Revokes
<1>4. CASE UNCHANGED req
  <2>1. user' \in [Users -> UserRow] /\ \A v \in Users : user'[v].sv = user[v].sv /\ (Known(v) => Known(v)')
    BY <1>2 DEF AccInv, RowsTyped, Known
  <2> QED
    BY <1>2, <1>4, <2>1, QuietStep DEF Admins
<1> HIDE DEF r
<1> QED
  BY <1>1, <1>2, <1>3, <1>4, ThreadGoesOn

LEMMA UseCountsHolds == ASSUME AccInv, NEW h \in Handlers, UseCounts(h) PROVE AccInv'
  BY ThreadEnds DEF UseCounts, At

\* Steps that leave the rows of users and the threads alone.
LEMMA ElsewhereHolds ==
    ASSUME AccInv, UNCHANGED <<uscene, req, code, spent, user>>, live' \subseteq live,
           UNCHANGED ulog \/ (ulog' = More /\ ulog.calls < uscene.max)
    PROVE  AccInv'
<1>1. user' \in [Users -> UserRow] /\ \A v \in Users : user'[v].sv = user[v].sv /\ (Known(v) => Known(v)')
  BY DEF AccInv, RowsTyped, Known
<1> QED
  BY <1>1, QuietStep DEF Admins

\* Steps that write the row of one user.
LEMMA UserRowWritten ==
    ASSUME AccInv, NEW u \in Users, NEW e \in UserRow, user' = [user EXCEPT ![u] = e],
           UNCHANGED <<uscene, req, code, spent, live>>,
           e.sv = user[u].sv, e.role # "unknown",
           u \in Admins => (e.role = "admin" /\ e.active) \/ ulog'.edited,
           \/ UNCHANGED ulog
           \/ ulog' = More /\ ulog.calls < uscene.max
           \/ ulog' = [ulog EXCEPT !.edited = TRUE]
    PROVE  AccInv'
<1>1. /\ user' \in [Users -> UserRow] /\ user'[u] = e
      /\ \A v \in Users : v # u => user'[v] = user[v]
  BY DEF AccInv, RowsTyped
<1>2. \A v \in Users : user'[v].sv = user[v].sv /\ (Known(v) => Known(v)')
  BY <1>1 DEF Known
<1>3. Admins \subseteq Admins' \/ ulog'.edited
  BY <1>1 DEF Admins
<1> QED
  BY <1>1, <1>2, <1>3, QuietStep

LEMMA CreateHolds ==
    ASSUME AccInv, NEW h \in Handlers, NEW a \in Users, NEW u \in Users, CreateUser(h, a, u)
    PROVE  AccInv'
<1> DEFINE e == [role |-> "user", active |-> TRUE, sv |-> 0]
<1>1. e \in UserRow /\ e.sv = 0 /\ e.role = "user"
  BY DEF UserRow, Roles
<1>2. /\ user' = [user EXCEPT ![u] = e] /\ ~Known(u) /\ ulog' = More /\ ulog.calls < uscene.max
      /\ UNCHANGED <<uscene, req, code, spent, live>>
  BY DEF CreateUser, Call, Called
<1>3. u \notin Admins /\ user[u].sv = 0
  BY <1>2, RowOfUser DEF Known, Admins
<1> HIDE DEF e
<1> QED
  BY <1>1, <1>2, <1>3, UserRowWritten

LEMMA RestoredRow ==
    ASSUME NEW u \in Users, NEW e \in UserRow, e.role # "unknown"
    PROVE  /\ Restored(u, e) \in UserRow /\ Restored(u, e).sv = e.sv /\ Restored(u, e).role # "unknown"
           /\ e.role = "admin" /\ e.active => Restored(u, e).role = "admin" /\ Restored(u, e).active
  BY DEF Restored, UserRow, Roles

LEMMA AuthorizeHolds == ASSUME AccInv, NEW u \in Users, Authorize(u) PROVE AccInv'
<1> DEFINE e == Restored(u, user[u])
<1>1. user' = [user EXCEPT ![u] = e] /\ Known(u) /\ UNCHANGED <<uscene, req, code, spent, live, ulog>>
  BY DEF Authorize
<1>2. e \in UserRow /\ e.sv = user[u].sv /\ e.role # "unknown" /\ (u \in Admins => e.role = "admin" /\ e.active)
  BY <1>1, RowOfUser, RestoredRow DEF Known, Admins
<1> HIDE DEF e
<1> QED
  BY <1>1, <1>2, UserRowWritten

LEMMA HandEditHolds == ASSUME AccInv, NEW u \in Users, EditByHand(u) PROVE AccInv'
<1> DEFINE e == [user[u] EXCEPT !.active = FALSE]
<1>1. /\ user' = [user EXCEPT ![u] = e] /\ ulog' = [ulog EXCEPT !.edited = TRUE]
      /\ UNCHANGED <<uscene, req, code, spent, live>>
  BY DEF EditByHand, AccInv, RowsTyped
<1>2. e \in UserRow /\ e.sv = user[u].sv /\ e.role = user[u].role
  BY RowOfUser DEF UserRow
<1>3. ulog'.edited
  BY <1>1 DEF AccInv, RowsTyped, AccountLog
<1> HIDE DEF e
<1>4. CASE Known(u)
  BY <1>1, <1>2, <1>3, <1>4, UserRowWritten DEF Known
<1>5. CASE ~Known(u)
  <2>1. \A v \in Users : user'[v].sv = user[v].sv /\ user'[v].role = user[v].role
    BY <1>1, <1>2 DEF AccInv, RowsTyped
  <2>2. user' \in [Users -> UserRow]
    BY <1>1, <1>2 DEF AccInv, RowsTyped
  <2> QED
    BY <1>1, <1>3, <2>1, <2>2, QuietStep DEF Known
<1> QED
  BY <1>4, <1>5

----------------------------------------------------------------------------
(* A session is made, and accounts are changed *)

LEMMA SignedRow ==
    ASSUME AccInv, NEW r \in ReqRow, r.user \in Users, r.new => ~Known(r.user), ~r.new => Known(r.user)
    PROVE  /\ Signed(r) \in [Users -> UserRow]
           /\ \A v \in Users : /\ Signed(r)[v].sv = user[v].sv
                               /\ Known(v) \/ v = r.user => Signed(r)[v].role # "unknown"
                               /\ v \in Admins => Signed(r)[v].role = "admin" /\ Signed(r)[v].active
<1> DEFINE u == r.user
           e0 == [role |-> "user", active |-> TRUE, sv |-> 0]
<1>1. user \in [Users -> UserRow]
  BY DEF AccInv, RowsTyped
<1>2. e0 \in UserRow /\ e0.role = "user" /\ e0.sv = 0
  BY DEF UserRow, Roles
<1> HIDE DEF e0
<1>3. CASE r.new
  <2>1. /\ Restored(u, e0) \in UserRow /\ Restored(u, e0).sv = user[u].sv /\ Restored(u, e0).role # "unknown"
        /\ u \notin Admins
    BY <1>2, <1>3, RestoredRow, RowOfUser DEF Known, Admins
  <2>2. Signed(r) = [user EXCEPT ![u] = Restored(u, e0)]
    BY <1>3 DEF Signed, e0
  <2> QED
    BY <1>1, <2>1, <2>2 DEF Known, Admins
<1>4. CASE ~r.new /\ r.op = "restore"
  <2>1. /\ Restored(u, user[u]) \in UserRow /\ Restored(u, user[u]).sv = user[u].sv
        /\ Restored(u, user[u]).role # "unknown"
        /\ u \in Admins => Restored(u, user[u]).role = "admin" /\ Restored(u, user[u]).active
    BY <1>4, RestoredRow, RowOfUser DEF Known, Admins
  <2>2. Signed(r) = [user EXCEPT ![u] = Restored(u, user[u])]
    BY <1>4 DEF Signed
  <2> QED
    BY <1>1, <2>1, <2>2 DEF Known, Admins
<1>5. CASE ~r.new /\ r.op # "restore"
  <2>1. Signed(r) = user
    BY <1>5 DEF Signed
  <2> QED
    BY <1>1, <1>5, <2>1 DEF Known, Admins
<1> QED
  BY <1>3, <1>4, <1>5

\* The new token takes the chain over from its thread.
LEMMA SessionStartHolds ==
    ASSUME AccInv, NEW h \in Handlers, StartSession(h)
    PROVE  AccInv'
<1> DEFINE r == req[h]
           token == ulog.tokens + 1
           chain == IF r.chain = 0 THEN token ELSE r.chain
           t0 == [id |-> token, user |-> r.user, sv |-> r.sv, chain |-> chain]
<1>1. r.pc = "session" /\ Ends(h) /\ UNCHANGED <<uscene, spent, code>>
  BY DEF StartSession, Start, At
<1>2. CASE r.new /\ Known(r.user)
  BY <1>1, <1>2, ThreadEnds DEF StartSession, Start
<1>3. CASE ~(r.new /\ Known(r.user))
  <2>1. /\ live' = live \cup {t0} /\ user' = Signed(r)
        /\ ulog' = [ulog EXCEPT !.tokens = token]
    BY <1>3 DEF StartSession, Start
  <2>2. /\ r \in ReqRow /\ r.user \in Users /\ r.sv \in Nat /\ r.chain \in 0..ulog.tokens
        /\ ulog.tokens \in Nat /\ ulog \in AccountLog /\ ThreadFits(r) /\ (~r.new => Known(r.user))
    BY <1>1, ThreadRow DEF AccInv, RowsTyped, Sessions, ThreadFits, Carries, ReqRow, AccountLog
  <2>3. req' = [req EXCEPT ![h] = Free] /\ req'[h] = Free /\ \A g \in Handlers : g # h => req'[g] = req[g]
    BY <1>1, FreeRow, ThreadMoves DEF Ends, Step, AccInv
  <2>4. /\ user' \in [Users -> UserRow] /\ \A v \in Users : user'[v].sv = user[v].sv /\ (Known(v) => Known(v)')
        /\ user'[r.user].role # "unknown" /\ Admins \subseteq Admins'
    <3> HIDE DEF r
    <3>1. /\ Signed(r) \in [Users -> UserRow]
          /\ \A v \in Users : /\ Signed(r)[v].sv = user[v].sv
                              /\ Known(v) \/ v = r.user => Signed(r)[v].role # "unknown"
                              /\ v \in Admins => Signed(r)[v].role = "admin" /\ Signed(r)[v].active
      BY <1>3, <2>2, SignedRow
    <3> QED
      BY <2>1, <2>2, <3>1 DEF Known, Admins
  <2>5. token \in Nat /\ token = ulog.tokens + 1 /\ chain \in 1..token
    BY <2>2
  <2> HIDE DEF r, token, chain
  <2>6. /\ ulog' \in AccountLog /\ ulog'.tokens = token /\ ulog'.out = ulog.out /\ ulog'.raced = ulog.raced
        /\ ulog'.calls = ulog.calls /\ ulog'.codes = ulog.codes /\ ulog'.guesses = ulog.guesses
        /\ (ulog'.overlapped <=> ulog.overlapped) /\ (ulog'.edited <=> ulog.edited)
    BY <2>1, <2>2, <2>5 DEF AccountLog
  <2>7. /\ t0 \in TokenRow /\ t0.id = token /\ t0.user = r.user /\ t0.sv = r.sv /\ t0.chain = chain
    BY <2>2, <2>5 DEF TokenRow
  <2> HIDE DEF t0
  <2>8. RowsTyped'
    BY <1>1, <2>1, <2>3, <2>4, <2>6, <2>7, FreeRow, ThreadMoves DEF AccInv, RowsTyped
  <2>9. VersionsStay
    BY <2>2, <2>4, <2>5, <2>6 DEF VersionsStay
  <2>10. Guessed'
    BY <1>1, <2>3, <2>6, FreeRow, GuessedMoves DEF AccInv, r
  <2>11. AdminKept'
    BY <1>1, <2>3, <2>4, <2>6, FreeRow, KeptMoves DEF AccInv, Unmakes
  <2>12. Sessions'
    <3>1. /\ \A u \in Users : ~Known(u)' => user'[u].sv = 0
          /\ ulog'.out \subseteq 1..ulog'.tokens
          /\ \A x \in spent' : Known(x.user)'
      <4>1. \A x \in spent : x.user \in Users /\ Known(x.user)
        BY DEF AccInv, RowsTyped, Sessions
      <4> QED
        BY <1>1, <2>2, <2>4, <2>5, <2>6, <4>1 DEF AccInv, Sessions
    <3>2. ASSUME NEW t \in live' PROVE TokenFits(t)'
      <4>1. CASE t \in live
        <5>1. t \in TokenRow /\ TokenFits(t)
          BY <4>1 DEF AccInv, RowsTyped, Sessions
        <5> QED
          BY <2>9, <5>1, TokenStillFits DEF AccInv
      <4>2. CASE t = t0
        <5>1. r.chain = 0 => chain \notin ulog.out
          BY <2>2, <2>5 DEF AccInv, Sessions, chain
        <5>2. r.chain # 0 => chain = r.chain
          BY DEF chain
        <5>3. Older(r.user, r.sv, r.chain)
          BY <1>1, <2>2 DEF ThreadFits, Carries, r
        <5>4. Older(t.user, t.sv, t.chain)'
          BY <2>2, <2>4, <2>6, <2>7, <4>2, <5>1, <5>2, <5>3 DEF Older
        <5> QED
          BY <2>2, <2>4, <2>5, <2>6, <2>7, <4>2, <5>4 DEF TokenFits, Known
      <4> QED
        BY <2>1, <4>1, <4>2
    <3>3. ASSUME NEW g \in Handlers PROVE ThreadFits(req[g])'
      <4>1. CASE g = h
        BY <2>3, <2>9, <4>1, FreeRow, RowStillFits DEF AccInv
      <4>2. CASE g # h
        <5>1. ThreadFits(req[g]) /\ req[g] \in ReqRow /\ (req[g].pc # "idle" => req[g].user \in Users)
          BY ThreadRow DEF AccInv, Sessions
        <5> QED
          BY <2>3, <2>9, <4>2, <5>1, RowStillFits DEF AccInv
      <4> QED
        BY <4>1, <4>2
    <3>4. \A t \in live : t.id \in 1..ulog.tokens /\ t.chain \in 1..ulog.tokens /\ t.chain # r.chain
      BY <1>1 DEF AccInv, Sessions, TokenFits, Carries, r
    <3>5. chain = token \/ chain = r.chain
      BY DEF chain
    <3>6. \A t \in live : t.id # t0.id /\ t.chain # t0.chain
      BY <2>2, <2>5, <2>7, <3>4, <3>5
    <3>7. \A t, x \in live' : t.id = x.id \/ t.chain = x.chain => t = x
      BY <2>1, <3>6 DEF AccInv, Sessions
    <3>8. ASSUME NEW g \in Handlers, g # h, Carries(req[g])
          PROVE  req[g].chain # t0.chain
      <4>1. req[g].chain \in 0..ulog.tokens /\ (req[g].chain # r.chain \/ r.chain = 0)
        BY <1>1, <3>8 DEF AccInv, Sessions, ThreadFits, Carries, r
      <4>2. r.chain = 0 => chain = token
        BY DEF chain
      <4> QED
        BY <2>2, <2>5, <2>7, <3>5, <4>1, <4>2
    <3>9. ~Carries(Free) /\ ~Revokes(Free)
      BY FreeRow DEF Carries, Revokes
    <3>10. \A t \in live', g \in Handlers : Carries(req'[g]) => req'[g].chain # t.chain
      BY <2>1, <2>3, <3>8, <3>9 DEF AccInv, Sessions
    <3>11. \A f, g \in Handlers : f # g =>
             /\ Carries(req'[f]) /\ Carries(req'[g]) => req'[f].chain # req'[g].chain \/ req'[g].chain = 0
             /\ Revokes(req'[f]) /\ Revokes(req'[g]) /\ req'[f].user = req'[g].user => req'[g].user \in ulog'.raced
      BY <2>3, <2>6, <3>9 DEF AccInv, Sessions
    <3> QED
      BY <3>1, <3>2, <3>3, <3>7, <3>10, <3>11 DEF Sessions, Carries, Revokes
  <2> QED
    BY <2>8, <2>10, <2>11, <2>12 DEF AccInv
<1> QED
  BY <1>2, <1>3

\* A thread has loaded the row it is to change.
LEMMA ToWriteHolds ==
    ASSUME AccInv, NEW h \in Handlers, NEW r \in ReqRow, r.pc = "write", r.user \in Users, Known(r.user),
           r.sv = user[r.user].sv, req' = [req EXCEPT ![h] = r],
           UNCHANGED <<uscene, user, code, live, spent>>, req[h].pc \notin {"count", "drop"},
           ulog' \in AccountLog, ulog'.tokens = ulog.tokens, ulog'.out = ulog.out, ulog'.calls = ulog.calls,
           ulog'.codes = ulog.codes, ulog'.guesses = ulog.guesses, ulog.raced \subseteq ulog'.raced,
           ulog.overlapped => ulog'.overlapped, ulog.edited => ulog'.edited,
           Revokes(r) => \A g \in Handlers \ {h} :
                            Revokes(req[g]) /\ req[g].user = r.user => r.user \in ulog'.raced,
           Unmakes(r) /\ Remain => \E v \in Admins : v # r.user,
           Unmakes(r) => (\A g \in Handlers \ {h} : ~Unmakes(req[g])) \/ ulog'.overlapped
    PROVE  AccInv'
<1>1. RowsTyped'
  BY ThreadMoves DEF AccInv, RowsTyped
<1>2. Guessed'
  BY GuessedMoves DEF AccInv
<1>3. VersionsStay /\ user' \in [Users -> UserRow]
  BY DEF VersionsStay, AccInv, RowsTyped, AccountLog, Known
<1>4. ThreadFits(r) /\ ~Carries(r)
  BY DEF ThreadFits, Carries, Revokes
<1>5. Sessions'
  BY <1>3, <1>4, Stays, SessionsMove DEF AccInv
<1>6. AdminKept'
  BY KeptMoves DEF AccInv, Admins
<1> QED
  BY <1>1, <1>2, <1>5, <1>6 DEF AccInv

LEMMA RacedLog ==
    ASSUME AccInv, NEW u \in Users
    PROVE  LET log == Raced(ulog, u) IN
           /\ log \in AccountLog /\ log.tokens = ulog.tokens /\ log.out = ulog.out /\ log.calls = ulog.calls
           /\ log.codes = ulog.codes /\ log.guesses = ulog.guesses /\ ulog.raced \subseteq log.raced
           /\ (log.overlapped <=> ulog.overlapped) /\ (log.edited <=> ulog.edited)
           /\ \A g \in Handlers : Revokes(req[g]) /\ req[g].user = u => u \in log.raced
<1>1. ulog \in AccountLog
  BY DEF AccInv, RowsTyped
<1>2. CASE Revoking(u) # {}
  BY <1>1, <1>2 DEF Raced, AccountLog
<1>3. CASE Revoking(u) = {}
  <2>1. \A g \in Handlers : ~(Revokes(req[g]) /\ req[g].user = u)
    BY <1>3 DEF Revoking, Revokes, At
  <2> QED
    BY <1>1, <1>3, <2>1 DEF Raced
<1> QED
  BY <1>2, <1>3

LEMMA ReusedHolds ==
    ASSUME AccInv, NEW h \in Handlers, Reused(h)
    PROVE  AccInv'
<1> DEFINE u == req[h].user
           sv == user[u].sv
           r == [Free EXCEPT !.pc = "write", !.user = u, !.sv = sv, !.op = "reset"]
<1>1. /\ req[h].pc = "reused" /\ req' = [req EXCEPT ![h] = r] /\ ulog' = Raced(ulog, u)
      /\ UNCHANGED <<uscene, user, code, live, spent>>
  BY DEF Reused, At, Step
<1>2. u \in Users /\ Known(u)
  BY <1>1, ThreadRow DEF AccInv, Sessions, ThreadFits
<1>3. sv \in Nat
  BY <1>2, RowOfUser
<1>4. r \in ReqRow /\ r.pc = "write" /\ r.user = u /\ r.sv = sv /\ r.op = "reset"
  <2> HIDE DEF sv, u
  <2> QED
    BY <1>2, <1>3, FreeRow DEF ReqRow, Pcs, Ops, Someone
<1>5. ~Unmakes(r)
  BY <1>4 DEF Unmakes
<1> HIDE DEF r
<1> QED
  BY <1>1, <1>2, <1>4, <1>5, RacedLog, ToWriteHolds

\* One administrator is left beside the one that is to be unmade.
LEMMA NotTheLast ==
    ASSUME NEW u \in Users, ~Last(u), Admins # {}
    PROVE  \E v \in Admins : v # u
<1> SUFFICES ASSUME \A v \in Admins : v = u PROVE FALSE
  OBVIOUS
<1>1. Admins = {u}
  OBVIOUS
<1>2. Cardinality({u}) = 1
  BY FS_Singleton
<1> QED
  BY <1>1, <1>2 DEF Last

LEMMA AdminLoadsHolds ==
    ASSUME AccInv, NEW h \in Handlers, AdminLoads(h)
    PROVE  AccInv'
<1> DEFINE r0 == req[h]
           u == r0.user
           sv == user[u].sv
           r == [r0 EXCEPT !.pc = "write", !.sv = sv]
           unmakes == {g \in Handlers : At(g, "write") /\ req[g].op \in {"disable", "demote"}}
           log == IF r0.op \in {"reset", "disable"} THEN Raced(ulog, u) ELSE ulog
           over == log.overlapped \/ (r0.op \in {"disable", "demote"} /\ unmakes # {})
<1>1. r0.pc = "check" /\ UNCHANGED <<uscene, user, code, live, spent>>
  BY DEF AdminLoads, At
<1>2. CASE Ends(h) /\ UNCHANGED ulog
  BY <1>1, <1>2, ThreadEnds
<1>3. CASE /\ Allowed(r0.by, r0.role, u, r0.op) /\ req' = [req EXCEPT ![h] = r]
           /\ ulog' = [log EXCEPT !.overlapped = over]
  <2>1. r0 \in ReqRow /\ u \in Users /\ r0.op \in Ops
    BY <1>1, ThreadRow DEF AccInv, ReqRow
  <2>2. Known(u) /\ (r0.op \in {"disable", "demote"} => ~Last(u))
    BY <1>3 DEF Allowed, Manages
  <2>3. sv \in Nat
    BY <2>1, RowOfUser
  <2>4. r \in ReqRow /\ r.pc = "write" /\ r.user = u /\ r.sv = sv /\ r.op = r0.op
    <3> HIDE DEF sv
    <3> QED
      BY <2>1, <2>3 DEF ReqRow, Pcs
  <2>5. /\ log \in AccountLog /\ log.tokens = ulog.tokens /\ log.out = ulog.out /\ log.calls = ulog.calls
        /\ log.codes = ulog.codes /\ log.guesses = ulog.guesses /\ ulog.raced \subseteq log.raced
        /\ (log.overlapped <=> ulog.overlapped) /\ (log.edited <=> ulog.edited)
        /\ r0.op \in {"reset", "disable"} =>
             \A g \in Handlers : Revokes(req[g]) /\ req[g].user = u => u \in log.raced
    <3>1. CASE r0.op \in {"reset", "disable"}
      BY <2>1, <3>1, RacedLog
    <3>2. CASE r0.op \notin {"reset", "disable"}
      BY <3>2 DEF AccInv, RowsTyped
    <3> QED
      BY <3>1, <3>2
  <2>6. over \in BOOLEAN /\ (log.overlapped => over)
    BY <2>5 DEF AccountLog
  <2>7. r0.op \in {"disable", "demote"} => (\A g \in Handlers \ {h} : ~Unmakes(req[g])) \/ over
    BY DEF Unmakes, At
  <2> HIDE DEF log, over, r
  <2>8. /\ ulog' \in AccountLog /\ ulog'.tokens = log.tokens /\ ulog'.out = log.out /\ ulog'.calls = log.calls
        /\ ulog'.codes = log.codes /\ ulog'.guesses = log.guesses /\ ulog'.raced = log.raced
        /\ ulog'.overlapped = over /\ ulog'.edited = log.edited
    BY <1>3, <2>5, <2>6 DEF AccountLog
  <2>9. Unmakes(r) /\ Remain => \E v \in Admins : v # r.user
    BY <2>1, <2>2, <2>4, NotTheLast DEF Unmakes, Remain
  <2>10. /\ Revokes(r) => r0.op \in {"reset", "disable"}
         /\ Unmakes(r) => r0.op \in {"disable", "demote"}
    BY <2>4 DEF Revokes, Unmakes
  <2>11. /\ ulog'.tokens = ulog.tokens /\ ulog'.out = ulog.out /\ ulog'.calls = ulog.calls
         /\ ulog'.codes = ulog.codes /\ ulog'.guesses = ulog.guesses /\ ulog.raced \subseteq ulog'.raced
         /\ (ulog.overlapped => ulog'.overlapped) /\ (ulog.edited => ulog'.edited)
         /\ Revokes(r) => \A g \in Handlers \ {h} :
                            Revokes(req[g]) /\ req[g].user = r.user => r.user \in ulog'.raced
         /\ Unmakes(r) => (\A g \in Handlers \ {h} : ~Unmakes(req[g])) \/ ulog'.overlapped
    BY <2>4, <2>5, <2>6, <2>7, <2>8, <2>10
  <2>12. r.sv = user[r.user].sv /\ r.user \in Users /\ Known(r.user)
    BY <2>1, <2>2, <2>4
  <2> HIDE DEF r0
  <2> QED
    BY <1>1, <1>3, <2>4, <2>8, <2>9, <2>11, <2>12, ToWriteHolds DEF r0
<1> QED
  BY <1>2, <1>3 DEF AdminLoads, Step

\* Who carries a session of the user, carries it for the user.
LEMMA SessionsAreOwn ==
    ASSUME AccInv, NEW u \in Users
    PROVE  /\ SessionsOf(u) \subseteq 1..ulog.tokens
           /\ \A t \in live : t.chain \in SessionsOf(u) => t.user = u
           /\ \A g \in Handlers : Carries(req[g]) /\ req[g].chain \in SessionsOf(u) => req[g].user = u
<1>1. \A t \in live : t.chain \in 1..ulog.tokens
  BY DEF AccInv, Sessions, TokenFits
<1>2. \A g \in Handlers : Carries(req[g]) => req[g].chain \in 0..ulog.tokens
  BY DEF AccInv, Sessions, ThreadFits
<1>3. ulog.tokens \in Nat
  BY NoChain
<1>4. ASSUME NEW c \in SessionsOf(u)
      PROVE  /\ c # 0
             /\ \/ \E t \in live : t.user = u /\ t.chain = c
                \/ \E g \in Handlers : req[g].user = u /\ Carries(req[g]) /\ req[g].chain = c
  BY DEF SessionsOf, Carries, At
<1>5. SessionsOf(u) \subseteq 1..ulog.tokens
  BY <1>1, <1>2, <1>3, <1>4
<1>6. ASSUME NEW t \in live, t.chain \in SessionsOf(u) PROVE t.user = u
  BY <1>4, <1>6 DEF AccInv, Sessions
<1>7. ASSUME NEW g \in Handlers, Carries(req[g]), req[g].chain \in SessionsOf(u) PROVE req[g].user = u
  BY <1>4, <1>7 DEF AccInv, Sessions
<1> QED
  BY <1>5, <1>6, <1>7

\* The row of the user is written over the version that was loaded.
LEMMA WrittenRow ==
    ASSUME AccInv, NEW h \in Handlers, AdminWrites(h)
    PROVE  LET r == req[h]
               u == r.user IN
           /\ r \in ReqRow /\ u \in Users /\ Known(u) /\ ThreadFits(r) /\ r.pc = "write"
           /\ user' \in [Users -> UserRow] /\ user'[u].role # "unknown"
           /\ \A v \in Users : v # u => user'[v] = user[v]
           /\ user'[u].sv = IF Revokes(r) THEN r.sv + 1 ELSE user[u].sv
           /\ ~Unmakes(r) => Admins \subseteq Admins'
           /\ r.sv \in Nat /\ (Revokes(r) /\ u \notin ulog.raced => r.sv = user[u].sv)
<1> DEFINE r == req[h]
           u == r.user
           sv == IF Revokes(r) THEN r.sv + 1 ELSE user[u].sv
           active == IF r.op = "disable" THEN FALSE ELSE IF r.op = "enable" THEN TRUE ELSE user[u].active
           role == IF r.op = "promote" THEN "admin" ELSE IF r.op = "demote" THEN "user" ELSE user[u].role
           e == [user[u] EXCEPT !.sv = sv, !.active = active, !.role = role]
<1>1. r.pc = "write"
  BY DEF AdminWrites, At
<1>2. r \in ReqRow /\ u \in Users /\ Known(u) /\ ThreadFits(r) /\ r.sv \in Nat
  BY <1>1, ThreadRow DEF AccInv, Sessions, ThreadFits, ReqRow
<1>3. user \in [Users -> UserRow] /\ user[u] \in UserRow /\ user[u].sv \in Nat
  BY <1>2 DEF AccInv, RowsTyped, UserRow
<1>4. user' = [user EXCEPT ![u] = e]
  <2> DEFINE sv0 == IF r.op \in {"reset", "disable"} THEN r.sv + 1 ELSE user[u].sv
  <2>1. user' = [user EXCEPT ![u] = [user[u] EXCEPT !.sv = sv0, !.active = active, !.role = role]]
    BY <1>2, <1>3 DEF AdminWrites, UserRow
  <2>2. sv0 = sv
    BY <1>1 DEF Revokes
  <2> QED
    BY <2>1, <2>2
<1>5. sv \in Nat /\ active \in BOOLEAN /\ role \in Roles /\ role # "unknown"
  <2>1. sv \in Nat
    BY <1>2, <1>3
  <2>2. user[u].active \in BOOLEAN /\ user[u].role \in Roles /\ user[u].role # "unknown"
    BY <1>2, <1>3 DEF UserRow, Known
  <2>3. active \in BOOLEAN
    BY <2>2
  <2>4. role \in Roles /\ role # "unknown"
    BY <2>2 DEF Roles
  <2> QED
    BY <2>1, <2>3, <2>4
<1>6. r.op \notin {"disable", "demote"} /\ user[u].role = "admin" /\ user[u].active => role = "admin" /\ active
  OBVIOUS
<1>7. e \in UserRow /\ e.sv = sv /\ e.active = active /\ e.role = role
  <2> HIDE DEF sv, active, role
  <2> QED
    BY <1>3, <1>5 DEF UserRow
<1> HIDE DEF e
<1>8. user' \in [Users -> UserRow] /\ user'[u] = e /\ \A v \in Users : v # u => user'[v] = user[v]
  BY <1>2, <1>3, <1>4, <1>7
<1>9. ASSUME ~Unmakes(r), NEW v \in Admins PROVE v \in Admins'
  <2>1. v \in Users /\ user[v].role = "admin" /\ user[v].active
    BY DEF Admins
  <2>2. CASE v = u
    <3>1. r.op \notin {"disable", "demote"}
      BY <1>1, <1>9 DEF Unmakes
    <3>2. e.role = "admin" /\ e.active
      BY <1>6, <1>7, <2>1, <2>2, <3>1
    <3> QED
      BY <1>8, <2>1, <2>2, <3>2 DEF Admins
  <2>3. CASE v # u
    BY <1>8, <2>1, <2>3 DEF Admins
  <2> QED
    BY <2>2, <2>3
<1>10. Revokes(r) /\ u \notin ulog.raced => r.sv = user[u].sv
  BY <1>2 DEF ThreadFits
<1> QED
  BY <1>1, <1>2, <1>5, <1>7, <1>8, <1>9, <1>10

LEMMA AdminWritesHolds ==
    ASSUME AccInv, NEW h \in Handlers, AdminWrites(h)
    PROVE  AccInv'
<1> DEFINE r == req[h]
           u == r.user
<1>1. /\ UNCHANGED <<uscene, live, spent, code>> /\ Ends(h)
      /\ ulog' = IF Revokes(r) THEN [ulog EXCEPT !.out = @ \cup SessionsOf(u)] ELSE ulog
  BY DEF AdminWrites, At, Revokes
<1>2. /\ r \in ReqRow /\ u \in Users /\ Known(u) /\ ThreadFits(r) /\ r.pc = "write"
      /\ user' \in [Users -> UserRow] /\ user'[u].role # "unknown"
      /\ \A v \in Users : v # u => user'[v] = user[v]
      /\ user'[u].sv = IF Revokes(r) THEN r.sv + 1 ELSE user[u].sv
      /\ ~Unmakes(r) => Admins \subseteq Admins'
      /\ r.sv \in Nat /\ (Revokes(r) /\ u \notin ulog.raced => r.sv = user[u].sv)
  BY WrittenRow
<1>3. req' = [req EXCEPT ![h] = Free] /\ req'[h] = Free /\ \A g \in Handlers : g # h => req'[g] = req[g]
  BY <1>1, FreeRow, ThreadMoves DEF Ends, Step, AccInv
<1>4. SessionsOf(u) \subseteq Nat
  BY <1>2, SessionsAreOwn, NoChain
<1>5. /\ ulog' \in AccountLog /\ ulog'.tokens = ulog.tokens /\ ulog'.raced = ulog.raced
      /\ ulog'.calls = ulog.calls /\ ulog'.codes = ulog.codes /\ ulog'.guesses = ulog.guesses
      /\ (ulog'.overlapped <=> ulog.overlapped) /\ (ulog'.edited <=> ulog.edited)
      /\ ulog'.out = IF Revokes(r) THEN ulog.out \cup SessionsOf(u) ELSE ulog.out
  BY <1>1, <1>4 DEF AccInv, RowsTyped, AccountLog
<1>6. RowsTyped'
  BY <1>1, <1>2, <1>3, <1>5, FreeRow, ThreadMoves DEF AccInv, RowsTyped
<1>7. Guessed'
  BY <1>1, <1>2, <1>3, <1>5, FreeRow, GuessedMoves DEF AccInv
<1>8. ~Carries(Free) /\ ~Revokes(Free) /\ ~Unmakes(Free)
  BY FreeRow DEF Carries, Revokes, Unmakes
<1>9. AdminKept'
  <2>1. CASE ~Unmakes(r)
    BY <1>1, <1>2, <1>3, <1>5, <1>8, <2>1, FreeRow, KeptMoves DEF AccInv
  <2>2. CASE Unmakes(r)
    <3> SUFFICES ASSUME Remain PROVE Remain'
      BY <1>1, <1>5 DEF AccInv, AdminKept
    <3>1. PICK v \in Admins : v # u
      BY <2>2 DEF Remain, Leaves
    <3>2. v \in Admins'
      BY <1>2, <3>1 DEF Admins
    <3>3. \A g \in Handlers : ~Unmakes(req'[g])
      BY <1>3, <1>8, <2>2 DEF Remain
    <3> QED
      BY <3>2, <3>3 DEF Remain, Leaves, Unmakes
  <2> QED
    BY <2>1, <2>2
<1>10. Sessions'
  <2>1. CASE ~Revokes(r)
    <3>1. VersionsStay
      BY <1>2, <1>5, <2>1, NoChain DEF VersionsStay, Known
    <3> QED
      BY <1>1, <1>2, <1>3, <1>8, <3>1, FreeRow, Stays, SessionsMove DEF AccInv
  <2>2. CASE Revokes(r)
    <3>1. ulog'.out = ulog.out \cup SessionsOf(u) /\ user'[u].sv = r.sv + 1
      BY <1>2, <1>5, <2>2
    <3>2. \A v \in Users : Known(v) => user'[v].role # "unknown"
      BY <1>2 DEF Known
    <3>3. \A v \in Users : user'[v].role = "unknown" => user'[v].sv = 0
      BY <1>2 DEF AccInv, Sessions, Known
    <3>4. ulog'.out \subseteq 1..ulog'.tokens
      BY <1>2, <1>5, <3>1, SessionsAreOwn DEF AccInv, Sessions
    <3> HIDE DEF r, u
    <3>5. ASSUME NEW v \in Users, NEW sv \in Nat, NEW chain, Older(v, sv, chain),
                 chain \in SessionsOf(u) => v = u
          PROVE  v \notin ulog'.raced => sv <= user'[v].sv /\ (chain \in ulog'.out => sv # user'[v].sv)
      <4>1. CASE v # u
        BY <1>2, <1>5, <3>1, <3>5, <4>1 DEF Older
      <4>2. CASE v = u /\ v \notin ulog.raced
        <5>1. sv <= r.sv
          BY <1>2, <2>2, <3>5, <4>2 DEF Older
        <5> QED
          BY <1>2, <3>1, <4>2, <5>1
      <4> QED
        BY <1>5, <4>1, <4>2
    <3>6. ASSUME NEW t \in live' PROVE TokenFits(t)'
      <4>1. t \in live /\ t \in TokenRow /\ TokenFits(t) /\ (t.chain \in SessionsOf(u) => t.user = u)
        BY <1>1, <1>2, SessionsAreOwn DEF AccInv, RowsTyped, Sessions
      <4>2. t.user \in Users /\ t.sv \in Nat /\ Older(t.user, t.sv, t.chain)
        BY <4>1 DEF TokenRow, TokenFits
      <4>3. t.user \notin ulog'.raced => t.sv <= user'[t.user].sv /\ (t.chain \in ulog'.out => t.sv # user'[t.user].sv)
        BY <3>5, <4>1, <4>2
      <4> QED
        BY <1>5, <3>2, <4>1, <4>2, <4>3 DEF TokenFits, Older, Known
    <3>7. ASSUME NEW g \in Handlers PROVE ThreadFits(req[g])'
      <4>1. CASE g = h
        BY <1>3, <4>1, <1>8, FreeRow DEF ThreadFits, Carries, Revokes
      <4>2. CASE g # h /\ req[g].pc = "idle"
        BY <1>3, <4>2 DEF ThreadFits, Carries, Revokes
      <4>3. CASE g # h /\ req[g].pc # "idle"
        <5> DEFINE q == req[g]
        <5>1. q \in ReqRow /\ q.user \in Users /\ q.sv \in Nat /\ ThreadFits(q) /\ req'[g] = q
          BY <1>3, <4>3, ThreadRow DEF AccInv, Sessions, ReqRow
        <5>2. Carries(q) => (q.chain \in SessionsOf(u) => q.user = u)
          BY <1>2, SessionsAreOwn
        <5>3. Carries(q) => (q.user \notin ulog'.raced =>
                  q.sv <= user'[q.user].sv /\ (q.chain \in ulog'.out => q.sv # user'[q.user].sv))
          BY <3>5, <5>1, <5>2 DEF ThreadFits
        <5>4. Revokes(q) /\ q.user \notin ulog.raced => q.user # u
          BY <2>2, <4>3 DEF AccInv, Sessions, r, u
        <5>5. Revokes(q) /\ q.user \notin ulog'.raced => q.sv = user'[q.user].sv
          BY <1>2, <1>5, <5>1, <5>4 DEF ThreadFits
        <5> HIDE DEF q
        <5> QED
          BY <1>5, <3>2, <5>1, <5>3, <5>5 DEF ThreadFits, Carries, Revokes, Older, Known
      <4> QED
        BY <4>1, <4>2, <4>3
    <3>8. \A x \in spent' : user'[x.user].role # "unknown"
      BY <1>1, <3>2 DEF AccInv, RowsTyped, Sessions
    <3>9. \A t, x \in live' : t.id = x.id \/ t.chain = x.chain => t = x
      BY <1>1 DEF AccInv, Sessions
    <3>10. \A t \in live', g \in Handlers : Carries(req'[g]) => req'[g].chain # t.chain
      BY <1>1, <1>3, <1>8 DEF AccInv, Sessions
    <3>11. \A f, g \in Handlers : f # g =>
             /\ Carries(req'[f]) /\ Carries(req'[g]) => req'[f].chain # req'[g].chain \/ req'[g].chain = 0
             /\ Revokes(req'[f]) /\ Revokes(req'[g]) /\ req'[f].user = req'[g].user => req'[g].user \in ulog'.raced
      BY <1>3, <1>5, <1>8 DEF AccInv, Sessions
    <3> QED
      BY <3>3, <3>4, <3>6, <3>7, <3>8, <3>9, <3>10, <3>11 DEF Sessions, Known, Carries, Revokes
  <2> QED
    BY <2>1, <2>2
<1> QED
  BY <1>6, <1>7, <1>9, <1>10 DEF AccInv

----------------------------------------------------------------------------
(* One-time codes *)

LEMMA LogOf ==
    ASSUME AccInv
    PROVE  /\ ulog \in AccountLog /\ ulog.codes \in Nat /\ ulog.calls \in Nat /\ ulog.codes <= ulog.calls
           /\ ulog.calls <= MaxCalls /\ MaxCalls \in Nat /\ MaxAttempts \in Nat
           /\ ulog.guesses \in [0..MaxCalls -> Nat]
           /\ \A c \in 0..MaxCalls : ulog.guesses[c] \in Nat
<1>1. uscene.max \in 0..MaxCalls /\ MaxCalls \in Nat /\ MaxAttempts \in Nat
  BY AccountConstants DEF AccInv, RowsTyped, AccountScene
<1> QED
  BY <1>1 DEF AccInv, RowsTyped, AccountLog

\* Threads that hold a code, when one thread does not.
LEMMA OneFewer ==
    ASSUME NEW S \in SUBSET Handlers
    PROVE  /\ IsFiniteSet(S) /\ Cardinality(S) \in Nat /\ Cardinality(Handlers) \in Nat \ {0}
           /\ Cardinality(S) <= Cardinality(Handlers)
           /\ (\E h \in Handlers : h \notin S) => Cardinality(S) <= Cardinality(Handlers) - 1
<1>1. IsFiniteSet(Handlers) /\ Cardinality(Handlers) \in Nat /\ Cardinality(Handlers) # 0
  BY AccountConstants, FS_CardinalityType, FS_EmptySet
<1>2. IsFiniteSet(S) /\ Cardinality(S) \in Nat /\ Cardinality(S) <= Cardinality(Handlers)
  BY <1>1, FS_Subset, FS_CardinalityType
<1>3. ASSUME NEW h \in Handlers, h \notin S PROVE Cardinality(S) <= Cardinality(Handlers) - 1
  <2>1. S \in SUBSET (Handlers \ {h})
    BY <1>3
  <2>2. IsFiniteSet(Handlers \ {h}) /\ Cardinality(Handlers \ {h}) = Cardinality(Handlers) - 1
    BY <1>1, <1>3, FS_RemoveElement
  <2> QED
    BY <2>1, <2>2, FS_Subset
<1> QED
  BY <1>1, <1>2, <1>3

LEMMA HoldingFits == \A c : Holding(c) \in SUBSET Handlers
  BY DEF Holding

\* Threads, sessions and administrators when a thread works on a code.
LEMMA CodeThread ==
    ASSUME AccInv, NEW h \in Handlers, NEW r \in ReqRow, r.pc # "idle" => r.user \in Users,
           req' = [req EXCEPT ![h] = r], UNCHANGED <<uscene, user, live, spent>>,
           r.pc \in {"idle", "count", "drop", "signin"}, r.pc = "signin" => r.chain = 0,
           code' \in [Users -> CodeRow], ulog' \in AccountLog, ulog'.calls <= uscene.max, ulog'.codes <= ulog'.calls,
           ulog'.tokens = ulog.tokens, ulog'.out = ulog.out, ulog'.raced = ulog.raced,
           ulog.overlapped => ulog'.overlapped, ulog.edited => ulog'.edited
    PROVE  RowsTyped' /\ Sessions' /\ AdminKept'
<1>1. RowsTyped'
  BY ThreadMoves DEF AccInv, RowsTyped
<1>2. VersionsStay /\ user' \in [Users -> UserRow]
  BY DEF VersionsStay, AccInv, RowsTyped, AccountLog, Known
<1>3. ThreadFits(r) /\ ~Carries(r) /\ ~Revokes(r) /\ ~Unmakes(r)
  BY DEF ThreadFits, Carries, Revokes, Unmakes
<1>4. Sessions'
  BY <1>2, <1>3, Stays, SessionsMove DEF AccInv
<1>5. AdminKept'
  BY <1>3, KeptMoves DEF AccInv, Admins
<1> QED
  BY <1>1, <1>4, <1>5

LEMMA CodeElsewhere ==
    ASSUME AccInv, UNCHANGED <<uscene, user, live, spent, req>>,
           code' \in [Users -> CodeRow], ulog' \in AccountLog, ulog'.calls <= uscene.max, ulog'.codes <= ulog'.calls,
           ulog'.tokens = ulog.tokens, ulog'.out = ulog.out, ulog'.raced = ulog.raced,
           ulog.overlapped => ulog'.overlapped, ulog.edited => ulog'.edited
    PROVE  RowsTyped' /\ Sessions' /\ AdminKept'
<1>1. RowsTyped'
  BY DEF AccInv, RowsTyped
<1>2. VersionsStay /\ user' \in [Users -> UserRow]
  BY DEF VersionsStay, AccInv, RowsTyped, AccountLog, Known
<1>3. Sessions'
  BY <1>2, SessionsSame DEF AccInv
<1>4. AdminKept'
  BY KeptSame DEF AccInv, Admins
<1> QED
  BY <1>1, <1>3, <1>4

\* Another code, or none, takes the place of the code of a user: the threads
\* that hold the code that is gone may compare it once more each.
LEMMA OldCodesHold ==
    ASSUME AccInv, NEW u \in Users, NEW e \in CodeRow, code' = [code EXCEPT ![u] = e],
           e.mac = 0 \/ e.mac = ulog.codes + 1, ulog'.guesses = ulog.guesses,
           \A c \in 1..ulog.codes : Holding(c)' = Holding(c),
           code[u].mac # 0 /\ MaxAttempts > 0 =>
               ulog.guesses[code[u].mac] + Cardinality(Holding(code[u].mac)) <= GuessBound,
           NEW c \in 1..ulog.codes
    PROVE  /\ MaxAttempts = 0 => ulog'.guesses[c] = 0
           /\ Current(c)' => ulog'.guesses[c] <= MaxAttempts
           /\ ~Current(c)' /\ MaxAttempts > 0 => ulog'.guesses[c] + Cardinality(Holding(c)') <= GuessBound
<1>1. c \in 0..MaxCalls /\ c # 0 /\ c # ulog.codes + 1
  BY LogOf
<1>2. Compared(c)
  BY <1>1 DEF AccInv, Guessed
<1>3. code'[u] = e /\ \A v \in Users : v # u => code'[v] = code[v]
  BY DEF AccInv, RowsTyped
<1>4. e.mac # c
  BY <1>1
<1>5. Current(c)' => Current(c)
  BY <1>3, <1>4 DEF Current
<1>6. CASE code[u].mac = c
  <2>1. ~Current(c)'
    BY <1>1, <1>3, <1>4, <1>6 DEF Current, AccInv, Guessed, CodesCounted
  <2>2. ulog'.guesses[c] + Cardinality(Holding(c)') <= GuessBound \/ ~(MaxAttempts > 0)
    BY <1>1, <1>6
  <2> QED
    BY <1>2, <2>1, <2>2 DEF Compared
<1>7. CASE code[u].mac # c
  <2>1. Current(c) => Current(c)'
    BY <1>3, <1>7 DEF Current
  <2> QED
    BY <1>2, <1>5, <2>1 DEF Compared
<1> QED
  BY <1>6, <1>7

\* A thread that holds no code bears witness: the code that goes was compared
\* at most MaxAttempts times.
LEMMA GoneWithWitness ==
    ASSUME AccInv, NEW u \in Users, code[u].mac # 0, NEW h \in Handlers, req[h].pc # "count"
    PROVE  ulog.guesses[code[u].mac] + Cardinality(Holding(code[u].mac)) <= GuessBound
<1> DEFINE c == code[u].mac
<1>1. c \in 1..ulog.codes /\ c \in 0..MaxCalls
  BY LogOf DEF AccInv, Guessed, CodesCounted
<1>2. ulog.guesses[c] <= MaxAttempts /\ ulog.guesses[c] \in Nat
  BY <1>1, LogOf DEF AccInv, Guessed, Compared, Current
<1>3. h \notin Holding(c)
  BY DEF Holding, Holds
<1>4. Cardinality(Holding(c)) <= Cardinality(Handlers) - 1 /\ Cardinality(Holding(c)) \in Nat
      /\ Cardinality(Handlers) \in Nat
  BY <1>3, OneFewer, HoldingFits
<1> HIDE DEF c
<1> QED
  BY <1>2, <1>4, LogOf DEF GuessBound, c

LEMMA RequestHolds ==
    ASSUME AccInv, NEW h \in Handlers, NEW u \in Users, RequestCode(h, u)
    PROVE  AccInv'
<1>1. /\ UNCHANGED <<uscene, user, live, spent, req>> /\ req[h].pc = "idle" /\ ulog.calls < uscene.max
      /\ Issue(u)
  BY DEF RequestCode, Called, At
<1>2. /\ More \in AccountLog /\ More.calls <= uscene.max /\ More.codes <= More.calls /\ More.codes + 1 <= More.calls
      /\ More.tokens = ulog.tokens /\ More.codes = ulog.codes /\ More.guesses = ulog.guesses
      /\ More.out = ulog.out /\ More.raced = ulog.raced /\ More.calls \in 0..MaxCalls
      /\ (More.overlapped <=> ulog.overlapped) /\ (More.edited <=> ulog.edited)
  BY <1>1, CallIsCounted DEF AccInv
<1>3. CASE ulog' = More /\ UNCHANGED code
  <2>1. code' \in [Users -> CodeRow]
    BY <1>3 DEF AccInv, RowsTyped
  <2> QED
    BY <1>1, <1>2, <1>3, <2>1, CodeElsewhere, GuessedSame DEF AccInv
<1>4. CASE /\ code' = [code EXCEPT ![u] = [mac |-> ulog.codes + 1, attempts |-> 0]]
           /\ ulog' = [More EXCEPT !.codes = @ + 1]
  <2> DEFINE n == ulog.codes + 1
             e == [mac |-> n, attempts |-> 0]
  <2>1. n \in Nat /\ n \in 1..MaxCalls /\ n = ulog.codes + 1
    BY <1>2, LogOf
  <2>2. e \in CodeRow /\ e.mac = n /\ e.attempts = 0
    BY <2>1 DEF CodeRow
  <2>3. /\ ulog' \in AccountLog /\ ulog'.calls = More.calls /\ ulog'.codes = n /\ ulog'.guesses = ulog.guesses
        /\ ulog'.tokens = ulog.tokens /\ ulog'.out = ulog.out /\ ulog'.raced = ulog.raced
        /\ (ulog.overlapped => ulog'.overlapped) /\ (ulog.edited => ulog'.edited)
    <3> HIDE DEF More
    <3> QED
      BY <1>2, <1>4, <2>1 DEF AccountLog
  <2> HIDE DEF e, n
  <2>4. /\ code' = [code EXCEPT ![u] = e] /\ code' \in [Users -> CodeRow] /\ code'[u] = e
        /\ \A v \in Users : v # u => code'[v] = code[v]
    BY <1>4, <2>2 DEF AccInv, RowsTyped, e, n
  <2>5. RowsTyped' /\ Sessions' /\ AdminKept'
    BY <1>1, <1>2, <2>1, <2>3, <2>4, CodeElsewhere
  <2>6. \A v \in Users : code[v].mac # n
    BY <2>1, LogOf DEF AccInv, Guessed, CodesCounted
  <2>7. ASSUME NEW g \in Handlers PROVE OwnCode(req[g])'
    <3>1. req'[g] = req[g] /\ OwnCode(req[g])
      BY <1>1 DEF AccInv, Guessed
    <3>2. CASE req[g].pc # "count"
      BY <3>1, <3>2 DEF OwnCode
    <3>3. CASE req[g].pc = "count"
      <4>1. req[g].mac \in 1..ulog.codes /\ req[g].mac # n /\ req[g].mac \in 1..ulog'.codes
        BY <2>1, <2>3, <3>1, <3>3, LogOf DEF OwnCode
      <4>2. \A v \in Users : code'[v].mac = req[g].mac => v = req[g].user
        BY <2>2, <2>4, <3>1, <3>3, <4>1 DEF OwnCode
      <4> QED
        BY <3>1, <4>1, <4>2 DEF OwnCode
    <3> QED
      BY <3>2, <3>3
  <2>8. ASSUME NEW v \in Users PROVE CodesCounted(v)'
    <3>1. CASE v = u
      <4>1. ulog'.guesses[n] = 0
        BY <2>1, <2>3, LogOf DEF AccInv, Guessed, Compared
      <4> QED
        BY <2>1, <2>2, <2>3, <2>4, <2>6, <3>1, <4>1 DEF CodesCounted
    <3>2. CASE v # u
      <4>1. code'[v] = code[v] /\ CodesCounted(v)
        BY <2>4, <3>2 DEF AccInv, Guessed
      <4> QED
        BY <1>1, <2>1, <2>2, <2>3, <2>4, <2>6, <4>1, LogOf DEF CodesCounted
    <3> QED
      BY <3>1, <3>2
  <2>9. \A c : Holding(c)' = Holding(c)
    BY <1>1 DEF Holding
  <2>10. code[u].mac # 0 => ulog.guesses[code[u].mac] + Cardinality(Holding(code[u].mac)) <= GuessBound
    BY <1>1, GoneWithWitness
  <2>11. ASSUME NEW c \in 0..MaxCalls PROVE Compared(c)'
    <3>1. Compared(c)
      BY DEF AccInv, Guessed
    <3>2. CASE c \in 1..ulog.codes
      <4>1. /\ MaxAttempts = 0 => ulog'.guesses[c] = 0
            /\ Current(c)' => ulog'.guesses[c] <= MaxAttempts
            /\ ~Current(c)' /\ MaxAttempts > 0 => ulog'.guesses[c] + Cardinality(Holding(c)') <= GuessBound
        BY <2>1, <2>2, <2>3, <2>4, <2>9, <2>10, <3>2, OldCodesHold
      <4>2. c \in 1..ulog'.codes
        BY <2>1, <2>3, <3>2, LogOf
      <4> QED
        BY <4>1, <4>2 DEF Compared, GuessBound
    <3>3. CASE c \notin 1..ulog.codes /\ c = n
      <4>1. ulog'.guesses[c] = 0 /\ Current(c)'
        BY <2>2, <2>3, <2>4, <3>1, <3>3 DEF Compared, Current
      <4> QED
        BY <4>1, LogOf DEF Compared
    <3>4. CASE c \notin 1..ulog.codes /\ c # n
      <4>1. c \notin 1..ulog'.codes /\ ulog'.guesses[c] = 0
        BY <2>1, <2>3, <3>1, <3>4, LogOf DEF Compared
      <4> QED
        BY <4>1 DEF Compared
    <3> QED
      BY <3>2, <3>3, <3>4
  <2> QED
    BY <2>5, <2>7, <2>8, <2>11 DEF AccInv, Guessed
<1> QED
  BY <1>1, <1>3, <1>4 DEF Issue

\* The code of a user goes, and nothing takes its place.
LEMMA CodeGoes ==
    ASSUME AccInv, NEW u \in Users, code' = [code EXCEPT ![u] = NoCode], UNCHANGED ulog,
           \A g \in Handlers : req'[g].pc = "count" => req'[g] = req[g],
           \A g \in Handlers : req[g].pc = "count" => req'[g] = req[g],
           \A g \in Handlers : req[g].pc = "drop" /\ req[g].user # u => req'[g] = req[g],
           code[u].mac # 0 /\ MaxAttempts > 0 =>
               ulog.guesses[code[u].mac] + Cardinality(Holding(code[u].mac)) <= GuessBound
    PROVE  Guessed' /\ code' \in [Users -> CodeRow]
<1>1. NoCode \in CodeRow /\ NoCode.mac = 0
  BY DEF NoCode, CodeRow
<1>2. code' \in [Users -> CodeRow] /\ code'[u] = NoCode /\ \A v \in Users : v # u => code'[v] = code[v]
  BY <1>1 DEF AccInv, RowsTyped
<1>3. ASSUME NEW g \in Handlers PROVE OwnCode(req[g])'
  <2>1. CASE req'[g].pc # "count"
    BY <2>1 DEF OwnCode
  <2>2. CASE req'[g].pc = "count"
    <3>1. req'[g] = req[g] /\ OwnCode(req[g]) /\ req[g].pc = "count"
      BY <2>2 DEF AccInv, Guessed
    <3>2. req[g].mac # 0
      BY <3>1, LogOf DEF OwnCode
    <3> QED
      BY <1>1, <1>2, <3>1, <3>2 DEF OwnCode
  <2> QED
    BY <2>1, <2>2
<1>4. ASSUME NEW v \in Users PROVE CodesCounted(v)'
  <2>1. CASE v = u
    BY <1>1, <1>2, <2>1 DEF CodesCounted
  <2>2. CASE v # u
    <3>1. code'[v] = code[v] /\ CodesCounted(v)
      BY <1>2, <2>2 DEF AccInv, Guessed
    <3>2. ASSUME NEW g \in Handlers, req[g].pc = "drop" /\ req[g].user = v
          PROVE  req'[g].pc = "drop" /\ req'[g].user = v
      BY <2>2, <3>2
    <3> QED
      BY <1>1, <1>2, <3>1, <3>2 DEF CodesCounted
  <2> QED
    BY <2>1, <2>2
<1>5. \A c : Holding(c)' = Holding(c)
  BY DEF Holding, Holds
<1>6. ASSUME NEW c \in 0..MaxCalls PROVE Compared(c)'
  <2>1. Compared(c)
    BY DEF AccInv, Guessed
  <2>2. CASE c \in 1..ulog.codes
    <3>1. /\ MaxAttempts = 0 => ulog'.guesses[c] = 0
          /\ Current(c)' => ulog'.guesses[c] <= MaxAttempts
          /\ ~Current(c)' /\ MaxAttempts > 0 => ulog'.guesses[c] + Cardinality(Holding(c)') <= GuessBound
      BY <1>1, <1>5, <2>2, OldCodesHold
    <3> QED
      BY <2>2, <3>1 DEF Compared, GuessBound
  <2>3. CASE c \notin 1..ulog.codes
    BY <2>1, <2>3 DEF Compared
  <2> QED
    BY <2>2, <2>3
<1> QED
  BY <1>2, <1>3, <1>4, <1>6 DEF Guessed

\* If every thread holds the code that expires, none is about to drop it: it
\* was not compared as often as it may be.
LEMMA CodeExpiresHolds == ASSUME AccInv, NEW u \in Users, CodeExpires(u) PROVE AccInv'
<1>1. /\ code[u].mac # 0 /\ code' = [code EXCEPT ![u] = NoCode]
      /\ UNCHANGED <<uscene, user, live, spent, req, ulog>>
  BY DEF CodeExpires
<1> DEFINE c == code[u].mac
<1>2. ASSUME MaxAttempts > 0
      PROVE  ulog.guesses[c] + Cardinality(Holding(c)) <= GuessBound
  <2>1. CASE \E h \in Handlers : req[h].pc # "count"
    BY <1>1, <2>1, GoneWithWitness
  <2>2. CASE \A h \in Handlers : req[h].pc = "count"
    <3>1. c \in 1..ulog.codes /\ c \in 0..MaxCalls /\ code[u].attempts \in Nat
      BY <1>1, LogOf DEF AccInv, RowsTyped, CodeRow, Guessed, CodesCounted
    <3>2. /\ ulog.guesses[c] <= code[u].attempts /\ ulog.guesses[c] \in Nat
          /\ ~(code[u].attempts >= MaxAttempts /\ code[u].attempts > 0)
      BY <1>1, <2>2, <3>1, LogOf DEF AccInv, Guessed, CodesCounted
    <3>3. ulog.guesses[c] <= MaxAttempts - 1
      BY <1>2, <3>1, <3>2, LogOf
    <3>4. Cardinality(Holding(c)) <= Cardinality(Handlers) /\ Cardinality(Holding(c)) \in Nat
          /\ Cardinality(Handlers) \in Nat
      BY OneFewer, HoldingFits
    <3> HIDE DEF c
    <3> QED
      BY <3>2, <3>3, <3>4, LogOf DEF GuessBound
  <2> QED
    BY <2>1, <2>2
<1>3. Guessed' /\ code' \in [Users -> CodeRow]
  BY <1>1, <1>2, CodeGoes
<1>4. RowsTyped' /\ Sessions' /\ AdminKept'
  BY <1>1, <1>3, CodeElsewhere DEF AccInv, RowsTyped
<1> QED
  BY <1>3, <1>4 DEF AccInv

LEMMA DropsHolds == ASSUME AccInv, NEW h \in Handlers, VerifyDrops(h) PROVE AccInv'
<1> DEFINE u == req[h].user
           s == [Free EXCEPT !.pc = "signin", !.user = u]
           r == IF req[h].op = "ok" THEN s ELSE Free
<1>1. /\ req[h].pc = "drop" /\ code' = [code EXCEPT ![u] = NoCode] /\ req' = [req EXCEPT ![h] = r]
      /\ UNCHANGED <<uscene, user, live, spent, ulog>>
  BY DEF VerifyDrops, At, Step
<1>2. u \in Users
  BY <1>1, ThreadRow DEF AccInv
<1>3. s \in ReqRow /\ s.pc = "signin" /\ s.user = u /\ s.chain = 0
  <2> HIDE DEF u
  <2> QED
    BY <1>2, FreeRow DEF ReqRow, Pcs, Someone
<1>4. /\ r \in ReqRow /\ r.pc \in {"idle", "signin"} /\ (r.pc # "idle" => r.user \in Users) /\ r.chain = 0
  <2> HIDE DEF s, u
  <2> QED
    BY <1>2, <1>3, FreeRow
<1> HIDE DEF r
<1>5. req'[h] = r /\ \A g \in Handlers : g # h => req'[g] = req[g]
  BY <1>1, <1>4, ThreadMoves DEF AccInv
<1>6. /\ \A g \in Handlers : req'[g].pc = "count" => req'[g] = req[g]
      /\ \A g \in Handlers : req[g].pc = "count" => req'[g] = req[g]
      /\ \A g \in Handlers : req[g].pc = "drop" /\ req[g].user # u => req'[g] = req[g]
  BY <1>1, <1>4, <1>5
<1>7. code[u].mac # 0 => ulog.guesses[code[u].mac] + Cardinality(Holding(code[u].mac)) <= GuessBound
  BY <1>1, <1>2, GoneWithWitness
<1> HIDE DEF u
<1>8. Guessed' /\ code' \in [Users -> CodeRow]
  BY <1>1, <1>2, <1>6, <1>7, CodeGoes
<1>9. RowsTyped' /\ Sessions' /\ AdminKept'
  BY <1>1, <1>4, <1>8, CodeThread DEF AccInv, RowsTyped
<1> QED
  BY <1>8, <1>9 DEF AccInv

LEMMA ReadsHolds ==
    ASSUME AccInv, NEW h \in Handlers, NEW u \in Users, NEW guess \in {0, code[u].mac}, VerifyReads(h, u, guess)
    PROVE  AccInv'
<1> DEFINE c == code[u].mac
           r == [Free EXCEPT !.pc = "count", !.user = u, !.mac = c, !.guess = guess]
<1>1. /\ req[h].pc = "idle" /\ ulog' = More /\ ulog.calls < uscene.max
      /\ UNCHANGED <<uscene, user, live, spent, code>>
      /\ \/ c = 0 /\ UNCHANGED req
         \/ c # 0 /\ req' = [req EXCEPT ![h] = r]
  BY DEF VerifyReads, Call, Called, At, Step
<1>2. CASE UNCHANGED req
  BY <1>1, <1>2, ElsewhereHolds
<1>3. CASE c # 0 /\ req' = [req EXCEPT ![h] = r]
  <2>1. c \in Nat /\ guess \in Nat
    BY DEF AccInv, RowsTyped, CodeRow
  <2>2. c \in 1..ulog.codes /\ \A v \in Users : code[v].mac = c => v = u
    BY <1>3 DEF AccInv, Guessed, CodesCounted
  <2> HIDE DEF c
  <2>3. r \in ReqRow /\ r.pc = "count" /\ r.user = u /\ r.mac = c
    BY <2>1, FreeRow DEF ReqRow, Pcs, Someone
  <2>4. /\ ulog' \in AccountLog /\ ulog'.calls <= uscene.max /\ ulog'.codes <= ulog'.calls
        /\ ulog'.tokens = ulog.tokens /\ ulog'.codes = ulog.codes /\ ulog'.guesses = ulog.guesses
        /\ ulog'.out = ulog.out /\ ulog'.raced = ulog.raced
        /\ (ulog.overlapped => ulog'.overlapped) /\ (ulog.edited => ulog'.edited)
    BY <1>1, CallIsCounted DEF AccInv
  <2> HIDE DEF r
  <2>5. req'[h] = r /\ \A g \in Handlers : g # h => req'[g] = req[g]
    BY <1>3, <2>3, ThreadMoves DEF AccInv
  <2>6. RowsTyped' /\ Sessions' /\ AdminKept'
    BY <1>1, <1>3, <2>3, <2>4, CodeThread DEF AccInv, RowsTyped
  <2>7. ASSUME NEW g \in Handlers PROVE OwnCode(req[g])'
    <3>1. CASE g = h
      BY <1>1, <2>2, <2>3, <2>4, <2>5, <3>1 DEF OwnCode
    <3>2. CASE g # h
      BY <1>1, <2>4, <2>5, <3>2 DEF AccInv, Guessed, OwnCode
    <3> QED
      BY <3>1, <3>2
  <2>8. ASSUME NEW v \in Users PROVE CodesCounted(v)'
    <3>1. CodesCounted(v)
      BY DEF AccInv, Guessed
    <3>2. ASSUME NEW g \in Handlers, req[g].pc = "drop" /\ req[g].user = v
          PROVE  req'[g].pc = "drop" /\ req'[g].user = v
      BY <1>1, <2>5, <3>2
    <3> QED
      BY <1>1, <2>4, <3>1, <3>2 DEF CodesCounted
  <2>9. ASSUME NEW d \in 0..MaxCalls PROVE Compared(d)'
    <3>1. Compared(d) /\ (Current(d)' <=> Current(d)) /\ Current(c)
      BY <1>1 DEF AccInv, Guessed, Current, c
    <3>2. CASE d = c
      BY <2>4, <3>1, <3>2 DEF Compared
    <3>3. CASE d # c
      <4>1. Holding(d)' = Holding(d)
        BY <1>1, <2>3, <2>5, <3>3 DEF Holding, Holds
      <4> QED
        BY <2>4, <3>1, <4>1 DEF Compared, GuessBound
    <3> QED
      BY <3>2, <3>3
  <2> QED
    BY <2>6, <2>7, <2>8, <2>9 DEF AccInv, Guessed
<1> QED
  BY <1>1, <1>2, <1>3

LEMMA CountsHolds == ASSUME AccInv, NEW h \in Handlers, VerifyCounts(h) PROVE AccInv'
<1> DEFINE r0 == req[h]
           u == r0.user
           c == r0.mac
           a == code[u].attempts + 1
           right == a <= MaxAttempts /\ r0.guess = c
           op == IF right THEN "ok" ELSE "locked"
           d0 == [r0 EXCEPT !.pc = "drop", !.op = op]
           r == IF right \/ a >= MaxAttempts THEN d0 ELSE Free
           e == [code[u] EXCEPT !.attempts = a]
           more == [ulog.guesses EXCEPT ![c] = @ + 1]
<1>1. /\ r0.pc = "count" /\ UNCHANGED <<uscene, user, live, spent>>
      /\ code' = [code EXCEPT ![u].attempts = a] /\ req' = [req EXCEPT ![h] = r]
      /\ ulog' = IF a <= MaxAttempts THEN [ulog EXCEPT !.guesses = more] ELSE ulog
  BY DEF VerifyCounts, At, Step
<1>2. /\ r0 \in ReqRow /\ u \in Users /\ OwnCode(r0) /\ code[u] \in CodeRow /\ code[u].attempts \in Nat
      /\ code[u].mac \in Nat /\ code \in [Users -> CodeRow]
  BY <1>1, ThreadRow DEF AccInv, RowsTyped, CodeRow, Guessed
<1>3. /\ c \in 1..ulog.codes /\ c \in 0..MaxCalls /\ c # 0
      /\ \A v \in Users : code[v].mac = c => v = u
  BY <1>1, <1>2, LogOf DEF OwnCode
<1>4. code' = [code EXCEPT ![u] = e] /\ e \in CodeRow /\ e.mac = code[u].mac /\ e.attempts = a
      /\ a \in Nat /\ a > 0 /\ a = code[u].attempts + 1
  BY <1>1, <1>2 DEF CodeRow
<1>5. /\ d0 \in ReqRow /\ d0.pc = "drop" /\ d0.user = u
  <2>1. op \in Ops
    BY DEF Ops
  <2> HIDE DEF op
  <2> QED
    BY <1>2, <2>1 DEF ReqRow, Pcs
<1>6. /\ r \in ReqRow /\ r.pc \in {"drop", "idle"} /\ (r.pc = "drop" => r.user = u)
      /\ (a >= MaxAttempts => r.pc = "drop")
  <2> HIDE DEF d0, right, a
  <2> QED
    BY <1>5, FreeRow
<1> HIDE DEF r, e, a, u, c
<1>7. req'[h] = r /\ \A g \in Handlers : g # h => req'[g] = req[g]
  BY <1>1, <1>2, <1>6, ThreadMoves DEF AccInv
<1>8. /\ code' \in [Users -> CodeRow] /\ code'[u] = e /\ \A v \in Users : v # u => code'[v] = code[v]
  BY <1>2, <1>4
<1>9. /\ more \in [0..MaxCalls -> Nat] /\ more[c] = ulog.guesses[c] + 1
      /\ \A d \in 0..MaxCalls : d # c => more[d] = ulog.guesses[d]
  BY <1>3, LogOf
<1> HIDE DEF more
<1>10. /\ ulog' \in AccountLog /\ ulog'.calls = ulog.calls /\ ulog'.codes = ulog.codes /\ ulog'.tokens = ulog.tokens
       /\ ulog'.out = ulog.out /\ ulog'.raced = ulog.raced
       /\ (ulog.overlapped => ulog'.overlapped) /\ (ulog.edited => ulog'.edited)
       /\ ulog'.guesses = IF a <= MaxAttempts THEN more ELSE ulog.guesses
  BY <1>1, <1>9, LogOf DEF AccountLog
<1>11. RowsTyped' /\ Sessions' /\ AdminKept'
  BY <1>1, <1>2, <1>6, <1>8, <1>10, LogOf, CodeThread DEF AccInv, RowsTyped
<1>12. \A v \in Users : code'[v].mac = code[v].mac
  BY <1>4, <1>8
<1>13. ASSUME NEW g \in Handlers PROVE OwnCode(req[g])'
  <2>1. CASE g = h
    BY <1>6, <1>7, <2>1 DEF OwnCode
  <2>2. CASE g # h
    BY <1>7, <1>10, <1>12, <2>2 DEF AccInv, Guessed, OwnCode
  <2> QED
    BY <2>1, <2>2
<1>14. ASSUME NEW v \in Users PROVE CodesCounted(v)'
  <2>1. CodesCounted(v) /\ code'[v].mac = code[v].mac /\ code[v].attempts \in Nat
    BY <1>12 DEF AccInv, RowsTyped, CodeRow, Guessed
  <2>2. CASE code[v].mac = 0
    BY <2>1, <2>2 DEF CodesCounted
  <2>3. CASE code[v].mac # 0 /\ v # u
    <3>1. code[v].mac # c /\ code[v].mac \in 0..MaxCalls /\ code'[v] = code[v]
      BY <1>3, <1>8, <2>1, <2>3, LogOf DEF CodesCounted
    <3>2. ulog'.guesses[code[v].mac] = ulog.guesses[code[v].mac]
      BY <1>9, <1>10, <3>1
    <3>3. ASSUME NEW g \in Handlers, req[g].pc = "drop" /\ req[g].user = v
          PROVE  req'[g].pc = "drop" /\ req'[g].user = v
      BY <1>1, <1>7, <3>3
    <3> QED
      BY <1>10, <1>12, <2>1, <3>1, <3>2, <3>3 DEF CodesCounted
  <2>4. CASE code[v].mac # 0 /\ v = u
    <3>1. code[v].mac \in 0..MaxCalls /\ ulog.guesses[code[v].mac] \in Nat
      BY <2>1, <2>4, LogOf DEF CodesCounted
    <3>2. ulog'.guesses[code[v].mac] <= ulog.guesses[code[v].mac] + 1
      BY <1>9, <1>10, <3>1
    <3>3. ulog'.guesses[code'[v].mac] <= code'[v].attempts
      <4>1. code'[v].mac = code[v].mac /\ code'[v].attempts = code[v].attempts + 1
        BY <1>4, <1>8, <2>4
      <4>2. ulog.guesses[code[v].mac] <= code[v].attempts
        BY <2>1, <2>4 DEF CodesCounted
      <4>3. ulog'.guesses[code[v].mac] \in Nat
        BY <1>9, <1>10, <3>1
      <4> QED
        BY <2>1, <3>1, <3>2, <4>1, <4>2, <4>3
    <3>4. code'[v].attempts >= MaxAttempts => req'[h].pc = "drop" /\ req'[h].user = v
      BY <1>4, <1>6, <1>7, <1>8, <2>4
    <3> QED
      BY <1>10, <1>12, <2>1, <2>4, <3>3, <3>4 DEF CodesCounted
  <2> QED
    BY <2>2, <2>3, <2>4
<1>15. ASSUME NEW d \in 0..MaxCalls PROVE Compared(d)'
  <2>1. Compared(d) /\ (Current(d)' <=> Current(d)) /\ ulog.guesses[d] \in Nat
    BY <1>12, LogOf DEF AccInv, Guessed, Current
  <2>2. CASE d # c
    <3>1. Holding(d)' = Holding(d)
      BY <1>1, <1>6, <1>7, <2>2 DEF Holding, Holds, c
    <3>2. ulog'.guesses[d] = ulog.guesses[d]
      BY <1>9, <1>10, <2>2
    <3> QED
      BY <1>10, <2>1, <3>1, <3>2 DEF Compared, GuessBound
  <2>3. CASE d = c
    <3>1. MaxAttempts = 0 => ulog'.guesses[d] = 0
      BY <1>4, <1>10, <2>1, <2>3, LogOf DEF Compared
    <3>2. CASE Current(c)
      <4>1. code[u].mac = c /\ CodesCounted(u)
        BY <1>2, <1>3, <3>2 DEF Current, AccInv, Guessed
      <4>2. ulog.guesses[c] <= code[u].attempts /\ ulog.guesses[c] <= MaxAttempts
        BY <1>3, <2>1, <2>3, <3>2, <4>1 DEF CodesCounted, Compared
      <4>3. ulog'.guesses[d] <= MaxAttempts
        BY <1>2, <1>4, <1>9, <1>10, <2>1, <2>3, <4>2, LogOf
      <4> QED
        BY <1>3, <1>10, <2>1, <2>3, <3>1, <3>2, <4>3 DEF Compared
    <3>3. CASE ~Current(c)
      <4>1. h \in Holding(d) /\ Holding(d)' = Holding(d) \ {h}
        BY <1>1, <1>6, <1>7, <2>3 DEF Holding, Holds, c
      <4>2. IsFiniteSet(Holding(d)) /\ Cardinality(Holding(d)) \in Nat
        BY OneFewer, HoldingFits
      <4>3. Cardinality(Holding(d)') = Cardinality(Holding(d)) - 1
        BY <4>1, <4>2, FS_RemoveElement
      <4>4. ulog'.guesses[d] <= ulog.guesses[d] + 1 /\ ulog'.guesses[d] \in Nat
        BY <1>9, <1>10, <2>1, <2>3
      <4>5. MaxAttempts > 0 => ulog.guesses[d] + Cardinality(Holding(d)) <= GuessBound
        BY <1>3, <2>1, <2>3, <3>3 DEF Compared
      <4>6. Cardinality(Handlers) \in Nat
        BY OneFewer
      <4>7. MaxAttempts > 0 => ulog'.guesses[d] + Cardinality(Holding(d)') <= GuessBound
        BY <2>1, <4>2, <4>3, <4>4, <4>5, <4>6, LogOf DEF GuessBound
      <4> QED
        BY <1>3, <1>10, <2>1, <2>3, <3>1, <3>3, <4>7 DEF Compared, GuessBound
    <3> QED
      BY <3>2, <3>3
  <2> QED
    BY <2>2, <2>3
<1> QED
  BY <1>11, <1>13, <1>14, <1>15 DEF AccInv, Guessed

----------------------------------------------------------------------------
(* The theorems *)

LEMMA InitHolds == Init => AccInv
<1> SUFFICES ASSUME Init PROVE AccInv
  OBVIOUS
<1>1. uscene \in AccountScene /\ uscene \in AccountScenes /\ MaxCalls \in Nat /\ MaxAttempts \in Nat
  BY AccountConstants DEF Init
<1>2. /\ uscene.role \in [Users -> Roles] /\ uscene.max \in 0..MaxCalls
  BY <1>1 DEF AccountScene
<1>3. user \in [Users -> UserRow] /\ \A u \in Users : user[u].role = uscene.role[u] /\ user[u].sv = 0
      /\ (user[u].active <=> uscene.role[u] # "unknown")
  BY <1>2 DEF Init, UserRow
<1>4. NoCode \in CodeRow /\ NoCode.mac = 0
  BY DEF NoCode, CodeRow
<1>5. code \in [Users -> CodeRow] /\ \A u \in Users : code[u].mac = 0
  BY <1>4 DEF Init
<1>6. req \in [Handlers -> ReqRow] /\ \A h \in Handlers : req[h] = Free
  BY FreeRow DEF Init
<1>7. /\ ulog \in AccountLog /\ ulog.calls = 0 /\ ulog.tokens = 0 /\ ulog.codes = 0 /\ ulog.out = {} /\ ulog.raced = {}
      /\ \A c \in 0..MaxCalls : ulog.guesses[c] = 0
  <2> DEFINE none == [c \in 0..MaxCalls |-> 0]
  <2>1. none \in [0..MaxCalls -> Nat] /\ \A c \in 0..MaxCalls : none[c] = 0
    OBVIOUS
  <2>2. ulog = [calls |-> 0, tokens |-> 0, codes |-> 0, guesses |-> none, out |-> {}, raced |-> {},
                overlapped |-> FALSE, edited |-> FALSE]
    BY DEF Init
  <2> HIDE DEF none
  <2> QED
    BY <2>1, <2>2 DEF AccountLog
<1>8. live = {} /\ spent = {}
  BY DEF Init
<1>9. RowsTyped
  BY <1>1, <1>2, <1>3, <1>5, <1>6, <1>7, <1>8, FreeRow DEF RowsTyped
<1>10. Guessed
  <2>1. \A h \in Handlers : OwnCode(req[h])
    BY <1>6, FreeRow DEF OwnCode
  <2>2. \A u \in Users : CodesCounted(u)
    BY <1>5 DEF CodesCounted
  <2>3. \A c \in 0..MaxCalls : Compared(c)
    BY <1>7 DEF Compared
  <2> QED
    BY <2>1, <2>2, <2>3 DEF Guessed
<1>11. Sessions
  BY <1>3, <1>6, <1>7, <1>8, FreeRow DEF Sessions, Carries, Revokes, Known
<1>12. AdminKept
  BY <1>3, <1>6, FreeRow DEF AdminKept, Remain, Leaves, Unmakes, Admins
<1> QED
  BY <1>9, <1>10, <1>11, <1>12 DEF AccInv

LEMMA ThreadHolds == ASSUME AccInv, NEW h \in Handlers, Thread(h) PROVE AccInv'
  BY CountsHolds, DropsHolds, SignInStepHolds, SessionStartHolds, RotateMarksHolds, ReusedHolds, AdminLoadsHolds,
     AdminWritesHolds, UseCountsHolds DEF Thread

LEMMA LogoutHolds == ASSUME AccInv, NEW h \in Handlers, NEW t, Logout(h, t) PROVE AccInv'
  BY ElsewhereHolds DEF Logout, Call, Called

LEMMA GrantsHold ==
    ASSUME AccInv, NEW h \in Handlers,
           (\E f \in DOMAIN flags : SetFlag(h, f)) \/ (\E a, u, e : SetEntitlement(h, a, u, e))
    PROVE  AccInv'
<1>1. UNCHANGED <<uscene, req, code, spent, user, live>> /\ ulog' = More /\ ulog.calls < uscene.max
  BY DEF SetFlag, SetEntitlement, Call, Called
<1> QED
  BY <1>1, ElsewhereHolds

LEMMA AskedHolds == ASSUME AccInv, NEW h \in Handlers, Asked(h) PROVE AccInv'
<1>1. ASSUME NEW u \in uscene.who,
             RequestCode(h, u) \/ GoogleSignIn(h, u) \/ Login(h, u) \/ Register(h, u) \/ UseReads(h, u)
      PROVE  AccInv'
  BY <1>1, Stays, RequestHolds, GoogleHolds, LoginHolds, RegisterHolds, UseReadsHolds
<1>2. ASSUME NEW u \in uscene.who, NEW guess \in {0, code[u].mac}, VerifyReads(h, u, guess) PROVE AccInv'
  BY <1>2, Stays, ReadsHolds
<1>3. ASSUME NEW u \in uscene.who, NEW a \in Users, CreateUser(h, a, u) PROVE AccInv'
  BY <1>3, Stays, CreateHolds
<1>4. ASSUME NEW u \in uscene.who, NEW a \in Users,
             NEW op \in {"disable", "enable", "reset", "promote", "demote"}, AdminCalls(h, a, u, op)
      PROVE  AccInv'
  BY <1>4, Stays, AdminCallsHolds DEF Ops
<1>5. ASSUME NEW t \in 1..ulog.tokens, Rotate(h, t) \/ Logout(h, t) PROVE AccInv'
  BY <1>5, RotateHolds, LogoutHolds
<1> QED
  BY <1>1, <1>2, <1>3, <1>4, <1>5, GrantsHold DEF Asked

LEMMA AccountStepHolds == ASSUME AccInv, Next PROVE AccInv'
<1>1. ASSUME NEW u \in Users, CooldownEnds(u) \/ OverrideExpires(u) PROVE AccInv'
  BY <1>1, ElsewhereHolds DEF CooldownEnds, OverrideExpires
<1> QED
  BY <1>1, ThreadHolds, AskedHolds, CodeExpiresHolds, AuthorizeHolds, HandEditHolds DEF Next

LEMMA AccountsAreKept == Spec => []AccInv
<1>1. AccInv /\ [Next]_uvars => AccInv'
  <2>1. ASSUME AccInv, UNCHANGED uvars PROVE AccInv'
    BY <2>1, ElsewhereHolds DEF uvars
  <2> QED
    BY <2>1, AccountStepHolds
<1> QED
  BY InitHolds, <1>1, PTL DEF Spec

LEMMA GuessesAreBounded == ASSUME AccInv PROVE GuessesBounded
<1> SUFFICES ASSUME NEW c \in DOMAIN ulog.guesses PROVE ulog.guesses[c] <= GuessBound
  BY DEF GuessesBounded, GuessBound
<1>1. c \in 0..MaxCalls /\ ulog.guesses[c] \in Nat /\ Compared(c)
  BY LogOf DEF AccInv, Guessed
<1>2. /\ Cardinality(Handlers) \in Nat \ {0} /\ Cardinality(Holding(c)) \in Nat
  BY OneFewer, HoldingFits
<1>3. CASE c \notin 1..ulog.codes \/ MaxAttempts = 0
  BY <1>1, <1>2, <1>3, LogOf DEF Compared, GuessBound
<1>4. CASE c \in 1..ulog.codes /\ Current(c)
  BY <1>1, <1>2, <1>4, LogOf DEF Compared, GuessBound
<1>5. CASE c \in 1..ulog.codes /\ ~Current(c) /\ MaxAttempts > 0
  BY <1>1, <1>2, <1>5, LogOf DEF Compared, GuessBound
<1> QED
  BY <1>3, <1>4, <1>5, LogOf

\* SignInHolds for any number of users, threads, codes and tokens: a code is
\* compared so many times (otp.py:8), a session has one token (sessions.py:11),
\* and one that was revoked is not refreshed (sessions.py:18).
THEOREM SignInIsSafe == Spec => []SignInHolds
<1>1. AccInv => OneTokenPerSession
  BY DEF AccInv, Sessions, OneTokenPerSession, Carries, At
<1>2. AccInv => RevokedStayOut
  BY DEF AccInv, Sessions, TokenFits, Older, RevokedStayOut
<1>3. AccInv => SignInHolds
  BY <1>1, <1>2, GuessesAreBounded DEF SignInHolds
<1> QED
  BY <1>3, AccountsAreKept, PTL

\* SomeAdmin for any users, owners, teams and edits: the console does not lock
\* itself out unless two edits of administrators overlap (user_admin.py:8).
THEOREM AnAdminRemains == Spec => []SomeAdmin
<1>1. AccInv => SomeAdmin
  BY DEF AccInv, AdminKept, Remain, SomeAdmin
<1> QED
  BY <1>1, AccountsAreKept, PTL

----------------------------------------------------------------------------
(***************************************************************************)
(* Types.  A version counts revocations that were asked for: threads that   *)
(* have still to make theirs (Pending) are counted with those that did.  A  *)
(* token that was used is no live one, because a thread that notes a token  *)
(* as used took it from the live ones before.                               *)
(***************************************************************************)

Deciding(r) == r.pc \in {"reused", "check", "write"}
Deciders == {h \in Handlers : Deciding(req[h])}
Pending == Cardinality(Deciders)

Mailed ==
    /\ mailer \in [Users -> [count : Nat, cooling : BOOLEAN]]
    /\ \A u \in Users : mailer[u].count <= ulog.calls

\* A version is of a call that was made, and so is one that is still to be.
Tallied ==
    /\ \A u \in Users : user[u].sv + Pending <= ulog.calls
    /\ \A h \in Handlers : At(h, "write") => req[h].sv + Pending <= ulog.calls

\* A token that was used, or that a thread notes as used, is no live one.
Borne ==
    /\ \A t \in live : t.chain <= t.id /\ \A x \in spent : x.id # t.id
    /\ \A x \in spent : x.id \in 1..ulog.tokens
    /\ \A h \in Handlers : At(h, "mark") => /\ req[h].token \in 1..ulog.tokens
                                            /\ \A t \in live : t.id # req[h].token

RowsInv == AccInv /\ Mailed /\ Tallied /\ Borne

LEMMA PendingIs == IsFiniteSet(Deciders) /\ Pending \in Nat
<1>1. IsFiniteSet(Handlers) /\ Deciders \subseteq Handlers
  BY AccountConstants DEF Deciders
<1> QED
  BY <1>1, FS_Subset, FS_CardinalityType DEF Pending

LEMMA PendingMoves ==
    ASSUME NEW h \in Handlers, \A g \in Handlers : g # h => req'[g] = req[g]
    PROVE  /\ Pending' \in Nat
           /\ (Deciding(req[h])' <=> Deciding(req[h])) => Pending' = Pending
           /\ Deciding(req[h])' /\ ~Deciding(req[h]) => Pending' = Pending + 1
           /\ ~Deciding(req[h])' /\ Deciding(req[h]) => Pending' = Pending - 1
<1>1. CASE Deciding(req[h])' <=> Deciding(req[h])
  <2>1. Deciders' = Deciders
    BY <1>1 DEF Deciders, Deciding
  <2> QED
    BY <1>1, <2>1, PendingIs DEF Pending
<1>2. CASE Deciding(req[h])' /\ ~Deciding(req[h])
  <2>1. Deciders' = Deciders \cup {h} /\ h \notin Deciders
    BY <1>2 DEF Deciders, Deciding
  <2>2. Cardinality(Deciders') = Cardinality(Deciders) + 1
    BY <2>1, PendingIs, FS_AddElement
  <2> QED
    BY <1>2, <2>2, PendingIs DEF Pending
<1>3. CASE ~Deciding(req[h])' /\ Deciding(req[h])
  <2>1. Deciders' = Deciders \ {h} /\ h \in Deciders
    BY <1>3 DEF Deciders, Deciding
  <2>2. Cardinality(Deciders') = Cardinality(Deciders) - 1 /\ IsFiniteSet(Deciders')
    BY <2>1, PendingIs, FS_RemoveElement
  <2>3. Cardinality(Deciders') \in Nat
    BY <2>2, FS_CardinalityType
  <2> QED
    BY <1>3, <2>2, <2>3 DEF Pending
<1> QED
  BY <1>1, <1>2, <1>3

\* What versions and threads a step may leave.
LEMMA TallyMoves ==
    ASSUME AccInv, AccInv', Tallied, NEW h \in Handlers, \A g \in Handlers : g # h => req'[g] = req[g],
           ulog.calls <= ulog'.calls,
           Deciding(req[h])' /\ ~Deciding(req[h]) => ulog.calls + 1 <= ulog'.calls,
           \A u \in Users : \/ user'[u].sv <= user[u].sv
                            \/ At(h, "write") /\ ~Deciding(req[h])' /\ user'[u].sv <= req[h].sv + 1,
           At(h, "write")' => \/ req'[h] = req[h]
                              \/ Deciding(req[h]) /\ \E u \in Users : req'[h].sv = user[u].sv
    PROVE  Tallied'
<1>1. ulog.calls \in Nat /\ ulog'.calls \in Nat
  BY DEF AccInv, RowsTyped, AccountLog
<1>2. \A u \in Users : user[u].sv \in Nat /\ user'[u].sv \in Nat
  BY DEF AccInv, RowsTyped, UserRow
<1>3. \A g \in Handlers : req[g].sv \in Nat /\ req'[g].sv \in Nat
  BY DEF AccInv, RowsTyped, ReqRow
<1>4. Pending \in Nat /\ Pending' \in Nat /\ Pending' - Pending <= ulog'.calls - ulog.calls
      /\ (~Deciding(req[h])' /\ Deciding(req[h]) => Pending' = Pending - 1)
      /\ (Deciding(req[h]) => Pending' <= Pending)
  BY <1>1, PendingMoves, PendingIs
<1> HIDE DEF Pending
<1>5. ASSUME NEW u \in Users PROVE user'[u].sv + Pending' <= ulog'.calls
  <2>1. user[u].sv + Pending <= ulog.calls
    BY DEF Tallied
  <2>2. CASE user'[u].sv <= user[u].sv
    BY <1>1, <1>2, <1>4, <2>1, <2>2
  <2>3. CASE At(h, "write") /\ ~Deciding(req[h])' /\ user'[u].sv <= req[h].sv + 1
    <3>1. req[h].sv + Pending <= ulog.calls /\ Deciding(req[h])
      BY <2>3 DEF Tallied, At, Deciding
    <3> QED
      BY <1>1, <1>2, <1>3, <1>4, <2>3, <3>1
  <2> QED
    BY <2>2, <2>3
<1>6. ASSUME NEW g \in Handlers, At(g, "write")' PROVE req'[g].sv + Pending' <= ulog'.calls
  <2>1. CASE req'[g] = req[g]
    <3>1. req[g].sv + Pending <= ulog.calls
      BY <1>6, <2>1 DEF Tallied, At
    <3> QED
      BY <1>1, <1>3, <1>4, <2>1, <3>1
  <2>2. CASE g = h /\ Deciding(req[h]) /\ \E u \in Users : req'[h].sv = user[u].sv
    <3>1. PICK u \in Users : req'[h].sv = user[u].sv
      BY <2>2
    <3>2. user[u].sv + Pending <= ulog.calls
      BY DEF Tallied
    <3> QED
      BY <1>1, <1>2, <1>4, <2>2, <3>1, <3>2
  <2> QED
    BY <1>6, <2>1, <2>2
<1> QED
  BY <1>5, <1>6 DEF Tallied

\* A step that makes no token.
LEMMA BorneMoves ==
    ASSUME AccInv, Borne, NEW h \in Handlers, \A g \in Handlers : g # h => req'[g] = req[g],
           ulog'.tokens = ulog.tokens, live' \subseteq live,
           \/ spent' = spent
           \/ At(h, "mark") /\ \A x \in spent' : x \in spent \/ x.id = req[h].token,
           At(h, "mark")' => \/ req'[h] = req[h]
                             \/ req'[h].token \in 1..ulog.tokens /\ \A t \in live' : t.id # req'[h].token
    PROVE  Borne'
<1>1. ASSUME NEW t \in live' PROVE t.chain <= t.id /\ \A x \in spent' : x.id # t.id
  BY <1>1 DEF Borne
<1>2. ASSUME NEW x \in spent' PROVE x.id \in 1..ulog'.tokens
  BY <1>2 DEF Borne
<1>3. ASSUME NEW g \in Handlers, At(g, "mark")'
      PROVE  req'[g].token \in 1..ulog'.tokens /\ \A t \in live' : t.id # req'[g].token
  BY <1>3 DEF Borne, At
<1> QED
  BY <1>1, <1>2, <1>3 DEF Borne

LEMMA MailsStay == ASSUME Mailed, UNCHANGED mailer, ulog.calls \in Nat, ulog'.calls \in Nat, ulog.calls <= ulog'.calls PROVE Mailed'
<1>1. \A u \in Users : mailer[u].count \in Nat /\ mailer[u].count <= ulog.calls
  BY DEF Mailed
<1> QED
  BY <1>1 DEF Mailed

LEMMA CallsAre ==
    ASSUME AccInv
    PROVE  /\ ulog.calls \in Nat /\ ulog.tokens \in Nat /\ More.calls = ulog.calls + 1 /\ More.tokens = ulog.tokens
           /\ \A u \in Users : user[u].sv \in Nat
<1>1. ulog \in AccountLog /\ \A u \in Users : user[u].sv \in Nat
  BY DEF AccInv, RowsTyped, UserRow
<1>2. ulog.calls \in Nat /\ ulog.tokens \in Nat
  BY <1>1 DEF AccountLog
<1>3. More.calls = ulog.calls + 1 /\ More.tokens = ulog.tokens
  BY <1>1 DEF More, AccountLog
<1> QED
  BY <1>1, <1>2, <1>3

\* The step of a thread that writes no row of a user, and gives out no token.
LEMMA ThreadTyped ==
    ASSUME RowsInv, AccInv', NEW h \in Handlers, \A g \in Handlers : g # h => req'[g] = req[g],
           UNCHANGED <<user, mailer>>, live' \subseteq live,
           ulog'.tokens = ulog.tokens, ulog.calls <= ulog'.calls,
           Deciding(req[h])' /\ ~Deciding(req[h]) => ulog.calls + 1 <= ulog'.calls,
           At(h, "write")' => \/ req'[h] = req[h]
                              \/ Deciding(req[h]) /\ \E u \in Users : req'[h].sv = user[u].sv,
           \/ spent' = spent
           \/ At(h, "mark") /\ \A x \in spent' : x \in spent \/ x.id = req[h].token,
           At(h, "mark")' => \/ req'[h] = req[h]
                             \/ req'[h].token \in 1..ulog.tokens /\ \A t \in live' : t.id # req'[h].token
    PROVE  RowsInv'
<1>1. \A u \in Users : user'[u].sv <= user[u].sv
  BY CallsAre DEF RowsInv
<1>2. Tallied'
  BY <1>1, TallyMoves DEF RowsInv
<1>3. Borne'
  BY BorneMoves DEF RowsInv
<1>4. ulog'.calls \in Nat /\ ulog.calls \in Nat
  BY DEF RowsInv, AccInv, RowsTyped, AccountLog
<1>5. Mailed'
  BY <1>4, MailsStay DEF RowsInv
<1> QED
  BY <1>2, <1>3, <1>5 DEF RowsInv

\* A call begins, and a thread is at it or not.
LEMMA CallTyped ==
    ASSUME RowsInv, AccInv', NEW h \in Handlers, At(h, "idle"), ulog' = More,
           UNCHANGED <<user, mailer, spent>>, live' \subseteq live,
           \A g \in Handlers : g # h => req'[g] = req[g],
           req'[h] = req[h] \/ req'[h].pc \notin {"write", "mark"}
    PROVE  RowsInv'
<1>1. ulog'.tokens = ulog.tokens /\ ulog.calls <= ulog'.calls /\ ulog.calls + 1 <= ulog'.calls
  BY CallsAre DEF RowsInv
<1> QED
  BY <1>1, ThreadTyped DEF At

\* A thread goes on or ends, and no row changes.
LEMMA OnTyped ==
    ASSUME RowsInv, AccInv', NEW h \in Handlers, ulog'.tokens = ulog.tokens, ulog'.calls = ulog.calls,
           UNCHANGED <<user, mailer, live>>,
           \A g \in Handlers : g # h => req'[g] = req[g],
           \/ req'[h].pc \notin {"write", "mark", "check", "reused"}
           \/ req'[h].pc = "write" /\ Deciding(req[h]) /\ \E u \in Users : req'[h].sv = user[u].sv,
           \/ spent' = spent
           \/ At(h, "mark") /\ \A x \in spent' : x \in spent \/ x.id = req[h].token
    PROVE  RowsInv'
<1>3. ulog.calls <= ulog'.calls
  BY CallsAre DEF RowsInv
<1>4. Deciding(req[h])' => Deciding(req[h])
  BY DEF Deciding
<1>5. At(h, "write")' => Deciding(req[h]) /\ \E u \in Users : req'[h].sv = user[u].sv
  BY DEF At
<1>6. ~At(h, "mark")'
  BY DEF At
<1> QED
  BY <1>3, <1>4, <1>5, <1>6, ThreadTyped

LEMMA BeginsTyped ==
    ASSUME RowsInv, AccInv', NEW h \in Handlers, NEW u \in Users,
           \/ GoogleSignIn(h, u) \/ Login(h, u) \/ Register(h, u) \/ UseReads(h, u)
           \/ \E guess \in {0, code[u].mac} : VerifyReads(h, u, guess)
           \/ \E a \in Users, op \in Ops : AdminCalls(h, a, u, op)
    PROVE  RowsInv'
<1>f. req \in [Handlers -> ReqRow]
  BY DEF RowsInv, AccInv, RowsTyped
<1>1. /\ At(h, "idle") /\ ulog' = More /\ UNCHANGED <<user, mailer, spent, live>>
  BY DEF GoogleSignIn, Login, Register, UseReads, VerifyReads, AdminCalls, Call, Called
<1>2. CASE GoogleSignIn(h, u)
  <2>1. (\A g \in Handlers : g # h => req'[g] = req[g]) /\ (req'[h] = req[h] \/ req'[h].pc \notin {"write", "mark"})
    BY <1>2, <1>f DEF GoogleSignIn, Free, Step
  <2> QED
    BY <1>1, <2>1, CallTyped
<1>3. CASE Login(h, u)
  <2>1. (\A g \in Handlers : g # h => req'[g] = req[g]) /\ (req'[h] = req[h] \/ req'[h].pc \notin {"write", "mark"})
    BY <1>3, <1>f DEF Login, Free, Step
  <2> QED
    BY <1>1, <2>1, CallTyped
<1>4. CASE Register(h, u)
  <2>1. (\A g \in Handlers : g # h => req'[g] = req[g]) /\ (req'[h] = req[h] \/ req'[h].pc \notin {"write", "mark"})
    BY <1>4, <1>f DEF Register, Free, Step
  <2> QED
    BY <1>1, <2>1, CallTyped
<1>5. CASE UseReads(h, u)
  <2>1. (\A g \in Handlers : g # h => req'[g] = req[g]) /\ (req'[h] = req[h] \/ req'[h].pc \notin {"write", "mark"})
    BY <1>5, <1>f DEF UseReads, Free, Step
  <2> QED
    BY <1>1, <2>1, CallTyped
<1>6. CASE \E guess \in {0, code[u].mac} : VerifyReads(h, u, guess)
  <2>1. (\A g \in Handlers : g # h => req'[g] = req[g]) /\ (req'[h] = req[h] \/ req'[h].pc \notin {"write", "mark"})
    BY <1>6, <1>f DEF VerifyReads, Free, Step
  <2> QED
    BY <1>1, <2>1, CallTyped
<1>7. CASE \E a \in Users, op \in Ops : AdminCalls(h, a, u, op)
  <2>1. PICK a \in Users, op \in Ops : AdminCalls(h, a, u, op)
    BY <1>7
  <2> DEFINE r == [Free EXCEPT !.pc = "check", !.user = u, !.op = op, !.by = a, !.role = user[a].role]
  <2>2. r.pc = "check" /\ req' = [req EXCEPT ![h] = r]
    BY <2>1 DEF AdminCalls, Step, Free
  <2> HIDE DEF r
  <2>3. (\A g \in Handlers : g # h => req'[g] = req[g]) /\ (req'[h] = req[h] \/ req'[h].pc \notin {"write", "mark"})
    BY <1>f, <2>2
  <2> QED
    BY <1>1, <2>3, CallTyped
<1> QED
  BY <1>2, <1>3, <1>4, <1>5, <1>6, <1>7

LEMMA RotateTyped ==
    ASSUME RowsInv, AccInv', NEW h \in Handlers, NEW t, Rotate(h, t)
    PROVE  RowsInv'
<1>f. req \in [Handlers -> ReqRow]
  BY DEF RowsInv, AccInv, RowsTyped
<1>1. /\ At(h, "idle") /\ ulog' = More /\ UNCHANGED <<user, mailer, spent>> /\ live' = live \ Token(t)
  BY DEF Rotate, Call, Called
<1>2. CASE Token(t) = {} /\ req' = req
  BY <1>1, <1>2, CallTyped
<1>3. CASE \E x \in spent : Step(h, [Free EXCEPT !.pc = "reused", !.user = x.user])
  <2>1. (\A g \in Handlers : g # h => req'[g] = req[g]) /\ (req'[h] = req[h] \/ req'[h].pc \notin {"write", "mark"})
    BY <1>3, <1>f DEF Step, Free
  <2> QED
    BY <1>1, <2>1, CallTyped
<1>4. CASE \E x \in Token(t) : Step(h, [Free EXCEPT !.pc = "mark", !.user = x.user, !.sv = x.sv, !.chain = x.chain, !.token = t])
  <2>1. PICK x \in Token(t) : Step(h, [Free EXCEPT !.pc = "mark", !.user = x.user, !.sv = x.sv, !.chain = x.chain, !.token = t])
    BY <1>4
  <2>3. (\A g \in Handlers : g # h => req'[g] = req[g]) /\ req'[h].pc = "mark" /\ req'[h].token = t
    BY <2>1, <1>f DEF Step, Free
  <2>4. t \in 1..ulog.tokens /\ \A y \in live' : y.id # t
    BY <1>1, <2>1 DEF Token, RowsInv, AccInv, Sessions, TokenFits
  <2>5. ulog'.tokens = ulog.tokens /\ ulog.calls <= ulog'.calls /\ ulog.calls + 1 <= ulog'.calls
    BY <1>1, CallsAre DEF RowsInv
  <2> QED
    BY <1>1, <2>3, <2>4, <2>5, ThreadTyped DEF At
<1> QED
  BY <1>2, <1>3, <1>4 DEF Rotate

LEMMA GoesOnTyped ==
    ASSUME RowsInv, AccInv', NEW h \in Handlers,
           VerifyCounts(h) \/ VerifyDrops(h) \/ SignIn(h) \/ RotateMarks(h) \/ UseCounts(h) \/ Reused(h) \/ AdminLoads(h)
    PROVE  RowsInv'
<1>f. req \in [Handlers -> ReqRow]
  BY DEF RowsInv, AccInv, RowsTyped
<1>0. req[h] \in ReqRow /\ req[h].user \in Users \cup {"nobody"} /\ (req[h].pc # "idle" => req[h].user \in Users)
  BY ThreadRow DEF RowsInv, AccInv, ReqRow, Someone
<1>1. ulog \in AccountLog
  BY DEF RowsInv, AccInv, RowsTyped
<1>2. CASE VerifyCounts(h)
  <2>1. (\A g \in Handlers : g # h => req'[g] = req[g]) /\ req'[h].pc \notin {"write", "mark", "check", "reused"}
    BY <1>0, <1>2, <1>f DEF VerifyCounts, Free, Step, ReqRow
  <2>2. ulog'.tokens = ulog.tokens /\ ulog'.calls = ulog.calls
    BY <1>1, <1>2 DEF VerifyCounts, AccountLog
  <2>3. UNCHANGED <<user, mailer, live, spent>>
    BY <1>2 DEF VerifyCounts
  <2> QED
    BY <2>1, <2>2, <2>3, OnTyped
<1>3. CASE VerifyDrops(h)
  <2>1. (\A g \in Handlers : g # h => req'[g] = req[g]) /\ req'[h].pc \notin {"write", "mark", "check", "reused"}
    BY <1>0, <1>3, <1>f DEF VerifyDrops, Free, Step, ReqRow
  <2> QED
    BY <1>3, <2>1, OnTyped DEF VerifyDrops
<1>4. CASE SignIn(h)
  <2>1. (\A g \in Handlers : g # h => req'[g] = req[g]) /\ req'[h].pc \notin {"write", "mark", "check", "reused"}
    <3> DEFINE on == [req[h] EXCEPT !.pc = "session", !.sv = user[req[h].user].sv, !.new = ~Known(req[h].user),
                              !.op = IF Restored(req[h].user, user[req[h].user]) # user[req[h].user] THEN "restore" ELSE "none"]
    <3>1. on.pc = "session"
      BY <1>0 DEF ReqRow
    <3>2. Free.pc = "idle"
      BY DEF Free
    <3>3. req' = [req EXCEPT ![h] = on] \/ req' = [req EXCEPT ![h] = Free]
      BY <1>4 DEF SignIn, Step
    <3> HIDE DEF on
    <3> QED
      BY <3>1, <3>2, <3>3, <1>f
  <2> QED
    BY <1>4, <2>1, OnTyped DEF SignIn
<1>5. CASE RotateMarks(h)
  <2>1. (\A g \in Handlers : g # h => req'[g] = req[g]) /\ req'[h].pc \notin {"write", "mark", "check", "reused"}
    BY <1>0, <1>5, <1>f DEF RotateMarks, Free, Step, ReqRow
  <2>2. At(h, "mark") /\ \A x \in spent' : x \in spent \/ x.id = req[h].token
    BY <1>5 DEF RotateMarks
  <2> QED
    BY <1>5, <2>1, <2>2, OnTyped DEF RotateMarks
<1>6. CASE UseCounts(h)
  <2>1. (\A g \in Handlers : g # h => req'[g] = req[g]) /\ req'[h].pc \notin {"write", "mark", "check", "reused"}
    BY <1>6, <1>f DEF UseCounts, Ends, Free, Step
  <2> QED
    BY <1>6, <2>1, OnTyped DEF UseCounts
<1>7. CASE Reused(h)
  <2>1. Deciding(req[h]) /\ req[h].user \in Users
    BY <1>0, <1>7 DEF Reused, At, Deciding
  <2>2. (\A g \in Handlers : g # h => req'[g] = req[g]) /\ req'[h].pc = "write" /\ req'[h].sv = user[req[h].user].sv
    BY <1>7, <1>f DEF Reused, Free, Step
  <2>3. ulog'.tokens = ulog.tokens /\ ulog'.calls = ulog.calls
    BY <1>1, <1>7 DEF Reused, Raced, AccountLog
  <2> QED
    BY <1>7, <2>1, <2>2, <2>3, OnTyped DEF Reused
<1>8. CASE AdminLoads(h)
  <2>1. Deciding(req[h]) /\ req[h].user \in Users
    BY <1>0, <1>8 DEF AdminLoads, At, Deciding
  <2>2. \/ (\A g \in Handlers : g # h => req'[g] = req[g]) /\ req'[h].pc = "write" /\ req'[h].sv = user[req[h].user].sv
        \/ (\A g \in Handlers : g # h => req'[g] = req[g]) /\ req'[h].pc = "idle"
    <3> DEFINE r == [req[h] EXCEPT !.pc = "write", !.sv = user[req[h].user].sv]
    <3>1. r.pc = "write" /\ r.sv = user[req[h].user].sv /\ Free.pc = "idle"
      BY <1>0 DEF ReqRow, Free
    <3>2. req' = [req EXCEPT ![h] = r] \/ req' = [req EXCEPT ![h] = Free]
      BY <1>8 DEF AdminLoads, Ends, Step
    <3> HIDE DEF r
    <3> QED
      BY <1>f, <3>1, <3>2
  <2>3. ulog'.tokens = ulog.tokens /\ ulog'.calls = ulog.calls
    BY <1>1, <1>8 DEF AdminLoads, Raced, AccountLog
  <2> QED
    BY <1>8, <2>1, <2>2, <2>3, OnTyped DEF AdminLoads
<1> QED
  BY <1>2, <1>3, <1>4, <1>5, <1>6, <1>7, <1>8

LEMMA WritesTyped == ASSUME RowsInv, AccInv', NEW h \in Handlers, AdminWrites(h) PROVE RowsInv'
<1> DEFINE r == req[h]
           u == r.user
<1>1. /\ r.pc = "write" /\ \A v \in Users : v # u => user'[v] = user[v]
      /\ user'[u].sv = IF Revokes(r) THEN r.sv + 1 ELSE user[u].sv
      /\ u \in Users
  BY WrittenRow DEF RowsInv
<1>2. /\ UNCHANGED <<live, spent, mailer>> /\ req' = [req EXCEPT ![h] = Free]
  BY DEF AdminWrites, Ends, Step
<1>3. req'[h] = Free /\ \A g \in Handlers : g # h => req'[g] = req[g]
  BY <1>2 DEF RowsInv, AccInv, RowsTyped
<1>4. ulog'.calls = ulog.calls /\ ulog'.tokens = ulog.tokens /\ ulog.calls \in Nat
  <2>1. ulog \in AccountLog
    BY DEF RowsInv, AccInv, RowsTyped
  <2> QED
    BY <2>1 DEF AdminWrites, AccountLog
<1>5. \A v \in Users : user[v].sv \in Nat /\ user'[v].sv \in Nat
  BY DEF RowsInv, AccInv, RowsTyped, UserRow
<1>6. ~Deciding(req[h])' /\ ~At(h, "mark")' /\ ~At(h, "write")'
  BY <1>3 DEF Free, Deciding, At
<1>7. ASSUME NEW v \in Users
      PROVE  user'[v].sv <= user[v].sv \/ (At(h, "write") /\ ~Deciding(req[h])' /\ user'[v].sv <= req[h].sv + 1)
  <2>1. CASE v = u /\ Revokes(r)
    BY <1>1, <1>5, <1>6, <2>1 DEF At
  <2>2. CASE v # u \/ ~Revokes(r)
    BY <1>1, <1>5, <2>2
  <2> QED
    BY <2>1, <2>2
<1> HIDE DEF r, u
<1>8. Tallied'
  BY <1>3, <1>4, <1>6, <1>7, TallyMoves DEF RowsInv
<1>9. Borne'
  BY <1>2, <1>3, <1>4, <1>6, BorneMoves DEF RowsInv
<1>10. Mailed'
  BY <1>2, <1>4, MailsStay DEF RowsInv
<1> QED
  BY <1>8, <1>9, <1>10 DEF RowsInv

\* The new token is of a number that none has had.
LEMMA StartTyped == ASSUME RowsInv, AccInv', NEW h \in Handlers, StartSession(h) PROVE RowsInv'
<1> DEFINE r == req[h]
           token == ulog.tokens + 1
           chain == IF r.chain = 0 THEN token ELSE r.chain
           t0 == [id |-> token, user |-> r.user, sv |-> r.sv, chain |-> chain]
<1>1. /\ r.pc = "session" /\ req' = [req EXCEPT ![h] = Free] /\ UNCHANGED <<spent, mailer>>
      /\ \/ r.new /\ Known(r.user) /\ UNCHANGED <<live, user, ulog>>
         \/ /\ ~(r.new /\ Known(r.user)) /\ live' = live \cup {t0} /\ ulog' = [ulog EXCEPT !.tokens = token]
            /\ user' = Signed(r)
  BY DEF StartSession, Start, At, Ends, Step
<1>2. /\ r \in ReqRow /\ r.user \in Users /\ ulog \in AccountLog /\ ulog.tokens \in Nat /\ ulog.calls \in Nat
      /\ ThreadFits(r) /\ r.chain \in 0..ulog.tokens /\ (~r.new => Known(r.user))
  BY <1>1, ThreadRow DEF RowsInv, AccInv, RowsTyped, Sessions, ThreadFits, Carries, ReqRow, AccountLog
<1>3. (\A g \in Handlers : g # h => req'[g] = req[g]) /\ req'[h].pc = "idle"
  BY <1>1 DEF RowsInv, AccInv, RowsTyped, Free
<1>4. CASE UNCHANGED <<live, user, ulog>>
  <2>1. req'[h].pc \notin {"write", "mark", "check", "reused"}
    BY <1>3
  <2> QED
    BY <1>1, <1>3, <1>4, <2>1, OnTyped
<1>5. CASE /\ ~(r.new /\ Known(r.user)) /\ live' = live \cup {t0} /\ ulog' = [ulog EXCEPT !.tokens = token]
           /\ user' = Signed(r)
  <2>1. \A u \in Users : user'[u].sv = user[u].sv
    <3> HIDE DEF r
    <3> QED
      BY <1>2, <1>5, SignedRow DEF RowsInv
  <2>2. ulog'.calls = ulog.calls /\ ulog'.tokens = token /\ token = ulog.tokens + 1
    BY <1>2, <1>5 DEF AccountLog
  <2>3. t0.id = token /\ t0.chain <= token /\ t0.chain = chain
    BY <1>2
  <2>4. \A u \in Users : user[u].sv \in Nat
    BY CallsAre DEF RowsInv
  <2>5. ~Deciding(req[h])' /\ ~Deciding(req[h]) /\ ~At(h, "write")' /\ ~At(h, "mark")'
    BY <1>1, <1>3 DEF Deciding, At
  <2> HIDE DEF r, token, chain, t0
  <2>6. Tallied'
    BY <1>2, <1>3, <2>1, <2>2, <2>4, <2>5, TallyMoves DEF RowsInv
  <2>7. \A t \in live : t.id \in 1..ulog.tokens
    BY DEF RowsInv, AccInv, Sessions, TokenFits
  <2>8. Borne'
    <3>1. ASSUME NEW t \in live' PROVE t.chain <= t.id /\ \A x \in spent' : x.id # t.id
      <4>1. CASE t \in live
        BY <1>1, <4>1 DEF RowsInv, Borne
      <4>2. CASE t = t0
        BY <1>1, <1>2, <2>2, <2>3, <4>2 DEF RowsInv, Borne
      <4> QED
        BY <1>5, <4>1, <4>2
    <3>2. \A x \in spent' : x.id \in 1..ulog'.tokens
      BY <1>1, <1>2, <2>2 DEF RowsInv, Borne
    <3>3. ASSUME NEW g \in Handlers, At(g, "mark")'
          PROVE  req'[g].token \in 1..ulog'.tokens /\ \A t \in live' : t.id # req'[g].token
      <4>1. g # h /\ At(g, "mark") /\ req'[g] = req[g]
        BY <1>3, <2>5, <3>3 DEF At
      <4>2. req[g].token \in 1..ulog.tokens /\ \A t \in live : t.id # req[g].token
        BY <4>1 DEF RowsInv, Borne
      <4> QED
        BY <1>2, <1>5, <2>2, <2>3, <4>1, <4>2
    <3> QED
      BY <3>1, <3>2, <3>3 DEF Borne
  <2>9. Mailed'
    BY <1>1, <1>2, <2>2, MailsStay DEF RowsInv
  <2> QED
    BY <2>6, <2>8, <2>9 DEF RowsInv
<1> QED
  BY <1>1, <1>4, <1>5

\* A step in which no thread moves.
LEMMA StillTyped ==
    ASSUME RowsInv, AccInv', UNCHANGED <<req, spent>>, live' \subseteq live,
           ulog'.tokens = ulog.tokens, ulog.calls <= ulog'.calls,
           \A u \in Users : user'[u].sv <= user[u].sv, Mailed'
    PROVE  RowsInv'
<1>1. PICK h \in Handlers : TRUE
  BY AccountConstants
<1>2. Tallied'
  BY TallyMoves DEF RowsInv
<1>3. Borne'
  BY BorneMoves DEF RowsInv
<1> QED
  BY <1>2, <1>3 DEF RowsInv

LEMMA RequestTyped == ASSUME RowsInv, AccInv', NEW h \in Handlers, NEW u \in Users, RequestCode(h, u) PROVE RowsInv'
<1>1. UNCHANGED <<user, live, spent, req>> /\ Issue(u)
  BY DEF RequestCode
<1>2. /\ ulog.calls \in Nat /\ More.calls = ulog.calls + 1 /\ More.tokens = ulog.tokens /\ ulog \in AccountLog
      /\ \A v \in Users : user[v].sv \in Nat
  BY CallsAre DEF RowsInv, AccInv, RowsTyped
<1>3. More \in AccountLog
  BY <1>2 DEF More, AccountLog
<1>4. ulog'.tokens = ulog.tokens /\ ulog'.calls = ulog.calls + 1
  <2>1. CASE ulog' = More
    BY <1>2, <2>1
  <2>2. CASE ulog' = [More EXCEPT !.codes = @ + 1]
    <3> HIDE DEF More
    <3> QED
      BY <1>2, <1>3, <2>2 DEF AccountLog
  <2> QED
    BY <1>1, <2>1, <2>2 DEF Issue
<1>5. Mailed'
  <2> DEFINE n == mailer[u].count + 1
             cooling == mailer[u].count < MaxCodes
             e == [mailer[u] EXCEPT !.count = n, !.cooling = cooling]
  <2>1. mailer \in [Users -> [count : Nat, cooling : BOOLEAN]] /\ mailer[u].count <= ulog.calls
    BY DEF RowsInv, Mailed
  <2>2. mailer' = [mailer EXCEPT ![u] = e]
    BY <1>1, <2>1 DEF Issue
  <2>3. n \in Nat /\ n <= ulog.calls + 1 /\ cooling \in BOOLEAN
    BY <1>2, <2>1
  <2> HIDE DEF n, cooling
  <2>4. e \in [count : Nat, cooling : BOOLEAN] /\ e.count = n
    BY <2>1, <2>3
  <2> HIDE DEF e
  <2>5. ASSUME NEW v \in Users PROVE mailer'[v].count <= ulog'.calls
    <3>1. mailer[v].count \in Nat /\ mailer[v].count <= ulog.calls
      BY <2>1 DEF RowsInv, Mailed
    <3>2. mailer'[v] = mailer[v] \/ mailer'[v] = e
      BY <2>1, <2>2
    <3> QED
      BY <1>2, <1>4, <2>3, <2>4, <3>1, <3>2
  <2> QED
    BY <2>1, <2>2, <2>4, <2>5 DEF Mailed
<1>6. (\A v \in Users : user'[v].sv <= user[v].sv) /\ ulog.calls <= ulog'.calls
  BY <1>1, <1>2, <1>4
<1> QED
  BY <1>1, <1>4, <1>5, <1>6, StillTyped

LEMMA RowTyped ==
    ASSUME RowsInv, AccInv', UNCHANGED <<req, spent, mailer>>, live' \subseteq live,
           \/ UNCHANGED user
           \/ \E u \in Users, e \in UserRow : user' = [user EXCEPT ![u] = e] /\ e.sv <= user[u].sv,
           ulog' = ulog \/ ulog' = More \/ ulog' = [ulog EXCEPT !.edited = TRUE]
    PROVE  RowsInv'
<1>1. /\ ulog.calls \in Nat /\ More.calls = ulog.calls + 1 /\ More.tokens = ulog.tokens /\ ulog \in AccountLog
      /\ user \in [Users -> UserRow] /\ \A v \in Users : user[v].sv \in Nat
  BY CallsAre DEF RowsInv, AccInv, RowsTyped
<1>2. ulog'.tokens = ulog.tokens /\ ulog.calls <= ulog'.calls /\ ulog'.calls \in Nat
  <2>1. CASE ulog' = ulog \/ ulog' = More
    BY <1>1, <2>1
  <2>2. CASE ulog' = [ulog EXCEPT !.edited = TRUE]
    BY <1>1, <2>2 DEF AccountLog
  <2> QED
    BY <2>1, <2>2
<1>3. Mailed'
  BY <1>1, <1>2, MailsStay DEF RowsInv
<1>4. \A v \in Users : user'[v].sv <= user[v].sv
  BY <1>1
<1> QED
  BY <1>2, <1>3, <1>4, StillTyped

LEMMA RowsEdited ==
    ASSUME RowsInv, AccInv',
           \/ \E h \in Handlers, u \in Users, a \in Users : CreateUser(h, a, u)
           \/ \E u \in Users : Authorize(u) \/ EditByHand(u)
    PROVE  RowsInv'
<1>1. CASE \E h \in Handlers, u \in Users, a \in Users : CreateUser(h, a, u)
  <2>1. PICK u \in Users, h \in Handlers, a \in Users : CreateUser(h, a, u)
    BY <1>1
  <2> DEFINE e == [role |-> "user", active |-> TRUE, sv |-> 0]
  <2>2. e \in UserRow /\ e.sv <= user[u].sv
    BY CallsAre DEF RowsInv, UserRow, Roles
  <2>3. user' = [user EXCEPT ![u] = e] /\ ulog' = More /\ UNCHANGED <<req, spent, mailer, live>>
    BY <2>1 DEF CreateUser, Call
  <2> HIDE DEF e
  <2> QED
    BY <2>2, <2>3, RowTyped
<1>2. CASE \E u \in Users : Authorize(u)
  <2>1. PICK u \in Users : Authorize(u)
    BY <1>2
  <2> DEFINE e == Restored(u, user[u])
  <2>2. user' = [user EXCEPT ![u] = e] /\ Known(u) /\ UNCHANGED <<req, spent, mailer, live, ulog>>
    BY <2>1 DEF Authorize
  <2>3. user[u] \in UserRow /\ user[u].sv \in Nat
    BY RowOfUser DEF RowsInv
  <2>4. e \in UserRow /\ e.sv = user[u].sv
    BY <2>2, <2>3, RestoredRow DEF Known
  <2> HIDE DEF e
  <2>5. e.sv <= user[u].sv
    BY <2>3, <2>4
  <2> QED
    BY <2>2, <2>4, <2>5, RowTyped
<1>3. CASE \E u \in Users : EditByHand(u)
  <2>1. PICK u \in Users : EditByHand(u)
    BY <1>3
  <2> DEFINE e == [user[u] EXCEPT !.active = FALSE]
  <2>2. /\ user' = [user EXCEPT ![u] = e] /\ ulog' = [ulog EXCEPT !.edited = TRUE]
        /\ UNCHANGED <<req, spent, mailer, live>>
    BY <2>1 DEF EditByHand, RowsInv, AccInv, RowsTyped
  <2>3. user[u] \in UserRow /\ user[u].sv \in Nat
    BY RowOfUser DEF RowsInv
  <2>4. e \in UserRow /\ e.sv = user[u].sv
    BY <2>3 DEF UserRow
  <2>5. e.sv <= user[u].sv
    BY <2>3, <2>4
  <2> HIDE DEF e
  <2> QED
    BY <2>2, <2>4, <2>5, RowTyped
<1> QED
  BY <1>1, <1>2, <1>3

LEMMA CoolingTyped == ASSUME RowsInv, AccInv', NEW u \in Users, CooldownEnds(u) PROVE RowsInv'
<1>1. /\ mailer' = [mailer EXCEPT ![u].cooling = FALSE] /\ UNCHANGED <<user, live, spent, req, ulog>>
  BY DEF CooldownEnds
<1>2. mailer \in [Users -> [count : Nat, cooling : BOOLEAN]] /\ \A v \in Users : mailer[v].count <= ulog.calls
  BY DEF RowsInv, Mailed
<1>3. mailer' \in [Users -> [count : Nat, cooling : BOOLEAN]] /\ \A v \in Users : mailer'[v].count = mailer[v].count
  BY <1>1, <1>2
<1>4. Mailed'
  BY <1>1, <1>2, <1>3 DEF Mailed
<1>5. (\A v \in Users : user'[v].sv <= user[v].sv) /\ ulog.calls <= ulog'.calls
  BY <1>1, CallsAre DEF RowsInv
<1> QED
  BY <1>1, <1>4, <1>5, StillTyped

LEMMA OthersTyped ==
    ASSUME RowsInv, AccInv',
           \/ \E h \in Handlers : \E t : Logout(h, t)
           \/ \E h \in Handlers : \E f : SetFlag(h, f)
           \/ \E h \in Handlers, a \in Users, u \in Users : \E e : SetEntitlement(h, a, u, e)
           \/ \E u \in Users : OverrideExpires(u) \/ CodeExpires(u)
           \/ UNCHANGED uvars
    PROVE  RowsInv'
<1>1. /\ UNCHANGED <<req, spent, mailer, user>> /\ live' \subseteq live /\ (ulog' = ulog \/ ulog' = More)
  BY DEF Logout, SetFlag, SetEntitlement, OverrideExpires, CodeExpires, uvars, Call
<1> QED
  BY <1>1, RowTyped

LEMMA RowsStep == ASSUME RowsInv, [Next]_uvars PROVE RowsInv'
<1>1. AccInv'
  BY AccountStepHolds, ElsewhereHolds DEF RowsInv, uvars
<1>2. ASSUME NEW h \in Handlers, Thread(h) PROVE RowsInv'
  BY <1>1, <1>2, GoesOnTyped, StartTyped, WritesTyped DEF Thread
<1>3. ASSUME NEW h \in Handlers, Asked(h) PROVE RowsInv'
  <2>1. uscene.who \subseteq Users
    BY Stays DEF RowsInv
  <2>2. ASSUME NEW u \in uscene.who,
               RequestCode(h, u) \/ GoogleSignIn(h, u) \/ Login(h, u) \/ Register(h, u) \/ UseReads(h, u)
        PROVE  RowsInv'
    BY <1>1, <2>1, <2>2, RequestTyped, BeginsTyped
  <2>3. ASSUME NEW u \in uscene.who, NEW guess \in {0, code[u].mac}, VerifyReads(h, u, guess) PROVE RowsInv'
    BY <1>1, <2>1, <2>3, BeginsTyped
  <2>4. ASSUME NEW u \in uscene.who, NEW a \in Users, CreateUser(h, a, u) PROVE RowsInv'
    BY <1>1, <2>1, <2>4, RowsEdited
  <2>5. ASSUME NEW u \in uscene.who, NEW a \in Users, NEW op \in {"disable", "enable", "reset", "promote", "demote"},
               AdminCalls(h, a, u, op)
        PROVE  RowsInv'
    <3>1. op \in Ops
      BY DEF Ops
    <3> QED
      BY <1>1, <2>1, <2>5, <3>1, BeginsTyped
  <2>6. ASSUME NEW u \in uscene.who, NEW a \in Users, NEW e, SetEntitlement(h, a, u, e) PROVE RowsInv'
    BY <1>1, <2>1, <2>6, OthersTyped
  <2>7. ASSUME NEW t \in 1..ulog.tokens, Rotate(h, t) \/ Logout(h, t) PROVE RowsInv'
    BY <1>1, <2>7, RotateTyped, OthersTyped
  <2>8. ASSUME NEW f \in DOMAIN flags, SetFlag(h, f) PROVE RowsInv'
    BY <1>1, <2>8, OthersTyped
  <2> QED
    BY <1>3, <2>2, <2>3, <2>4, <2>5, <2>6, <2>7, <2>8 DEF Asked
<1>4. ASSUME NEW u \in Users, CooldownEnds(u) \/ CodeExpires(u) \/ Authorize(u) \/ EditByHand(u) \/ OverrideExpires(u)
      PROVE  RowsInv'
  BY <1>1, <1>4, CoolingTyped, OthersTyped, RowsEdited
<1>5. CASE UNCHANGED uvars
  BY <1>1, <1>5, OthersTyped
<1> QED
  BY <1>2, <1>3, <1>4, <1>5 DEF Next

LEMMA RowsBegin == ASSUME Init PROVE RowsInv
<1>1. AccInv
  BY InitHolds
<1>2. /\ \A u \in Users : user[u].sv = 0 /\ mailer[u].count = 0
      /\ mailer \in [Users -> [count : Nat, cooling : BOOLEAN]]
      /\ live = {} /\ spent = {} /\ ulog.calls = 0
      /\ \A h \in Handlers : req[h].pc = "idle"
  BY DEF Init, Free
<1>3. Pending = 0
  <2>1. Deciders = {}
    BY <1>2 DEF Deciders, Deciding
  <2> QED
    BY <2>1, FS_EmptySet DEF Pending
<1> QED
  BY <1>1, <1>2, <1>3 DEF RowsInv, Mailed, Tallied, Borne, At

\* Accounts' TypeOK for any users, owners, threads and limits: a version is
\* the number of a revocation that was asked for, and a used token is not live.
LEMMA AccountsAreTyped == Spec => []TypeOK
<1>1. RowsInv => TypeOK
  <2> SUFFICES ASSUME RowsInv PROVE TypeOK
    OBVIOUS
  <2>1. ulog.calls \in Nat /\ MaxCalls \in Nat /\ ulog.calls <= MaxCalls
    BY LogOf DEF RowsInv
  <2>2. ASSUME NEW u \in Users PROVE user[u].role \in Roles /\ user[u].sv \in 0..MaxCalls /\ mailer[u].count \in 0..MaxCalls
    <3>1. user[u].role \in Roles /\ user[u].sv \in Nat /\ mailer[u].count \in Nat /\ mailer[u].count <= ulog.calls
      BY DEF RowsInv, AccInv, RowsTyped, UserRow, Mailed
    <3>2. user[u].sv + Pending <= ulog.calls /\ Pending \in Nat
      BY PendingIs DEF RowsInv, Tallied
    <3> HIDE DEF Pending
    <3>3. user[u].sv <= MaxCalls /\ mailer[u].count <= MaxCalls
      BY <2>1, <3>1, <3>2
    <3> QED
      BY <2>1, <3>1, <3>3
  <2>3. \A t \in live : t.chain <= t.id /\ t.id <= ulog.tokens /\ \A x \in spent : x.id # t.id
    BY DEF RowsInv, Borne, AccInv, Sessions, TokenFits
  <2>4. \A h \in Handlers : req[h].pc \in {"idle", "count", "drop", "signin", "session", "mark", "reused", "check", "write", "use"}
    BY DEF RowsInv, AccInv, RowsTyped, ReqRow, Pcs
  <2> QED
    BY <2>2, <2>3, <2>4 DEF TypeOK
<1> QED
  BY <1>1, RowsBegin, RowsStep, PTL DEF Spec
=============================================================================
