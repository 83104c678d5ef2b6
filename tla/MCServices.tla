----------------------------- MODULE MCServices -----------------------------
(* The services a request calls, each in situations of its own.              *)
EXTENDS Services, TLC

CONSTANTS u1, u2, u3, h1, h2, m1, m2, m3, p1, p2, k1, k2, j1, j2, t1, t2, w1, w2,
          q1, q2, q3, r1, r2, r3, f1, f2, x1, x2, s1, s2, b1, b2, o1, o2,
          a1, a2, a3, v1, v2

NoTeam == [u \in {u1, u2, u3} |-> {}]
Two(one, two) == [u \in {u1, u2, u3} |-> IF u = u1 THEN one ELSE IF u = u2 THEN two ELSE "unknown"]
S(role, team, calls, who, max) == [role |-> role, team |-> team, calls |-> calls, who |-> who, max |-> max]

Codes == S(Two("user", "unknown"), NoTeam, {"code"}, {u1}, 6)
Sessions == S(Two("user", "unknown"), NoTeam, {"other", "refresh", "logout"}, {u1, u2}, 5)
Resets == S(Two("user", "admin"), NoTeam, {"other", "refresh", "admin"}, {u1}, 5)
Admining == S(Two("admin", "admin"), NoTeam, {"admin"}, {u1, u2}, 5)
Owning == S([u \in {u1, u2, u3} |-> IF u = u3 THEN "admin" ELSE "user"], NoTeam, {"other", "admin", "edit"}, {u3}, 4)
SigningUp == S(Two("admin", "unknown"), NoTeam, {"other", "grant", "admin"}, {u2}, 4)
Features == S(Two("user", "manager"), [NoTeam EXCEPT ![u2] = {u1}], {"feature", "grant"}, {u1}, 4)

R(kinds, task, paid, own, platform, premium, edits, errors) ==
    [kinds |-> kinds, task |-> task, paid |-> paid, own |-> own, platform |-> platform, premium |-> premium,
     edits |-> edits, errors |-> errors]

MCRank == (m1 :> 1 @@ m2 :> 2 @@ m3 :> 3)
MCProvider == (m1 :> p1 @@ m2 :> p1 @@ m3 :> p2)
MCTasks == (m1 :> {} @@ m2 :> {"score", "form_vision"} @@ m3 :> {"stt"})

NoAccounts == S(Two("user", "unknown"), NoTeam, {}, {}, 0)
NoCalls == R({}, "score", {}, {}, {}, FALSE, {}, {})

Breaking == R({"complete", "test"}, "score", {}, {}, {p1}, FALSE, {}, {"rate_limit", "broken", "bad_reply", "transient", "bug", "death"})
Streaming == R({"stream"}, "score", {}, {}, {p1}, FALSE, {"models"}, {})
Stalling == R({"stream"}, "score", {}, {}, {p1}, FALSE, {}, {"bad_reply", "bug"})
OwnKeys == R({"complete"}, "score", {m1}, {p1}, {p1}, FALSE, {"keys"}, {"transient"})
Premium == R({"request", "capped"}, "score", {m1}, {p1}, {p1}, FALSE, {"premium"}, {"transient"})
Choosing == R({"complete"}, "form_vision", {}, {}, {p1}, TRUE, {"choices", "models"}, {"transient"})

K(tabs, hands, jobs, does, fails, contents, asks) ==
    [tabs |-> tabs, hands |-> hands, jobs |-> jobs, does |-> does, fails |-> fails, contents |-> contents, asks |-> asks]
OneTab == K({t1}, {w1}, {}, {"upload", "blank", "later", "master", "delete", "review"}, {}, 1, 4)
TwoTabs == K({t1, t2}, {w1}, {}, {"upload", "master", "delete"}, {}, 1, 4)
Parsing == K({t1}, {w1, w2}, {}, {"upload", "reparse", "review", "profile", "delete"}, {"model", "bug"}, 1, 4)
Rebuilding == K({t1}, {w1, w2}, {j1}, {"upload", "prep", "again", "delete"}, {"model"}, 1, 4)
Tailoring == K({t1}, {w1}, {j1}, {"upload", "prep", "review", "letter", "nothing"}, {"model", "bug"}, 2, 4)
TwoJobs == K({t1, t2}, {w1}, {j1, j2}, {"upload", "prep"}, {}, 1, 4)

BS(forms, fillers, does, acts, asks) ==
    [forms |-> forms, fillers |-> fillers, does |-> does, acts |-> acts, asks |-> asks]
Filling == BS({r1, r2}, {f1, f2}, {"answer", "save", "delete"}, 1, 2)
Keeping == BS({r2, "page"}, {f1}, {"save", "edit", "answer"}, 2, 1)
Reviewing == BS({r1, r3}, {f1}, {"review", "picky"}, 1, 2)
MCAlike == {<<q1, q2>>, <<q2, q1>>}

L(codes, changes, pages, saves, months) ==
    [codes |-> codes, changes |-> changes, pages |-> pages, saves |-> saves, months |-> months]
Pairing == L(3, 1, {}, 0, 0)
TwoPages == L(1, 0, {<<x1, x2>>, <<x2, x1>>}, 3, 0)
Months == L(1, 1, {<<x1>>, <<x1, x2>>}, 3, 1)

Blocked == [processes |-> {o1}, days |-> 4, runs |-> 5]

\* Forms, as (all pages now, later, ...).
Same == [q \in {a1, a2, a3} |-> q]
Pg(asks, required, buttons, clear) == [asks |-> asks, required |-> required, buttons |-> buttons, clear |-> clear]
F(first, later, multi, tag, stuck, says, moves, walkers) ==
    [first |-> first, later |-> later, multi |-> multi, tag |-> tag, stuck |-> stuck, says |-> says, moves |-> moves, walkers |-> walkers]
G(n) == Pg({n}, {n}, {"go"}, TRUE)
Z(n) == Pg({n}, {n}, {"send"}, TRUE)
OnePage == F(<<Pg({a1, a2}, {a1}, {"send"}, TRUE)>>, <<Pg({a1, a2, a3}, {a1, a3}, {"send"}, TRUE)>>, FALSE, "button", {a2}, {}, {}, {v1, v2})
Grown == F(<<G(a1), Z(a2)>>, <<G(a1), Pg({a2, a3}, {a2, a3}, {"send"}, TRUE)>>, TRUE, "button", {}, {}, {"done", "give_up"}, {v1, v2})
Swapped == F(<<G(a1), Z(a2)>>, <<G(a2), Z(a1)>>, TRUE, "button", {a1}, {}, {"fill", "send", "other", "done", "give_up"}, {v1})
Longer3 == F(<<G(a1), Z(a2)>>, <<G(a1), G(a2), Z(a3)>>, TRUE, "button", {}, {}, {"done"}, {v1})
Unclear == F(<<[G(a1) EXCEPT !.clear = FALSE], [Z(a2) EXCEPT !.clear = FALSE]>>, <<Z(a1)>>, TRUE, "button", {a1}, {"right", "nothing"}, {"fill", "send", "done", "give_up"}, {v1})
Long == F(<<G(a1), G(a2), Pg({}, {}, {"send"}, TRUE)>>, <<G(a1), G(a2), G(a3), Z(a3)>>, TRUE, "button", {}, {}, {"give_up"}, {v1})

NoPacks == K({}, {}, {}, {}, {}, 0, 0)
NoForms == BS({}, {}, {}, 0, 0)
NoPages == L(0, 0, {}, 0, 0)
NoPauses == [processes |-> {}, days |-> 0, runs |-> 0]
NoForm == F(<<>>, <<>>, FALSE, "button", {}, {}, {}, {})

MCScenes ==
    {<<s, NoCalls, NoPacks, NoForms, NoPages, NoPauses, NoForm>> :
         s \in {Codes, Sessions, Resets, Admining, Owning, SigningUp, Features}}
    \cup {<<NoAccounts, r, NoPacks, NoForms, NoPages, NoPauses, NoForm>> : r \in 
              {Breaking, Streaming, Stalling, OwnKeys, Premium, Choosing}}
    \cup {<<NoAccounts, NoCalls, k, NoForms, NoPages, NoPauses, NoForm>> :
              k \in {OneTab, TwoTabs, Parsing, Rebuilding, Tailoring, TwoJobs}}
    \cup {<<NoAccounts, NoCalls, NoPacks, b, NoPages, NoPauses, NoForm>> : b \in {Filling, Keeping, Reviewing}}
    \cup {<<NoAccounts, NoCalls, NoPacks, NoForms, l, NoPauses, NoForm>> : l \in {Pairing, TwoPages, Months}}
    \cup {<<NoAccounts, NoCalls, NoPacks, NoForms, NoPages, Blocked, NoForm>>}
    \cup {<<NoAccounts, NoCalls, NoPacks, NoForms, NoPages, NoPauses, f>> :
              f \in {OnePage, Grown, Swapped, Longer3, Unclear, Long}}
Situations(n) == {s[n] : s \in MCScenes}
MCAccountScenes == Situations(1)
MCRouterScenes == Situations(2)
MCPackScenes == Situations(3)
MCBankScenes == Situations(4)
MCLinkScenes == Situations(5)
MCBlockScenes == Situations(6)
MCFormScenes == Situations(7)

\* Threads are alike, and so are calls.
Interchangeable == Permutations({h1, h2}) \cup Permutations({k1, k2})

\* A situation of one service is a null situation of the others.
MCInit == ServicesInit /\ <<uscene, rscene, kscene, bscene, lscene, xscene, fscene>> \in MCScenes
MCSpec == MCInit /\ [][ServicesNext]_svars
=============================================================================
