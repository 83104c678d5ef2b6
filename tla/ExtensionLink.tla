--------------------------- MODULE ExtensionLink ---------------------------
(***************************************************************************)
(* The browser extension of one user (app/services/extension.py,            *)
(* api/routes/extension.py): pairing by a code, and saving the jobs of the  *)
(* pages the user looks at, from tabs that may save at the same moment.     *)
(*                                                                          *)
(* A save is one transaction of PostgreSQL through a session that flushes   *)
(* only at a savepoint and at the commit (SessionLocal, autoflush=False).   *)
(* Jobs that are refused (another site, no title, listed twice) leave no    *)
(* trace and are not in a page here.                                        *)
(***************************************************************************)
EXTENDS Naturals, FiniteSets, Sequences

CONSTANTS
    Links,          \* the URLs of jobs
    Saves,          \* saves that may be under way at once
    Browsers,       \* extensions that redeem a code
    MaxConnections, \* MAX_TOKENS_PER_USER
    MaxPaired,      \* bound: tokens ever made
    LinkScenes      \* the situations looked at, see LinkScene

\* A situation: codes the user asks for, changes an admin or the user makes to
\* the account, pages there are to save, saves, and months that pass.
LinkScene == [codes : Nat, changes : Nat, pages : SUBSET Seq(Links), saves : Nat, months : Nat]

ASSUME LinkConstants ==
    LinkScenes \subseteq LinkScene /\ MaxConnections \in Nat \ {0} /\ MaxPaired \in Nat

VARIABLES
    lscene,     \* the situation, which never changes
    pairing,    \* codes that can be redeemed, and exchanges under way
    token,      \* the rows of extension_tokens, oldest first
    account,    \* is_active and the feature browser_capture
    stored,     \* the rows of captured_jobs as committed, and their age
    save,       \* what each save is doing
    tally,      \* codes asked for, changes, saves and months so far
    met         \* history: two saves were under way at once

lvars == <<lscene, pairing, token, account, stored, save, tally, met>>

\* todo: jobs left; dirty: rows changed in memory; held: rows written and not
\* yet committed; purged: rows deleted and not yet committed.
IdleSave == [pc |-> "idle", page |-> <<>>, todo |-> <<>>, dirty |-> {}, held |-> {}, purged |-> {}]
NotPairing == [pc |-> "idle", live |-> {}]

LinkInit ==
    /\ lscene \in LinkScenes
    /\ pairing = [codes |-> 0, of |-> [b \in Browsers |-> NotPairing]]
    /\ token = <<>>
    /\ account = [active |-> TRUE, capture |-> TRUE]
    /\ stored = [x \in Links |-> "none"]
    /\ save = [s \in Saves |-> IdleSave]
    /\ tally = [codes |-> 0, changes |-> 0, saves |-> 0, months |-> 0]
    /\ met = FALSE

----------------------------------------------------------------------------
(* Pairing and tokens *)

Live == {i \in 1..Len(token) : token[i] = "live"}
CaptureAllowed == account.active /\ account.capture

\* create_pair_code, by a user who is signed in.
PairCode ==
    /\ CaptureAllowed /\ tally.codes < lscene.codes
    /\ pairing' = [pairing EXCEPT !.codes = @ + 1]
    /\ tally' = [tally EXCEPT !.codes = @ + 1]
    /\ UNCHANGED <<lscene, token, account, stored, save, met>>
PairCodeExpires ==
    /\ pairing.codes > 0
    /\ pairing' = [pairing EXCEPT !.codes = @ - 1]
    /\ UNCHANGED <<lscene, token, account, stored, save, tally, met>>
\* exchange_code: the code is gone, whatever becomes of the exchange.
Redeem(b) ==
    /\ pairing.codes > 0 /\ pairing.of[b].pc = "idle"
    /\ pairing' = [codes |-> pairing.codes - 1, of |-> [pairing.of EXCEPT ![b] =
           IF account.active THEN [pc |-> "commit", live |-> Live] ELSE @]]
    /\ UNCHANGED <<lscene, token, account, stored, save, tally, met>>
\* The oldest of the connections it read make room for the new one.
Newer(i, live) == Cardinality({n \in live : n > i})
Oldest(live) == {i \in live : Newer(i, live) + 1 >= MaxConnections}
RedeemCommits(b) ==
    /\ pairing.of[b].pc = "commit" /\ Len(token) < MaxPaired
    /\ token' = Append([i \in 1..Len(token) |-> IF i \in Oldest(pairing.of[b].live) THEN "revoked" ELSE token[i]], "live")
    /\ pairing' = [pairing EXCEPT !.of[b] = NotPairing]
    /\ UNCHANGED <<lscene, account, stored, save, tally, met>>
Revoke(i) ==
    /\ i \in Live
    /\ token' = [token EXCEPT ![i] = "revoked"]
    /\ UNCHANGED <<lscene, pairing, account, stored, save, tally, met>>
ChangeAccount ==
    /\ tally.changes < lscene.changes
    /\ \E field \in DOMAIN account : account' = [account EXCEPT ![field] = ~@]
    /\ tally' = [tally EXCEPT !.changes = @ + 1]
    /\ UNCHANGED <<lscene, pairing, token, stored, save, met>>

----------------------------------------------------------------------------
(* store_captures *)

Working(s) == save[s].pc \notin {"idle", "done", "failed"}
\* user_for_token, and the feature.
SaveStarts(s) ==
    /\ ~Working(s) /\ tally.saves < lscene.saves /\ Live # {} /\ CaptureAllowed
    /\ \E page \in lscene.pages :
         save' = [save EXCEPT ![s] = [IdleSave EXCEPT !.pc = "look", !.page = page, !.todo = page]]
    /\ tally' = [tally EXCEPT !.saves = @ + 1]
    /\ met' = (met \/ \E t \in Saves \ {s} : Working(t))
    /\ UNCHANGED <<lscene, pairing, token, account, stored>>

\* The next job: a row that is there is changed in memory.
LookUp(s) ==
    LET t == save[s] x == Head(t.todo) IN
    /\ t.pc = "look" /\ t.todo # <<>>
    /\ save' = [save EXCEPT ![s] = IF stored[x] = "none" THEN [t EXCEPT !.pc = "insert"]
                                   ELSE [t EXCEPT !.dirty = @ \cup {x}, !.todo = Tail(@)]]
    /\ UNCHANGED <<lscene, pairing, token, account, stored, tally, met>>

\* What the next statements write, and which saves hold such a row.
Stale == {x \in Links : stored[x] = "old"}
Needs(s) == CASE save[s].pc = "insert" -> {Head(save[s].todo)} \cup save[s].dirty
              [] save[s].pc = "look" /\ save[s].todo = <<>> -> Stale
              [] save[s].pc = "commit" -> save[s].dirty
              [] OTHER -> {}
WaitsFor(s) == {t \in Saves \ {s} : Needs(s) \cap (save[t].held \cup save[t].purged) # {}}
Lost(s) == {x \in save[s].dirty : stored[x] = "none" \/ x \in save[s].purged}
FailedSave(s) == save' = [save EXCEPT ![s] = [IdleSave EXCEPT !.pc = "failed"]]

\* Fault: the transaction is rolled back, not the savepoint.
SkippedAll(t) == [t EXCEPT !.pc = "look", !.todo = Tail(@), !.dirty = {}, !.held = {}]
\* A save from another tab put the job there: keep the rest.
SkippedJob(t) == [t EXCEPT !.pc = "look", !.todo = Tail(@), !.held = @ \cup t.dirty, !.dirty = {}]
Added(t) == [SkippedJob(t) EXCEPT !.held = @ \cup {Head(t.todo)}]
\* begin_nested flushes what was changed so far, then the new row is inserted.
Insert(s) ==
    /\ save[s].pc = "insert" /\ WaitsFor(s) = {}
    /\ IF Lost(s) # {} THEN FailedSave(s)
       ELSE save' = [save EXCEPT ![s] = IF stored[Head(@.todo)] = "none" THEN Added(@) ELSE SkippedJob(@)]
    /\ UNCHANGED <<lscene, pairing, token, account, stored, tally, met>>

\* The DELETE of what is older than CAPTURE_RETENTION_DAYS runs in the database,
\* where the rows changed in memory are still old.
Purge(s) ==
    /\ save[s].pc = "look" /\ save[s].todo = <<>> /\ WaitsFor(s) = {}
    /\ save' = [save EXCEPT ![s].pc = "commit", ![s].purged = Stale \ save[s].held]
    /\ UNCHANGED <<lscene, pairing, token, account, stored, tally, met>>
\* The flush of the commit: an UPDATE that finds no row fails the save.
Commit(s) ==
    LET t == save[s] IN
    /\ t.pc = "commit" /\ WaitsFor(s) = {}
    /\ IF Lost(s) # {} THEN FailedSave(s) /\ UNCHANGED stored
       ELSE /\ stored' = [x \in Links |-> IF x \in t.held \cup t.dirty THEN "recent"
                                          ELSE IF x \in t.purged THEN "none" ELSE stored[x]]
            /\ save' = [save EXCEPT ![s] = [IdleSave EXCEPT !.pc = "done", !.page = t.page]]
    /\ UNCHANGED <<lscene, pairing, token, account, tally, met>>
\* Two saves that wait for each other: the database ends one.
DeadlockEnds(s) ==
    /\ \E t \in WaitsFor(s) : s \in WaitsFor(t)
    /\ FailedSave(s)
    /\ UNCHANGED <<lscene, pairing, token, account, stored, tally, met>>

\* CAPTURE_RETENTION_DAYS pass.
MonthPasses ==
    /\ tally.months < lscene.months /\ \A s \in Saves : ~Working(s)
    /\ stored' = [x \in Links |-> IF stored[x] = "none" THEN "none" ELSE "old"]
    /\ save' = [s \in Saves |-> IdleSave]
    /\ tally' = [tally EXCEPT !.months = @ + 1]
    /\ UNCHANGED <<lscene, pairing, token, account, met>>

----------------------------------------------------------------------------
LinkNext ==
    \/ PairCode \/ PairCodeExpires \/ ChangeAccount \/ MonthPasses
    \/ \E b \in Browsers : Redeem(b) \/ RedeemCommits(b)
    \/ \E i \in 1..Len(token) : Revoke(i)
    \/ \E s \in Saves : SaveStarts(s) \/ LookUp(s) \/ Insert(s) \/ Purge(s) \/ Commit(s) \/ DeadlockEnds(s)
LinkSpec == LinkInit /\ [][LinkNext]_lvars

----------------------------------------------------------------------------
(* Properties *)

LinkTypeOK ==
    /\ lscene \in LinkScenes
    /\ pairing.codes \in Nat /\ pairing.of \in [Browsers -> [pc : {"idle", "commit"}, live : SUBSET (1..MaxPaired)]]
    /\ token \in Seq({"live", "revoked"}) /\ Len(token) <= MaxPaired
    /\ stored \in [Links -> {"none", "recent", "old"}]
    /\ \A s \in Saves : save[s].dirty \cup save[s].held \cup save[s].purged \subseteq Links

\* A save that was answered kept every job of its page, whatever another tab
\* saved at the same moment (extension.py:175, "a save from another tab at the
\* same moment: keep the rest").
PageKept == \A s \in Saves : save[s].pc = "done" => \A i \in 1..Len(save[s].page) : stored[save[s].page[i]] = "recent"

\* A save fails only when another is under way: a page saved before is saved
\* again and its jobs are updated (extension.py:168-173,
\* tests/test_extension.py:54, "same links -> updated").
SavesAgain == (\E s \in Saves : save[s].pc = "failed") => met
=============================================================================
