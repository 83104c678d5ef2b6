----------------------------- MODULE ApplyPack -----------------------------
(***************************************************************************)
(* The resumes of one user and the prep packs made from them                *)
(* (app/services/resume_store.py, profile_fill.py, apply_prep.py, the two   *)
(* tasks of core/celery_tasks.py, api/routes/profile.py and apply.py).      *)
(*                                                                          *)
(* A request is two steps: what it reads, and the transaction it commits.   *)
(* Content stands for the parsed profile of a resume, and for the sha256 of *)
(* it that a pack keeps; 0 is none.  Rows are numbered as they are created; *)
(* a number is never used again.                                            *)
(***************************************************************************)
EXTENDS Naturals, FiniteSets

CONSTANTS
    PackJobs,
    Tabs,           \* requests of the user that may overlap
    Hands,          \* processes of the default queue
    MaxRows,        \* bound: resumes ever created
    MaxPacks,       \* bound: packs ever created
    MaxQueued,      \* bound: tasks of one kind and row waiting
    MaxUploads,     \* RESUME_MAX_PER_USER
    Versions,       \* contents the model and the user may write: 1..Versions
    PackScenes      \* the situations looked at, see PackScene

\* A situation: the tabs and workers there are, what the user does, what may
\* fail, and how many requests there are.
PackScene == [tabs : SUBSET Tabs, hands : SUBSET Hands, jobs : SUBSET PackJobs, does : SUBSET
                  {"upload", "blank", "later", "master", "delete", "review", "reparse", "profile", "prep", "again",
                   "letter", "nothing"},
              fails : SUBSET {"model", "bug"}, contents : 0..Versions, asks : Nat]

ASSUME PackConstants ==
    /\ {MaxRows, MaxPacks, MaxUploads, Versions} \subseteq Nat /\ MaxQueued \in Nat \ {0}
    /\ PackScenes \subseteq PackScene

VARIABLES
    kscene,     \* the situation, which never changes
    resume,     \* the rows of resumes
    pack,       \* the rows of apply_packs, by job
    info,       \* a field of the user's applicant info: who filled it
    parses,     \* parse_resume tasks waiting, by row
    builds,     \* build_apply_pack tasks waiting, by pack
    tab,        \* what each request is doing
    hand,       \* what each worker is doing
    asked,      \* requests made, and packs ever created
    crossed     \* history: two requests of the user were under way at once

kvars == <<kscene, resume, pack, info, parses, builds, tab, hand, asked, crossed>>

Rows == 1..MaxRows
Contents == 0..Versions
New == 1..kscene.contents

\* from: what a tailored copy was written from (history).
NoResume == [state |-> "unused", version |-> 0, master |-> FALSE, parent |-> 0, status |-> "none",
             content |-> 0, from |-> 0]
Gone == [NoResume EXCEPT !.state = "gone"]
\* letter: what the cover letter was written from.
NoPack == [id |-> 0, master |-> 0, hash |-> 0, status |-> "none", resume |-> FALSE, cover |-> FALSE,
           tailored |-> 0, letter |-> 0]
IdleTab == [pc |-> "idle", row |-> 0, was |-> FALSE, version |-> 0, status |-> "none", content |-> 0,
            info |-> "same", job |-> "none", pack |-> 0, resume |-> FALSE, cover |-> FALSE]
IdleHand == [pc |-> "idle", row |-> 0, pack |-> 0, content |-> 0, old |-> 0, info |-> "same",
             resume |-> FALSE, cover |-> FALSE, status |-> "none"]

PackInit ==
    /\ kscene \in PackScenes
    /\ resume = [r \in Rows |-> NoResume]
    /\ pack = [j \in PackJobs |-> NoPack]
    /\ info = "empty"
    /\ parses = [r \in Rows |-> 0]
    /\ builds = [p \in 1..MaxPacks |-> 0]
    /\ tab = [q \in Tabs |-> IdleTab]
    /\ hand = [w \in Hands |-> IdleHand]
    /\ asked = [requests |-> 0, packs |-> 0]
    /\ crossed = FALSE

----------------------------------------------------------------------------
(* Rows and what the database does to them *)

Kept == {r \in Rows : resume[r].state = "kept"}
Uploads == {r \in Kept : resume[r].parent = 0}
Masters == {r \in Kept : resume[r].master}
Fresh == CHOOSE r \in Rows : resume[r].state = "unused" /\ \A n \in Rows : n < r => resume[n].state # "unused"
HasRoom == \E r \in Rows : resume[r].state = "unused"
Highest(rows) == {r \in rows : \A n \in rows : resume[n].version <= resume[r].version}
LastVersion == IF Kept = {} THEN 0 ELSE resume[CHOOSE r \in Highest(Kept) : TRUE].version

\* The rows once `lost` are deleted: parent_id is set to NULL.
RowsWithout(rows, lost) ==
    [r \in Rows |-> IF r \in lost THEN Gone
                    ELSE [rows[r] EXCEPT !.parent = IF @ \in lost THEN 0 ELSE @]]
\* The packs: those of a deleted master go with it, tailored_resume_id is set
\* to NULL.
PacksWithout(lost) ==
    [j \in PackJobs |-> IF pack[j].master \in lost THEN NoPack
                        ELSE [pack[j] EXCEPT !.tailored = IF @ \in lost THEN 0 ELSE @]]

\* usable_master: with two masters either may be found.
Usable(r) == r \in Masters /\ resume[r].status \in {"parsed", "reviewed"} /\ resume[r].content # 0

\* fill_empty, on the applicant info it reads: what the user typed stays.
Filled(now) == IF now = "empty" THEN "filled" ELSE "same"

----------------------------------------------------------------------------
(* Requests of the user *)

\* A request begins, with what it read.
Asks(q, t) ==
    /\ q \in kscene.tabs /\ tab[q].pc = "idle" /\ asked.requests < kscene.asks
    /\ tab' = [tab EXCEPT ![q] = t]
    /\ asked' = [asked EXCEPT !.requests = @ + 1]
    /\ crossed' = (crossed \/ \E p \in Tabs \ {q} : tab[p].pc # "idle")
    /\ UNCHANGED <<kscene, resume, pack, info, parses, builds, hand>>
May(event) == event \in kscene.does
\* ... and ends: with the answer it gave, or with an error.
TabEnds(q) == tab' = [tab EXCEPT ![q] = IdleTab]
Fails(q) == TabEnds(q) /\ UNCHANGED <<resume, pack, info, parses, builds, asked>>

\* create_resume: one that is too large, of another type, or already there is
\* refused without a trace.  A scanned file has no text; a user may ask for no
\* parse.
Upload(q) ==
    /\ May("upload") /\ HasRoom /\ Cardinality(Uploads) < MaxUploads
    /\ \E status \in {"pending"} \cup (IF May("blank") THEN {"no_text"} ELSE {})
                     \cup (IF May("later") THEN {"unparsed"} ELSE {}) :
         Asks(q, [IdleTab EXCEPT !.pc = "upload", !.version = LastVersion + 1, !.was = Masters = {},
                                 !.status = status])
\* uq_resumes_user_version refuses a version that was given out meanwhile.
UploadCommits(q) ==
    LET t == tab[q] IN
    /\ t.pc = "upload" /\ HasRoom
    /\ IF \E r \in Kept : resume[r].version = t.version
       THEN Fails(q)
       ELSE /\ resume' = [resume EXCEPT ![Fresh] = [NoResume EXCEPT !.state = "kept", !.version = t.version,
                                                        !.master = t.was, !.status = t.status]]
            /\ parses' = IF t.status = "pending" THEN [parses EXCEPT ![Fresh] = 1] ELSE parses
            /\ TabEnds(q)
            /\ UNCHANGED <<pack, info, builds, asked>>
    /\ UNCHANGED <<kscene, hand, crossed>>

\* set_master: any resume of the user, a tailored copy too.
SetMaster(q) ==
    /\ May("master")
    /\ \E r \in Kept : Asks(q, [IdleTab EXCEPT !.pc = "master", !.row = r, !.was = resume[r].master])
Chosen(q, r) == r = tab[q].row
\* The other rows are cleared where they are; the row itself is written only
\* when it was not the master as it was read, and must still be there.
SetMasterCommits(q) ==
    LET t == tab[q] IN
    /\ t.pc = "master"
    /\ IF t.row \notin Kept /\ ~t.was
       THEN Fails(q)
       ELSE /\ resume' = [r \in Rows |-> [resume[r] EXCEPT !.master =
                              IF Chosen(q, r) THEN r \in Kept /\ (@ \/ ~t.was) ELSE FALSE]]
            /\ TabEnds(q)
            /\ UNCHANGED <<pack, info, parses, builds, asked>>
    /\ UNCHANGED <<kscene, hand, crossed>>

Delete(q) ==
    /\ May("delete")
    /\ \E r \in Kept : Asks(q, [IdleTab EXCEPT !.pc = "delete", !.row = r, !.was = resume[r].master])
\* Its copies go with it, and the packs of all of them.
Derived(r) == {r} \cup {n \in Kept : resume[n].parent = r}
Newest(rows) ==
    LET left == {r \in Rows : rows[r].state = "kept" /\ rows[r].parent = 0}
    IN {r \in left : \A n \in left : rows[n].version <= rows[r].version}
\* Deleting the master promotes the newest upload that is left.
Promoted(rows, was) ==
    [r \in Rows |-> IF was /\ r \in Newest(rows) THEN [rows[r] EXCEPT !.master = TRUE] ELSE rows[r]]
DeleteCommits(q) ==
    LET t == tab[q] IN
    /\ t.pc = "delete"
    /\ resume' = Promoted(RowsWithout(resume, Derived(t.row)), t.was)
    /\ pack' = PacksWithout(Derived(t.row))
    /\ TabEnds(q)
    /\ UNCHANGED <<kscene, info, parses, builds, hand, asked, crossed>>

\* save_review: the user's version; the profile is filled from a master.
Review(q) ==
    /\ May("review")
    /\ \E r \in Kept, c \in New :
         Asks(q, [IdleTab EXCEPT !.pc = "review", !.row = r, !.content = c,
                                 !.info = IF resume[r].master THEN Filled(info) ELSE "same"])
ReviewCommits(q) ==
    LET t == tab[q] IN
    /\ t.pc = "review"
    /\ IF t.row \notin Kept
       THEN Fails(q)
       ELSE /\ resume' = [resume EXCEPT ![t.row].content = t.content, ![t.row].status = "reviewed"]
            /\ info' = IF t.info = "same" THEN info ELSE t.info
            /\ TabEnds(q)
            /\ UNCHANGED <<pack, parses, builds, asked>>
    /\ UNCHANGED <<kscene, hand, crossed>>

\* reparse_resume: one statement on one row, then the task.
Reparse(q) ==
    /\ May("reparse")
    /\ \E r \in Kept : /\ resume[r].status # "no_text" /\ parses[r] < MaxQueued
                       /\ Asks(q, [IdleTab EXCEPT !.pc = "reparse", !.row = r])
ReparseCommits(q) ==
    LET r == tab[q].row IN
    /\ tab[q].pc = "reparse"
    /\ IF r \notin Kept \/ parses[r] >= MaxQueued
       THEN Fails(q)
       ELSE /\ resume' = [resume EXCEPT ![r].status = "pending"]
            /\ parses' = [parses EXCEPT ![r] = @ + 1]
            /\ TabEnds(q)
            /\ UNCHANGED <<pack, info, builds, asked>>
    /\ UNCHANGED <<kscene, hand, crossed>>

\* put_profile writes the whole applicant info; the user may empty a field.
SaveProfile(q) ==
    /\ May("profile") /\ q \in kscene.tabs /\ tab[q].pc = "idle" /\ asked.requests < kscene.asks
    /\ info' \in {"typed", "empty"} \ {info}
    /\ asked' = [asked EXCEPT !.requests = @ + 1]
    /\ UNCHANGED <<kscene, resume, pack, parses, builds, tab, hand, crossed>>

\* request_pack, as it reads the master and the pack of the job: what the pack
\* has may be enough, or being made.
PackReused(p, r, again, want) ==
    /\ p.id # 0 /\ ~again /\ p.hash = resume[r].content /\ p.master = r
    /\ \/ p.status = "pending"
       \/ p.status = "ready" /\ (p.tailored # 0 \/ ~want[1]) /\ (p.letter # 0 \/ ~want[2])
Prepare(q) ==
    /\ May("prep")
    /\ \E r \in Rows, j \in kscene.jobs, again \in {FALSE} \cup (IF May("again") THEN {TRUE} ELSE {}),
          want \in {<<TRUE, TRUE>>} \cup (IF May("letter") THEN {<<FALSE, TRUE>>} ELSE {})
                   \cup (IF May("nothing") THEN {<<FALSE, FALSE>>} ELSE {}) :
         /\ Usable(r) /\ ~PackReused(pack[j], r, again, want)
         /\ pack[j].id = 0 => asked.packs < MaxPacks
         /\ Asks(q, [IdleTab EXCEPT !.pc = "prep", !.row = r, !.content = resume[r].content, !.job = j,
                                    !.pack = pack[j].id, !.resume = want[1], !.cover = want[2]])
\* The row of the pack once it is asked for again.
Requested(p, t) ==
    [p EXCEPT !.master = t.row, !.hash = t.content, !.resume = t.resume, !.cover = t.cover, !.status = "pending"]
\* uq_apply_packs_user_job and the foreign key refuse the rest.
Refused(t) == pack[t.job].id # t.pack \/ t.row \notin Kept
PrepareCommits(q) ==
    LET t == tab[q]
        id == IF t.pack = 0 THEN asked.packs + 1 ELSE t.pack
    IN /\ t.pc = "prep"
       /\ IF Refused(t)
          THEN Fails(q)
          ELSE /\ id <= MaxPacks /\ builds[id] < MaxQueued
               /\ pack' = [pack EXCEPT ![t.job] = [Requested(@, t) EXCEPT !.id = id]]
               /\ builds' = [builds EXCEPT ![id] = @ + 1]
               /\ asked' = [asked EXCEPT !.packs = IF t.pack = 0 THEN id ELSE @]
               /\ TabEnds(q)
               /\ UNCHANGED <<resume, info, parses>>
       /\ UNCHANGED <<kscene, hand, crossed>>

----------------------------------------------------------------------------
(* parse_resume_task *)

\* parse_resume: the row, and the text it was given at the upload.
TakeParse(w) ==
    /\ w \in kscene.hands /\ hand[w].pc = "idle"
    /\ \E r \in {x \in Rows : parses[x] > 0} :
         /\ parses' = [parses EXCEPT ![r] = @ - 1]
         /\ hand' = IF r \in Kept THEN [hand EXCEPT ![w] = [IdleHand EXCEPT !.pc = "parse", !.row = r]] ELSE hand
    /\ UNCHANGED <<kscene, resume, pack, info, builds, tab, asked, crossed>>

Frees(w) == hand' = [hand EXCEPT ![w] = IdleHand]
ParseFailed(w) ==
    /\ resume' = [resume EXCEPT ![hand[w].row].status = "failed"]
    /\ Frees(w)
    /\ UNCHANGED <<kscene, pack, info, parses, builds, tab, asked, crossed>>

\* The model answered: the row is read again, and the profile if it is the
\* master now.  A row that is gone ends the task.
ModelRead(w) ==
    LET r == hand[w].row IN
    /\ hand[w].pc = "parse"
    /\ IF r \notin Kept
       THEN Frees(w)
       ELSE \E c \in New : hand' = [hand EXCEPT ![w].pc = "save", ![w].content = c,
                                ![w].info = IF resume[r].master THEN Filled(info) ELSE "same"]
    /\ UNCHANGED <<kscene, resume, pack, info, parses, builds, tab, asked, crossed>>
\* It replaces whatever the row holds, reviewed or not.
ParseSaves(w) ==
    LET h == hand[w] IN
    /\ h.pc = "save"
    /\ IF h.row \notin Kept
       THEN Frees(w) /\ UNCHANGED <<resume, info>>
       ELSE /\ resume' = [resume EXCEPT ![h.row].content = h.content, ![h.row].status = "parsed"]
            /\ info' = IF h.info = "same" THEN info ELSE h.info
            /\ Frees(w)
    /\ UNCHANGED <<kscene, pack, parses, builds, tab, asked, crossed>>
\* No model, or an exception the task turns into a failed parse.
ParseFails(w) ==
    /\ hand[w].pc = "parse" /\ "model" \in kscene.fails /\ hand[w].row \in Kept
    /\ ParseFailed(w)
ParseCrashes(w) ==
    /\ hand[w].pc \in {"parse", "save"} /\ "bug" \in kscene.fails /\ hand[w].row \in Kept
    /\ ParseFailed(w)

----------------------------------------------------------------------------
(* build_apply_pack_task *)

JobOfPack(p) == {j \in PackJobs : pack[j].id = p}

\* build_pack reads the pack and its master once: what is wanted, and the copy
\* it will replace, are those of that moment.
TakeBuild(w) ==
    /\ w \in kscene.hands /\ hand[w].pc = "idle"
    /\ \E p \in {x \in 1..MaxPacks : builds[x] > 0} :
         /\ builds' = [builds EXCEPT ![p] = @ - 1]
         /\ \/ JobOfPack(p) = {} /\ UNCHANGED <<pack, hand>>
            \/ \E j \in JobOfPack(p) :
                 LET m == pack[j].master IN
                 IF resume[m].content = 0
                 THEN pack' = [pack EXCEPT ![j].status = "failed"] /\ UNCHANGED hand
                 ELSE /\ hand' = [hand EXCEPT ![w] = [IdleHand EXCEPT !.pc = "build", !.pack = p, !.row = m,
                                      !.content = resume[m].content, !.old = pack[j].tailored,
                                      !.resume = pack[j].resume, !.cover = pack[j].cover, !.status = pack[j].status]]
                      /\ UNCHANGED pack
    /\ UNCHANGED <<kscene, resume, info, parses, tab, asked, crossed>>

\* What becomes of the two parts that were asked for.
Outcomes(wanted) ==
    IF ~wanted THEN {"skipped"} ELSE {"done"} \cup (IF "model" \in kscene.fails THEN {"failed"} ELSE {})
BuiltStatus(a, b) == IF "failed" \in {a, b} /\ "done" \notin {a, b} THEN "failed" ELSE "ready"

\* _store_tailored, and the end of the old copy: an upload is never deleted.
Stored(w) ==
    [resume EXCEPT ![Fresh] = [NoResume EXCEPT !.state = "kept", !.version = LastVersion + 1, !.parent = hand[w].row,
        !.status = "reviewed", !.content = hand[w].content, !.from = hand[w].content]]
Replaced(w) == IF hand[w].old \in Kept /\ resume[hand[w].old].parent # 0 THEN {hand[w].old} ELSE {}
\* The pack as it is committed: only what this build changed.  The database
\* takes the pack away again when the copy that was replaced is its master.
Built(p, w, a, b) ==
    [p EXCEPT !.tailored = IF a = "done" THEN Fresh ELSE @, !.letter = IF b = "done" THEN hand[w].content ELSE @,
              !.status = IF BuiltStatus(a, b) = hand[w].status THEN @ ELSE BuiltStatus(a, b)]
BuildEnds(w) ==
    /\ hand[w].pc = "build"
    /\ \E j \in JobOfPack(hand[w].pack) :
         \E a \in Outcomes(hand[w].resume), b \in Outcomes(hand[w].cover) :
           LET lost == IF a = "done" THEN Replaced(w) ELSE {} IN
           /\ a = "done" => HasRoom /\ hand[w].row \in Kept
           /\ resume' = IF a = "done" THEN RowsWithout(Stored(w), lost) ELSE resume
           /\ pack' = [PacksWithout(lost) EXCEPT
                  ![j] = IF @.id = 0 THEN @ ELSE Built(@, w, a, b)]
    /\ Frees(w)
    /\ UNCHANGED <<kscene, info, parses, builds, tab, asked, crossed>>

\* Fault: the pack of a build that crashed keeps its status.
BuildFailedNot(p) == p
\* An exception (the version was given out, the master is gone, a bug) fails
\* the pack if it is still there.
BuildFailed(p) == [p EXCEPT !.status = "failed"]
BuildCrashes(w) ==
    /\ hand[w].pc = "build"
    /\ \/ "bug" \in kscene.fails \/ JobOfPack(hand[w].pack) = {} \/ hand[w].row \notin Kept
    /\ pack' = [j \in PackJobs |-> IF j \in JobOfPack(hand[w].pack) THEN BuildFailed(pack[j]) ELSE pack[j]]
    /\ Frees(w)
    /\ UNCHANGED <<kscene, resume, info, parses, builds, tab, asked, crossed>>

----------------------------------------------------------------------------
TabNext(q) ==
    \/ Upload(q) \/ UploadCommits(q) \/ SetMaster(q) \/ SetMasterCommits(q) \/ Delete(q) \/ DeleteCommits(q)
    \/ Review(q) \/ ReviewCommits(q) \/ Reparse(q) \/ ReparseCommits(q) \/ SaveProfile(q)
    \/ Prepare(q) \/ PrepareCommits(q)
HandNext(w) ==
    \/ TakeParse(w) \/ ModelRead(w) \/ ParseSaves(w) \/ ParseFails(w) \/ ParseCrashes(w)
    \/ TakeBuild(w) \/ BuildEnds(w) \/ BuildCrashes(w)
PackNext == (\E q \in Tabs : TabNext(q)) \/ (\E w \in Hands : HandNext(w))

PackSpec == PackInit /\ [][PackNext]_kvars

----------------------------------------------------------------------------
(* Properties *)

Status == {"none", "unparsed", "pending", "parsed", "reviewed", "failed", "no_text"}
PackTypeOK ==
    /\ kscene \in PackScenes
    /\ resume \in [Rows -> [state : {"unused", "kept", "gone"}, version : 0..MaxRows, master : BOOLEAN,
                            parent : 0..MaxRows, status : Status, content : Contents, from : Contents]]
    /\ pack \in [PackJobs -> [id : 0..MaxPacks, master : 0..MaxRows, hash : Contents, resume : BOOLEAN, cover : BOOLEAN,
                              status : {"none", "pending", "ready", "failed"}, tailored : 0..MaxRows,
                              letter : Contents]]
    /\ info \in {"empty", "typed", "filled"}
    /\ parses \in [Rows -> 0..MaxQueued] /\ builds \in [1..MaxPacks -> 0..MaxQueued]

\* One resume is the master (models/profile.py:5): whatever the workers store
\* or delete meanwhile, a user who sends one request at a time never has two.
OneMaster == crossed \/ Cardinality(Masters) <= 1

\* A user with a resume of their own has a master: "exactly one is the master"
\* (models/profile.py:5).
SomeMaster == Uploads # {} => Masters # {}

\* A ready pack made for the master as it is now, which request_pack hands out
\* again, holds a copy and a letter written from it (apply_prep.py:19, "rebuilt
\* when the master's parsed content changes (master_hash)").
ReadyFollowsMaster ==
    \A j \in PackJobs :
        LET p == pack[j] IN
        p.status = "ready" /\ p.hash = resume[p.master].content =>
            /\ p.tailored # 0 => resume[p.tailored].from = p.hash
            /\ p.letter # 0 => p.letter = p.hash

\* A resume or a pack that is pending has a task waiting for a worker, or a
\* worker at it: whatever fails or is deleted, nothing is left pending for ever
\* (celery_tasks.py:1004, :1031, "a crash must not leave the ... pending
\* forever").
PendingHasTask ==
    /\ \A r \in Rows : resume[r].status = "pending" =>
           parses[r] > 0 \/ \E w \in Hands : hand[w].pc \in {"parse", "save"} /\ hand[w].row = r
    /\ \A j \in PackJobs : pack[j].status = "pending" =>
           builds[pack[j].id] > 0 \/ \E w \in Hands : hand[w].pc = "build" /\ hand[w].pack = pack[j].id

\* Uploads, deletions, failures and crashes together leave one master at most
\* and nothing pending that nobody works at.
PacksHold == OneMaster /\ PendingHasTask
=============================================================================
