---------------------------- MODULE ApplyBlocks ----------------------------
(***************************************************************************)
(* The pause of Auto apply on one platform that refuses the server's        *)
(* browser (app/services/apply_blocks.py): a field of a Redis hash, and the *)
(* copy of it that each process of the API and of the workers keeps for     *)
(* CACHE_SECONDS.  Time is in units of the first pause; what happens within *)
(* a unit may be seconds apart.                                             *)
(***************************************************************************)
EXTENDS Naturals

CONSTANTS
    Processes,
    MaxHours,       \* APPLY_BLOCK_MAX_PAUSE_HOURS
    RepeatWindow,   \* REPEAT_WINDOW_SECONDS
    BlockScenes     \* the situations looked at

\* A situation: processes with a browser, days that pass, and runs.
BlockScene == [processes : SUBSET Processes, days : Nat, runs : Nat]

ASSUME BlockConstants == MaxHours \in Nat \ {0} /\ RepeatWindow \in Nat /\ BlockScenes \subseteq BlockScene

VARIABLES
    xscene,     \* the situation, which never changes
    today,
    block,      \* the field of the platform
    copy,       \* what each process last read of it
    page,       \* the page each process is opening
    opened,     \* pages opened so far
    cleared     \* the last step was an admin's

xvars == <<xscene, today, block, copy, page, opened, cleared>>

NoBlock == [hours |-> 0, at |-> 0, until |-> 0]
NoCopy == [read |-> FALSE, row |-> NoBlock]

BlocksInit ==
    /\ xscene \in BlockScenes
    /\ today = 1
    /\ block = NoBlock
    /\ copy = [p \in Processes |-> NoCopy]
    /\ page = [p \in Processes |-> "none"]
    /\ opened = 0
    /\ cleared = FALSE

\* _read: the copy while it is fresh.
Read(p) == IF copy[p].read THEN copy[p] ELSE [read |-> TRUE, row |-> block]
\* paused; an expired row pauses nothing.
Paused(row) == row.until > today

\* A run starts: create_run and the worker ask whether the platform is paused.
StartRun(p) ==
    /\ p \in xscene.processes /\ page[p] = "none" /\ opened < xscene.runs
    /\ copy' = [copy EXCEPT ![p] = Read(p)]
    /\ page' = [page EXCEPT ![p] = IF Paused(Read(p).row) THEN "none" ELSE "opening"]
    /\ opened' = opened + 1 /\ cleared' = FALSE
    /\ UNCHANGED <<xscene, today, block>>

PageEnds(p) == page' = [page EXCEPT ![p] = "none"] /\ cleared' = FALSE /\ UNCHANGED <<xscene, today, opened>>
AtMost(hours) == IF hours > MaxHours THEN MaxHours ELSE hours
\* record: a block within RepeatWindow of the last doubles its pause.
Longer == IF block # NoBlock /\ today - block.at < RepeatWindow THEN AtMost(block.hours * 2) ELSE 1
\* Fault: the process keeps its copy.
StillKnown(p) == copy[p]
Forgotten(p) == NoCopy
Record(p) ==
    /\ page[p] = "opening"
    /\ block' = [hours |-> Longer, at |-> today, until |-> today + Longer]
    /\ copy' = [copy EXCEPT ![p] = Forgotten(p)]
    /\ PageEnds(p)

\* note_ok: a page opened cleanly, and the block this process knows is over.
\* One that never was blocked has nothing to forget.
NoteOk(p) ==
    /\ page[p] = "opening"
    /\ IF Read(p).row # NoBlock /\ ~Paused(Read(p).row)
       THEN block' = NoBlock /\ copy' = [copy EXCEPT ![p] = NoCopy]
       ELSE copy' = [copy EXCEPT ![p] = Read(p)] /\ UNCHANGED block
    /\ PageEnds(p)
\* Neither: the page never loaded.
GivesUp(p) == page[p] = "opening" /\ PageEnds(p) /\ UNCHANGED <<block, copy>>

\* clear, by an admin.
Clear(p) ==
    /\ p \in xscene.processes /\ block # NoBlock
    /\ block' = NoBlock /\ copy' = [copy EXCEPT ![p] = NoCopy]
    /\ cleared' = TRUE
    /\ UNCHANGED <<xscene, today, page, opened>>

\* A copy is over after CACHE_SECONDS, and all are when a day passes.
CopyExpires(p) ==
    /\ copy[p].read /\ copy' = [copy EXCEPT ![p] = NoCopy] /\ cleared' = FALSE
    /\ UNCHANGED <<xscene, today, block, page, opened>>
DayPasses ==
    /\ today <= xscene.days /\ today' = today + 1
    /\ copy' = [p \in Processes |-> NoCopy] /\ cleared' = FALSE
    /\ UNCHANGED <<xscene, block, page, opened>>

BlocksNext ==
    \/ DayPasses
    \/ \E p \in Processes : StartRun(p) \/ Record(p) \/ NoteOk(p) \/ GivesUp(p) \/ Clear(p) \/ CopyExpires(p)
BlocksSpec == BlocksInit /\ [][BlocksNext]_xvars

BlocksTypeOK ==
    /\ xscene \in BlockScenes /\ today \in Nat
    /\ block \in [hours : 0..MaxHours, at : Nat, until : Nat]
    /\ page \in [Processes -> {"none", "opening"}]

\* A pause lasts until its time or until an admin clears it: a page that opens
\* cleanly forgets only a block that is over (apply_blocks.py:11, :111).  It
\* holds while one process opens pages: the copy another process keeps may be
\* of an older block.
PauseHolds == [][Paused(block) => \/ block'.until >= block.until
                                  \/ cleared']_xvars
=============================================================================
