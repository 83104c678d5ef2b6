--------------------------- MODULE ServicesProofs ---------------------------
(* What is proved of the services beside the engine: the pauses of a         *)
(* platform, the answer bank, the saves of the browser extension, the walk   *)
(* over the pages of a form, the resumes and packs of a user, the calls of   *)
(* the AI router, and the types of all of them and of accounts together.     *)
EXTENDS Services, AccountsProofs, FiniteSetTheorems, WellFoundedInduction, TLAPS
----------------------------------------------------------------------------
(***************************************************************************)
(* While one process opens pages, a pause of a platform is lifted by time   *)
(* or by an admin, and by nothing else: for any number of runs and days and *)
(* any limits.  With two processes it is not so: one may know an older      *)
(* block, which is over, and forget the one that has replaced it.           *)
(*                                                                          *)
(* The argument: a copy that is read is of the block there is, because only *)
(* the process that has it writes the block, and forgets its copy when it   *)
(* does; so a page is opened, and a clean one noted, only when the block is *)
(* over.                                                                    *)
(***************************************************************************)

OneBrowser == \A s \in BlockScenes : \A p, q \in s.processes : p = q

\* Who opens pages or has a copy takes part in the situation.
TakesPart == \A p \in Processes : page[p] = "opening" \/ copy[p].read => p \in xscene.processes

BlocksTyped ==
    /\ xscene \in BlockScenes /\ today \in Nat /\ block.until \in Nat
    /\ block \in [hours : Nat, at : Nat, until : Nat]
    /\ page \in [Processes -> {"none", "opening"}]
    /\ copy \in [Processes -> [read : BOOLEAN, row : [hours : Nat, at : Nat, until : Nat]]]

CopiesAreTrue == \A p \in Processes : copy[p].read => copy[p].row = block
PagesAreFree == \A p \in Processes : page[p] = "opening" => ~Paused(block)

BInv == BlocksTyped /\ TakesPart /\ CopiesAreTrue /\ PagesAreFree

\* A pause is kept by every step but an admin's.
Keeps == Paused(block) => block'.until >= block.until \/ cleared'

LEMMA LongerIsNat == ASSUME BlocksTyped PROVE Longer \in Nat
<1>1. block.hours \in Nat /\ MaxHours \in Nat
  BY BlockConstants DEF BlocksTyped
<1>2. AtMost(block.hours * 2) \in Nat
  BY <1>1 DEF AtMost
<1> QED
  BY <1>2 DEF Longer

LEMMA ReadIsTrue ==
    ASSUME BInv, NEW p \in Processes
    PROVE  Read(p) = [read |-> TRUE, row |-> block]
<1>1. CASE copy[p].read
  <2>1. copy[p] \in [read : BOOLEAN, row : [hours : Nat, at : Nat, until : Nat]]
    BY DEF BInv, BlocksTyped
  <2>2. copy[p].row = block /\ copy[p].read = TRUE
    BY <1>1 DEF BInv, CopiesAreTrue
  <2> QED
    BY <1>1, <2>1, <2>2 DEF Read
<1>2. CASE ~copy[p].read
  BY <1>2 DEF Read
<1> QED
  BY <1>1, <1>2

LEMMA BlocksInitHold == BlocksInit => BInv
  BY DEF BlocksInit, BInv, BlocksTyped, TakesPart, CopiesAreTrue, PagesAreFree, NoBlock, NoCopy

LEMMA DayHolds == ASSUME BInv, DayPasses PROVE BInv' /\ Keeps
<1>1. BlocksTyped'
  BY DEF BInv, BlocksTyped, DayPasses, NoCopy, NoBlock
<1>2. TakesPart' /\ CopiesAreTrue'
  BY DEF BInv, BlocksTyped, TakesPart, CopiesAreTrue, DayPasses, NoCopy
<1>3. PagesAreFree'
  BY DEF BInv, BlocksTyped, PagesAreFree, Paused, DayPasses
<1>4. Keeps
  BY DEF Keeps, DayPasses, BInv, BlocksTyped
<1> QED
  BY <1>1, <1>2, <1>3, <1>4 DEF BInv

LEMMA StartHolds ==
    ASSUME BInv, NEW p \in Processes, StartRun(p)
    PROVE  BInv' /\ Keeps
<1>1. Read(p) = [read |-> TRUE, row |-> block]
  BY ReadIsTrue
<1>2. /\ copy' = [copy EXCEPT ![p] = [read |-> TRUE, row |-> block]]
      /\ page' = [page EXCEPT ![p] = IF Paused(block) THEN "none" ELSE "opening"]
      /\ UNCHANGED <<xscene, today, block>> /\ p \in xscene.processes
  BY <1>1 DEF StartRun
<1>3. BlocksTyped'
  BY <1>2 DEF BInv, BlocksTyped
<1>4. TakesPart' /\ CopiesAreTrue'
  BY <1>2 DEF BInv, BlocksTyped, TakesPart, CopiesAreTrue
<1>5. PagesAreFree'
  BY <1>2 DEF BInv, BlocksTyped, PagesAreFree, Paused
<1>6. Keeps
  BY <1>2 DEF Keeps, BInv, BlocksTyped
<1> QED
  BY <1>3, <1>4, <1>5, <1>6 DEF BInv

LEMMA RecordHolds ==
    ASSUME OneBrowser, BInv, NEW p \in Processes, Record(p)
    PROVE  BInv' /\ Keeps
<1>1. /\ block' = [hours |-> Longer, at |-> today, until |-> today + Longer]
      /\ copy' = [copy EXCEPT ![p] = NoCopy] /\ page' = [page EXCEPT ![p] = "none"]
      /\ UNCHANGED <<xscene, today>> /\ page[p] = "opening"
  BY DEF Record, PageEnds, Forgotten
<1>2. BlocksTyped'
  <2>1. block' \in [hours : Nat, at : Nat, until : Nat]
    BY <1>1, LongerIsNat DEF BInv, BlocksTyped
  <2>2. copy' \in [Processes -> [read : BOOLEAN, row : [hours : Nat, at : Nat, until : Nat]]]
    BY <1>1 DEF BInv, BlocksTyped, NoCopy, NoBlock
  <2> QED
    BY <1>1, <2>1, <2>2 DEF BInv, BlocksTyped
<1>3. TakesPart'
  BY <1>1 DEF BInv, BlocksTyped, TakesPart, NoCopy
<1>4. \A q \in Processes : q # p => ~copy[q].read /\ page[q] # "opening"
  BY <1>1 DEF OneBrowser, BInv, BlocksTyped, TakesPart
<1>5. CopiesAreTrue' /\ PagesAreFree'
  BY <1>1, <1>4 DEF BInv, BlocksTyped, CopiesAreTrue, PagesAreFree, NoCopy
<1>6. Keeps
  BY <1>1 DEF Keeps, BInv, PagesAreFree
<1> QED
  BY <1>2, <1>3, <1>5, <1>6 DEF BInv

LEMMA NoteHolds ==
    ASSUME OneBrowser, BInv, NEW p \in Processes, NoteOk(p)
    PROVE  BInv' /\ Keeps
<1>1. Read(p) = [read |-> TRUE, row |-> block]
  BY ReadIsTrue
<1>2. /\ page[p] = "opening" /\ page' = [page EXCEPT ![p] = "none"]
      /\ UNCHANGED <<xscene, today>>
  BY DEF NoteOk, PageEnds
<1>3. p \in xscene.processes
  BY <1>2 DEF BInv, TakesPart
<1>4. ~Paused(block)
  BY <1>2 DEF BInv, PagesAreFree
<1>5. CASE block' = NoBlock /\ copy' = [copy EXCEPT ![p] = NoCopy]
  <2>1. \A q \in Processes : q # p => ~copy[q].read /\ page[q] # "opening"
    BY <1>3 DEF OneBrowser, BInv, BlocksTyped, TakesPart
  <2>2. BlocksTyped' /\ TakesPart'
    BY <1>2, <1>5 DEF BInv, BlocksTyped, TakesPart, NoCopy, NoBlock
  <2>3. CopiesAreTrue' /\ PagesAreFree'
    BY <1>2, <1>5, <2>1 DEF BInv, BlocksTyped, CopiesAreTrue, PagesAreFree, NoCopy
  <2> QED
    BY <2>2, <2>3, <1>4 DEF BInv, Keeps
<1>6. CASE copy' = [copy EXCEPT ![p] = Read(p)] /\ UNCHANGED block
  <2>1. BlocksTyped' /\ TakesPart'
    BY <1>1, <1>2, <1>3, <1>6 DEF BInv, BlocksTyped, TakesPart
  <2>2. CopiesAreTrue' /\ PagesAreFree'
    BY <1>1, <1>2, <1>6 DEF BInv, BlocksTyped, CopiesAreTrue, PagesAreFree, Paused
  <2> QED
    BY <2>1, <2>2, <1>4 DEF BInv, Keeps
<1> QED
  BY <1>1, <1>5, <1>6 DEF NoteOk

LEMMA GivesUpHolds ==
    ASSUME BInv, NEW p \in Processes, GivesUp(p)
    PROVE  BInv' /\ Keeps
<1>1. page' = [page EXCEPT ![p] = "none"] /\ UNCHANGED <<xscene, today, block, copy>>
  BY DEF GivesUp, PageEnds
<1>2. BlocksTyped' /\ TakesPart' /\ CopiesAreTrue'
  BY <1>1 DEF BInv, BlocksTyped, TakesPart, CopiesAreTrue
<1>3. PagesAreFree' /\ Keeps
  BY <1>1 DEF BInv, BlocksTyped, PagesAreFree, Paused, Keeps
<1> QED
  BY <1>2, <1>3 DEF BInv

LEMMA ClearHolds ==
    ASSUME OneBrowser, BInv, NEW p \in Processes, Clear(p)
    PROVE  BInv' /\ Keeps
<1>1. /\ block' = NoBlock /\ copy' = [copy EXCEPT ![p] = NoCopy]
      /\ UNCHANGED <<xscene, today, page>> /\ cleared' /\ p \in xscene.processes
  BY DEF Clear
<1>2. \A q \in Processes : q # p => ~copy[q].read
  BY <1>1 DEF OneBrowser, BInv, BlocksTyped, TakesPart
<1>3. BlocksTyped' /\ TakesPart'
  BY <1>1 DEF BInv, BlocksTyped, TakesPart, NoCopy, NoBlock
<1>4. CopiesAreTrue'
  BY <1>1, <1>2 DEF BInv, BlocksTyped, CopiesAreTrue, NoCopy
<1>5. PagesAreFree'
  BY <1>1 DEF BInv, BlocksTyped, PagesAreFree, Paused, NoBlock
<1> QED
  BY <1>1, <1>3, <1>4, <1>5 DEF BInv, Keeps

LEMMA ExpiryHolds ==
    ASSUME BInv, NEW p \in Processes, CopyExpires(p)
    PROVE  BInv' /\ Keeps
<1>1. copy' = [copy EXCEPT ![p] = NoCopy] /\ UNCHANGED <<xscene, today, block, page>>
  BY DEF CopyExpires
<1>2. BlocksTyped' /\ TakesPart' /\ CopiesAreTrue'
  BY <1>1 DEF BInv, BlocksTyped, TakesPart, CopiesAreTrue, NoCopy, NoBlock
<1>3. PagesAreFree' /\ Keeps
  BY <1>1 DEF BInv, BlocksTyped, PagesAreFree, Paused, Keeps
<1> QED
  BY <1>2, <1>3 DEF BInv

LEMMA BlocksStepHolds == ASSUME OneBrowser, BInv, BlocksNext PROVE BInv' /\ Keeps
<1>1. CASE DayPasses
  BY <1>1, DayHolds
<1>2. CASE \E p \in Processes : StartRun(p) \/ Record(p) \/ NoteOk(p) \/ GivesUp(p) \/ Clear(p) \/ CopyExpires(p)
  BY <1>2, StartHolds, RecordHolds, NoteHolds, GivesUpHolds, ClearHolds, ExpiryHolds
<1> QED
  BY <1>1, <1>2 DEF BlocksNext

\* PauseHolds for every platform, limit, number of runs and of days, when one
\* process opens pages (apply_blocks.py:11, :111).
THEOREM PauseOutlivesPages ==
    ASSUME OneBrowser
    PROVE  BlocksSpec => PauseHolds
<1>1. BInv /\ [BlocksNext]_xvars => BInv'
  <2>1. ASSUME BInv, UNCHANGED xvars PROVE BInv'
    BY <2>1 DEF xvars, BInv, BlocksTyped, TakesPart, CopiesAreTrue, PagesAreFree, Paused
  <2> QED
    BY <2>1, BlocksStepHolds
<1>2. BInv /\ [BlocksNext]_xvars => [Keeps]_xvars
  BY BlocksStepHolds
<1>3. [Keeps]_xvars => [Paused(block) => \/ block'.until >= block.until
                                         \/ cleared']_xvars
  BY DEF Keeps
<1> QED
  BY BlocksInitHold, <1>1, <1>2, <1>3, PTL DEF BlocksSpec, PauseHolds
----------------------------------------------------------------------------
(***************************************************************************)
(* What the bank calls the user's own is a text the user typed, and private *)
(* questions are in no bank and are asked of no model: for any questions,   *)
(* forms, fillers and acts of the user.                                     *)
(*                                                                          *)
(* The argument: a filler asks only what is not private, whatever it read   *)
(* before; what it drafts is called a model's, or is dropped; and the save  *)
(* under way is of a text the user typed for a question that is not private.*)
(***************************************************************************)

Entry == [text : Texts \cup {""}, approved : BOOLEAN, origin : {"none", "user", "ai"}]

\* What is under way: the questions each filler has asked of a model, and the
\* save of the user.
AsksNothingPrivate == \A f \in Fillers : filler[f].ask \cap PrivateQuestions = {}
SavesWhatWasTyped ==
    saving.pc = "write" => saving.text \in TypedTexts /\ saving.question \in Questions \ PrivateQuestions

KInv ==
    /\ bank \in [Questions -> Entry]
    /\ DOMAIN filler = Fillers
    /\ AsksNothingPrivate /\ SavesWhatWasTyped /\ TypedStays /\ PrivateStays

\* A row of the bank that a step may write.
Proper(q, e) ==
    /\ e \in Entry
    /\ e.origin = "user" => e.text \in TypedTexts
    /\ q \in PrivateQuestions => e.origin = "none"

\* A step that writes proper rows only, and asks nothing of a model.
LEMMA ProperRowsHold ==
    ASSUME KInv, bank' \in [Questions -> Entry], \A q \in Questions : Proper(q, bank'[q]),
           UNCHANGED <<filler, told>>, SavesWhatWasTyped'
    PROVE  KInv'
  BY BankConstants DEF KInv, AsksNothingPrivate, TypedStays, PrivateStays, Has, Proper

\* The rows that are there are proper, and the user's own text is.
LEMMA StandingRows == ASSUME KInv PROVE \A q \in Questions : Proper(q, bank[q])
  BY DEF KInv, TypedStays, PrivateStays, Has, Proper

LEMMA OwnIsProper ==
    ASSUME NEW q \in Questions \ PrivateQuestions, NEW text \in TypedTexts
    PROVE  Proper(q, Own(text))
  BY DEF Proper, Own, Entry, Texts

LEMMA DraftIsProper ==
    ASSUME NEW q \in Questions \ PrivateQuestions, NEW text \in DraftTexts
    PROVE  Proper(q, [text |-> text, approved |-> FALSE, origin |-> "ai"])
  BY DEF Proper, Entry, Texts

\* One row is written.
LEMMA RowWritten ==
    ASSUME KInv, NEW q \in Questions, NEW e, Proper(q, e), bank' = [bank EXCEPT ![q] = e],
           UNCHANGED <<filler, told>>, SavesWhatWasTyped'
    PROVE  KInv'
<1>1. bank' \in [Questions -> Entry]
  BY DEF KInv, Proper
<1>2. \A n \in Questions : Proper(n, bank'[n])
  BY StandingRows DEF KInv
<1> QED
  BY <1>1, <1>2, ProperRowsHold

LEMMA InitKept == BankInit => KInv
<1>1. NoEntry \in Entry /\ NoEntry.origin = "none" /\ IdleFiller.ask = {} /\ NoSave.pc = "idle"
  BY DEF NoEntry, Entry, IdleFiller, NoSave
<1>2. ASSUME BankInit PROVE bank \in [Questions -> Entry] /\ \A q \in Questions : bank[q].origin = "none"
  BY <1>1, <1>2 DEF BankInit
<1>3. ASSUME BankInit PROVE AsksNothingPrivate /\ SavesWhatWasTyped /\ DOMAIN filler = Fillers /\ told = {}
  BY <1>1, <1>3 DEF BankInit, AsksNothingPrivate, SavesWhatWasTyped
<1> QED
  BY <1>2, <1>3, BankConstants DEF KInv, TypedStays, PrivateStays, Has

----------------------------------------------------------------------------
(* The fillers *)

LEMMA NothingPrivateAsked ==
    ASSUME NEW fields, NEW base PROVE ForAI(fields, base) \cap PrivateQuestions = {}
  BY DEF ForAI

LEMMA ReadFormHolds == ASSUME KInv, NEW f \in Fillers, ReadForm(f) PROVE KInv'
<1>1. PICK putTo, form, base :
        /\ putTo \cap PrivateQuestions = {}
        /\ filler' = [filler EXCEPT ![f] = [pc |-> "ask", form |-> form, ask |-> putTo, base |-> base]]
        /\ told' = told \cup putTo
  BY NothingPrivateAsked DEF ReadForm
<1>2. UNCHANGED <<bank, saving>>
  BY DEF ReadForm
<1>3. AsksNothingPrivate' /\ DOMAIN filler' = Fillers
  BY <1>1 DEF KInv, AsksNothingPrivate
<1>4. PrivateStays'
  BY <1>1, <1>2 DEF KInv, PrivateStays, Has
<1> QED
  BY <1>2, <1>3, <1>4 DEF KInv, SavesWhatWasTyped, TypedStays

LEMMA FillFormHolds == ASSUME KInv, NEW f \in Fillers, FillForm(f) PROVE KInv'
<1>1. PICK answered \in SUBSET filler[f].ask, text \in DraftTexts :
        bank' = [q \in Questions |-> IF q \in answered THEN Drafted(q, text) ELSE bank[q]]
  BY DEF FillForm
<1>2. filler' = [filler EXCEPT ![f] = IdleFiller] /\ UNCHANGED <<saving, told>>
  BY DEF FillForm
<1>3. ASSUME NEW q \in Questions PROVE Proper(q, bank'[q])
  <2>1. CASE q \in answered /\ ~Has(q) /\ ~BankFull
    <3>1. q \notin PrivateQuestions
      BY <1>1, <2>1 DEF KInv, AsksNothingPrivate
    <3>2. bank'[q] = [text |-> text, approved |-> FALSE, origin |-> "ai"]
      BY <1>1, <2>1 DEF Drafted
    <3> QED
      BY <3>1, <3>2, DraftIsProper
  <2>2. CASE ~(q \in answered /\ ~Has(q) /\ ~BankFull)
    <3>1. bank'[q] = bank[q]
      BY <1>1, <2>2 DEF Drafted
    <3> QED
      BY <3>1, StandingRows
  <2> QED
    BY <2>1, <2>2
<1>4. bank' \in [Questions -> Entry]
  BY <1>1, <1>3 DEF Proper
<1>5. AsksNothingPrivate' /\ DOMAIN filler' = Fillers
  BY <1>2 DEF KInv, AsksNothingPrivate, IdleFiller
<1> QED
  BY <1>2, <1>3, <1>4, <1>5, BankConstants DEF KInv, SavesWhatWasTyped, TypedStays, PrivateStays, Has, Proper

----------------------------------------------------------------------------
(* The user *)

LEMMA AnswerHolds ==
    ASSUME KInv, NEW r \in Forms, NEW q \in Questions, NEW text \in TypedTexts, AnswerQuestion(r, q, text)
    PROVE  KInv'
<1>1. bank' = Remembered(q, text) /\ UNCHANGED <<filler, saving, told>>
  BY DEF AnswerQuestion
<1>2. CASE q \in PrivateQuestions
  BY <1>1, <1>2, StandingRows, ProperRowsHold DEF Remembered, KInv, SavesWhatWasTyped
<1>3. CASE q \notin PrivateQuestions
  BY <1>1, <1>3, OwnIsProper, RowWritten DEF Remembered, KInv, SavesWhatWasTyped
<1> QED
  BY <1>2, <1>3

LEMMA ApproveRunHolds == ASSUME KInv, NEW r \in Forms, ApproveRun(r) PROVE KInv'
<1>1. bank' = [q \in Questions |-> IF q \in Reviewed(r) /\ Has(q) THEN [bank[q] EXCEPT !.approved = TRUE] ELSE bank[q]]
  BY DEF ApproveRun
<1>2. ASSUME NEW q \in Questions PROVE Proper(q, bank'[q])
  <2>1. bank[q] \in Entry /\ Proper(q, bank[q])
    BY StandingRows DEF KInv
  <2> QED
    BY <1>1, <2>1 DEF Proper, Entry
<1>3. bank' \in [Questions -> Entry]
  BY <1>1, <1>2 DEF Proper
<1> QED
  BY <1>2, <1>3, ProperRowsHold DEF ApproveRun, KInv, SavesWhatWasTyped

LEMMA SaveHolds ==
    ASSUME KInv, NEW q \in Questions, NEW text \in TypedTexts, SaveAnswer(q, text)
    PROVE  KInv'
<1>1. SavesWhatWasTyped'
  BY DEF SaveAnswer, SavesWhatWasTyped
<1> QED
  BY <1>1, StandingRows, ProperRowsHold DEF SaveAnswer, KInv

LEMMA CommitHolds == ASSUME KInv, SaveCommits PROVE KInv'
<1>1. SavesWhatWasTyped' /\ UNCHANGED <<filler, told>>
  BY DEF SaveCommits, SavesWhatWasTyped, NoSave
<1>2. saving.text \in TypedTexts /\ saving.question \in Questions \ PrivateQuestions
  BY DEF SaveCommits, KInv, SavesWhatWasTyped
<1>3. CASE bank' = [bank EXCEPT ![saving.question] = Own(saving.text)]
  BY <1>1, <1>2, <1>3, OwnIsProper, RowWritten
<1>4. CASE bank' = bank
  BY <1>1, <1>4, StandingRows, ProperRowsHold DEF KInv
<1> QED
  BY <1>3, <1>4 DEF SaveCommits

LEMMA ApproveEntryHolds ==
    ASSUME KInv, NEW q \in Questions, NEW keep \in BOOLEAN, ApproveEntry(q, keep)
    PROVE  KInv'
<1>1. bank[q] \in Entry /\ Proper(q, bank[q])
  BY StandingRows DEF KInv
<1>2. bank' = [bank EXCEPT ![q] = [bank[q] EXCEPT !.approved = keep]]
  BY DEF ApproveEntry
<1>3. Proper(q, [bank[q] EXCEPT !.approved = keep])
  BY <1>1 DEF Proper, Entry
<1> QED
  BY <1>2, <1>3, RowWritten DEF ApproveEntry, KInv, SavesWhatWasTyped

LEMMA EditHolds ==
    ASSUME KInv, NEW q \in Questions, NEW keep \in BOOLEAN, NEW text \in TypedTexts,
           EditEntry(q, text, keep)
    PROVE  KInv'
<1>1. bank[q] \in Entry /\ Proper(q, bank[q])
  BY StandingRows DEF KInv
<1>2. bank' = [bank EXCEPT ![q] = [bank[q] EXCEPT !.text = text, !.approved = keep]]
  BY DEF EditEntry
<1>3. Proper(q, [bank[q] EXCEPT !.text = text, !.approved = keep])
  BY <1>1 DEF Proper, Entry, Texts
<1> QED
  BY <1>2, <1>3, RowWritten DEF EditEntry, KInv, SavesWhatWasTyped

LEMMA DeleteHolds == ASSUME KInv, NEW q \in Questions, DeleteEntry(q) PROVE KInv'
<1>1. Proper(q, NoEntry)
  BY DEF Proper, Entry, NoEntry
<1> QED
  BY <1>1, RowWritten DEF DeleteEntry, KInv, SavesWhatWasTyped

----------------------------------------------------------------------------

LEMMA BankStepHolds == ASSUME KInv, BankNext PROVE KInv'
<1>1. CASE \E f \in Fillers : ReadForm(f) \/ FillForm(f)
  BY <1>1, ReadFormHolds, FillFormHolds
<1>2. CASE \E r \in Forms : ApproveRun(r) \/ \E q \in Questions, text \in TypedTexts : AnswerQuestion(r, q, text)
  BY <1>2, ApproveRunHolds, AnswerHolds
<1>3. CASE \E q \in Questions, text \in TypedTexts : SaveAnswer(q, text)
  BY <1>3, SaveHolds
<1>4. CASE \E q \in Questions : DeleteEntry(q)
  BY <1>4, DeleteHolds
<1>5. CASE \E q \in Questions, keep \in BOOLEAN :
              ApproveEntry(q, keep) \/ \E text \in TypedTexts : EditEntry(q, text, keep)
  BY <1>5, ApproveEntryHolds, EditHolds
<1>6. CASE SaveCommits
  BY <1>6, CommitHolds
<1> QED
  BY <1>1, <1>2, <1>3, <1>4, <1>5, <1>6 DEF BankNext

\* AnswersStay for any questions, forms, fillers and acts (answer_bank.py:13,
\* :149).
THEOREM TypedAndPrivateStay == BankSpec => []AnswersStay
<1>1. KInv /\ [BankNext]_bvars => KInv'
  <2>1. ASSUME KInv, UNCHANGED bvars PROVE KInv'
    BY <2>1 DEF bvars, KInv, AsksNothingPrivate, SavesWhatWasTyped, TypedStays, PrivateStays, Has
  <2> QED
    BY <2>1, BankStepHolds
<1>2. KInv => AnswersStay
  BY DEF KInv, AnswersStay
<1> QED
  BY InitKept, <1>1, <1>2, PTL DEF BankSpec
----------------------------------------------------------------------------
(***************************************************************************)
(* The extension: a save that was answered kept every job of its page, for  *)
(* any pages, any number of saves at once and any age of the rows.          *)
(*                                                                          *)
(* The argument: a job of the page is still to come, or changed, or written *)
(* and held, or was put there by another save and is recent; a recent row is *)
(* not purged by anybody, because what is purged was old and no save writes *)
(* a row another one has deleted before that one commits.                   *)
(***************************************************************************)
Ages == {"none", "recent", "old"}
SavePcs == {"idle", "look", "insert", "commit", "done", "failed"}
SaveRow == [pc : SavePcs, page : Seq(Links), todo : Seq(Links), dirty : SUBSET Links,
            held : SUBSET Links, purged : SUBSET Links]

SavesTyped ==
    /\ lscene \in LinkScenes
    /\ stored \in [Links -> Ages]
    /\ save \in [Saves -> SaveRow]

Listed(x, jobs) == \E k \in 1..Len(jobs) : jobs[k] = x

\* Where the jobs of the page of save t are, over the rows that are committed.
Placed(t, rows) ==
    \A i \in 1..Len(t.page) : \/ Listed(t.page[i], t.todo)
                              \/ t.page[i] \in t.dirty \cup t.held
                              \/ rows[t.page[i]] = "recent"

\* A save looks up and inserts the jobs in turn, purges when there are none
\* left, and what it purges stays old until it commits.
InTurn(t, rows) ==
    /\ t.pc = "insert" => t.todo # <<>> /\ rows[Head(t.todo)] # "old"
    /\ t.pc = "commit" => t.todo = <<>>
    /\ t.pc # "commit" => t.purged = {}
    /\ t.pc = "done" => t.todo = <<>> /\ t.dirty = {} /\ t.held = {}
    /\ \A x \in t.purged : rows[x] = "old"
    /\ t.pc \in {"look", "insert", "commit", "done"} => Placed(t, rows)

\* Two saves never write or delete the same row.
Apart == \A s, t \in Saves : s # t => /\ save[s].held \cap (save[t].held \cup save[t].purged) = {}
                                      /\ save[s].purged \cap save[t].purged = {}

LinkInv == SavesTyped /\ (\A s \in Saves : InTurn(save[s], stored)) /\ Apart

LEMMA HeadLeaves ==
    ASSUME NEW jobs \in Seq(Links), jobs # <<>>
    PROVE  /\ Tail(jobs) \in Seq(Links) /\ Head(jobs) \in Links
           /\ \A x : Listed(x, jobs) => x = Head(jobs) \/ Listed(x, Tail(jobs))
<1>1. /\ Len(jobs) \in Nat \ {0} /\ Head(jobs) = jobs[1] /\ Head(jobs) \in Links
      /\ Tail(jobs) \in Seq(Links) /\ Len(Tail(jobs)) = Len(jobs) - 1
      /\ \A k \in 1..(Len(jobs) - 1) : Tail(jobs)[k] = jobs[k + 1]
  OBVIOUS
<1>2. ASSUME NEW x, Listed(x, jobs), x # Head(jobs)
      PROVE  Listed(x, Tail(jobs))
  <2>1. PICK k \in 1..Len(jobs) : jobs[k] = x
    BY <1>2 DEF Listed
  <2>2. k - 1 \in 1..Len(Tail(jobs)) /\ Tail(jobs)[k - 1] = x
    BY <1>1, <1>2, <2>1
  <2> QED
    BY <2>2 DEF Listed
<1> QED
  BY <1>1, <1>2

\* A row that is only written or renewed leaves the other saves in order.
LEMMA OthersInTurn ==
    ASSUME LinkInv, NEW s \in Saves, NEW r \in SaveRow, save' = [save EXCEPT ![s] = r],
           lscene' = lscene, stored' \in [Links -> Ages],
           \A x \in Links : stored'[x] = "old" => stored[x] = "old",
           \A x \in Links : stored[x] = "recent" => stored'[x] = "recent",
           \A t \in Saves \ {s} : \A x \in save[t].purged : stored'[x] = "old",
           InTurn(r, stored'),
           \A t \in Saves \ {s} : /\ r.held \cap (save[t].held \cup save[t].purged) = {}
                                  /\ r.purged \cap (save[t].held \cup save[t].purged) = {}
    PROVE  LinkInv'
<1>1. SavesTyped'
  BY DEF LinkInv, SavesTyped
<1>2. save'[s] = r /\ \A t \in Saves : t # s => save'[t] = save[t]
  BY DEF LinkInv, SavesTyped
<1>3. ASSUME NEW t \in Saves, t # s PROVE InTurn(save[t], stored')
  <2>1. save[t] \in SaveRow /\ InTurn(save[t], stored)
    BY DEF LinkInv, SavesTyped
  <2>2. save[t].todo # <<>> => Head(save[t].todo) \in Links
    BY <2>1, HeadLeaves DEF SaveRow
  <2>3. \A i \in 1..Len(save[t].page) : save[t].page[i] \in Links
    BY <2>1 DEF SaveRow
  <2>4. Placed(save[t], stored) => Placed(save[t], stored')
    BY <2>3 DEF Placed
  <2> QED
    BY <1>3, <2>1, <2>2, <2>4 DEF InTurn
<1>4. \A t \in Saves : InTurn(save'[t], stored')
  BY <1>2, <1>3
<1>5. Apart'
  <2> SUFFICES ASSUME NEW t \in Saves, NEW u \in Saves, t # u
               PROVE  /\ save'[t].held \cap (save'[u].held \cup save'[u].purged) = {}
                      /\ save'[t].purged \cap save'[u].purged = {}
    BY DEF Apart
  <2>1. CASE t # s /\ u # s
    BY <1>2, <2>1 DEF LinkInv, Apart
  <2>2. CASE t = s
    BY <1>2, <2>2
  <2>3. CASE u = s
    BY <1>2, <2>3
  <2> QED
    BY <2>1, <2>2, <2>3
<1> QED
  BY <1>1, <1>4, <1>5 DEF LinkInv

\* A step of a save that commits nothing, and comes to hold or purge nothing
\* that another save holds or purges.
LEMMA SaveMoves ==
    ASSUME LinkInv, NEW s \in Saves, NEW r \in SaveRow, save' = [save EXCEPT ![s] = r],
           UNCHANGED <<lscene, stored>>, InTurn(r, stored),
           \A t \in Saves \ {s} : /\ r.held \cap (save[t].held \cup save[t].purged) = {}
                                  /\ r.purged \cap (save[t].held \cup save[t].purged) = {}
    PROVE  LinkInv'
<1>1. stored' \in [Links -> Ages] /\ \A t \in Saves : \A x \in save[t].purged : stored'[x] = "old"
  BY DEF LinkInv, SavesTyped, InTurn
<1> QED
  BY <1>1, OthersInTurn

LEMMA SaveOf ==
    ASSUME LinkInv, NEW s \in Saves
    PROVE  /\ save[s] \in SaveRow /\ InTurn(save[s], stored)
           /\ \A t \in Saves \ {s} : /\ save[s].held \cap (save[t].held \cup save[t].purged) = {}
                                     /\ save[s].purged \cap (save[t].held \cup save[t].purged) = {}
  BY DEF LinkInv, SavesTyped, Apart

LEMMA IdleSaveRow ==
    /\ IdleSave \in SaveRow /\ IdleSave.pc = "idle" /\ IdleSave.todo = <<>>
    /\ IdleSave.dirty = {} /\ IdleSave.held = {} /\ IdleSave.purged = {}
  BY DEF IdleSave, SaveRow, SavePcs

LEMMA LinkInitHolds == LinkInit => LinkInv
<1> SUFFICES ASSUME LinkInit PROVE LinkInv
  OBVIOUS
<1>1. IdleSave \in SaveRow /\ IdleSave.pc = "idle" /\ IdleSave.purged = {} /\ IdleSave.held = {}
  BY IdleSaveRow
<1>2. SavesTyped
  BY <1>1 DEF LinkInit, SavesTyped, Ages
<1>3. \A s \in Saves : save[s] = IdleSave
  BY DEF LinkInit
<1>4. InTurn(IdleSave, stored)
  BY <1>1 DEF InTurn
<1> QED
  BY <1>1, <1>2, <1>3, <1>4 DEF LinkInv, Apart

LEMMA SaveStartsHolds ==
    ASSUME LinkInv, NEW s \in Saves, SaveStarts(s)
    PROVE  LinkInv'
<1>1. PICK jobs \in lscene.pages :
        save' = [save EXCEPT ![s] = [IdleSave EXCEPT !.pc = "look", !.page = jobs, !.todo = jobs]]
  BY DEF SaveStarts
<1>2. jobs \in Seq(Links)
  BY <1>1, LinkConstants DEF LinkInv, SavesTyped, LinkScene
<1> DEFINE r == [IdleSave EXCEPT !.pc = "look", !.page = jobs, !.todo = jobs]
<1>3. /\ r \in SaveRow /\ r.pc = "look" /\ r.page = jobs /\ r.todo = jobs
      /\ r.held = {} /\ r.purged = {}
  BY <1>2 DEF IdleSave, SaveRow, SavePcs
<1>4. InTurn(r, stored)
  BY <1>3 DEF InTurn, Placed, Listed
<1>5. UNCHANGED <<lscene, stored>>
  BY DEF SaveStarts
<1> HIDE DEF r
<1> QED
  BY <1>1, <1>3, <1>4, <1>5, SaveMoves DEF r

LEMMA LookUpHolds ==
    ASSUME LinkInv, NEW s \in Saves, LookUp(s)
    PROVE  LinkInv'
<1> DEFINE t == save[s]
           x == Head(t.todo)
           sought == [t EXCEPT !.pc = "insert"]
           noted == [t EXCEPT !.dirty = @ \cup {x}, !.todo = Tail(@)]
<1>1. /\ t.pc = "look" /\ t.todo # <<>> /\ UNCHANGED <<lscene, stored>>
      /\ save' = [save EXCEPT ![s] = IF stored[x] = "none" THEN sought ELSE noted]
  BY DEF LookUp
<1>2. /\ t \in SaveRow /\ InTurn(t, stored)
      /\ \A u \in Saves \ {s} : /\ t.held \cap (save[u].held \cup save[u].purged) = {}
                                /\ t.purged \cap (save[u].held \cup save[u].purged) = {}
  BY SaveOf
<1> HIDE DEF t
<1>3. /\ x \in Links /\ Tail(t.todo) \in Seq(Links)
      /\ \A y : Listed(y, t.todo) => y = x \/ Listed(y, Tail(t.todo))
  BY <1>1, <1>2, HeadLeaves DEF SaveRow
<1>4. CASE stored[x] = "none"
  <2>1. /\ sought \in SaveRow /\ sought.pc = "insert" /\ sought.todo = t.todo /\ sought.page = t.page
        /\ sought.dirty = t.dirty /\ sought.held = t.held /\ sought.purged = t.purged
    BY <1>2 DEF SaveRow, SavePcs
  <2>2. InTurn(sought, stored)
    BY <1>1, <1>2, <1>4, <2>1 DEF InTurn, Placed
  <2>3. save' = [save EXCEPT ![s] = sought]
    BY <1>1, <1>4
  <2> HIDE DEF sought
  <2> QED
    BY <1>1, <1>2, <2>1, <2>2, <2>3, SaveMoves
<1>5. CASE stored[x] # "none"
  <2>1. /\ noted \in SaveRow /\ noted.pc = "look" /\ noted.todo = Tail(t.todo) /\ noted.page = t.page
        /\ noted.dirty = t.dirty \cup {x} /\ noted.held = t.held /\ noted.purged = t.purged
    BY <1>1, <1>2, <1>3 DEF SaveRow, SavePcs
  <2> HIDE DEF x
  <2>2. Placed(noted, stored)
    BY <1>1, <1>2, <1>3, <2>1 DEF InTurn, Placed
  <2>3. InTurn(noted, stored)
    BY <1>1, <1>2, <2>1, <2>2 DEF InTurn
  <2>4. save' = [save EXCEPT ![s] = noted]
    BY <1>1, <1>5
  <2> HIDE DEF noted
  <2> QED
    BY <1>1, <1>2, <2>1, <2>3, <2>4, SaveMoves
<1> QED
  BY <1>4, <1>5

LEMMA FailingHolds ==
    ASSUME LinkInv, NEW s \in Saves, FailedSave(s), UNCHANGED <<lscene, stored>>
    PROVE  LinkInv'
<1> DEFINE r == [IdleSave EXCEPT !.pc = "failed"]
<1>1. r \in SaveRow /\ r.pc = "failed" /\ r.held = {} /\ r.purged = {}
  BY IdleSaveRow DEF SaveRow, SavePcs
<1>2. InTurn(r, stored)
  BY <1>1 DEF InTurn
<1>3. save' = [save EXCEPT ![s] = r]
  BY DEF FailedSave
<1> HIDE DEF r
<1> QED
  BY <1>1, <1>2, <1>3, SaveMoves

LEMMA InsertHolds ==
    ASSUME LinkInv, NEW s \in Saves, Insert(s)
    PROVE  LinkInv'
<1> DEFINE t == save[s]
           x == Head(t.todo)
           skipped == [t EXCEPT !.pc = "look", !.todo = Tail(@), !.held = @ \cup t.dirty, !.dirty = {}]
           added == [skipped EXCEPT !.held = @ \cup {x}]
<1>1. /\ t.pc = "insert" /\ UNCHANGED <<lscene, stored>>
      /\ \A u \in Saves \ {s} : ({x} \cup t.dirty) \cap (save[u].held \cup save[u].purged) = {}
  BY DEF Insert, WaitsFor, Needs
<1>2. /\ t \in SaveRow /\ InTurn(t, stored)
      /\ \A u \in Saves \ {s} : /\ t.held \cap (save[u].held \cup save[u].purged) = {}
                                /\ t.purged \cap (save[u].held \cup save[u].purged) = {}
  BY SaveOf
<1>3. \/ FailedSave(s)
      \/ stored[x] = "none" /\ save' = [save EXCEPT ![s] = added]
      \/ stored[x] # "none" /\ save' = [save EXCEPT ![s] = skipped]
  BY DEF Insert, Added, SkippedJob
<1> HIDE DEF t
<1>4. t.todo # <<>> /\ stored[x] # "old" /\ t.purged = {}
  BY <1>1, <1>2 DEF InTurn
<1>5. /\ x \in Links /\ Tail(t.todo) \in Seq(Links)
      /\ \A y : Listed(y, t.todo) => y = x \/ Listed(y, Tail(t.todo))
  BY <1>2, <1>4, HeadLeaves DEF SaveRow
<1>6. /\ skipped \in SaveRow /\ skipped.pc = "look" /\ skipped.todo = Tail(t.todo) /\ skipped.page = t.page
      /\ skipped.dirty = {} /\ skipped.held = t.held \cup t.dirty /\ skipped.purged = {}
  BY <1>2, <1>4, <1>5 DEF SaveRow, SavePcs
<1>7. /\ added \in SaveRow /\ added.pc = "look" /\ added.todo = Tail(t.todo) /\ added.page = t.page
      /\ added.dirty = {} /\ added.held = t.held \cup t.dirty \cup {x} /\ added.purged = {}
  <2> HIDE DEF skipped, x
  <2> QED
    BY <1>5, <1>6 DEF SaveRow
<1> HIDE DEF x, skipped, added
<1>8. CASE FailedSave(s)
  BY <1>1, <1>8, FailingHolds
<1>9. CASE stored[x] = "none" /\ save' = [save EXCEPT ![s] = added]
  <2>1. Placed(added, stored)
    BY <1>1, <1>2, <1>5, <1>7 DEF InTurn, Placed
  <2>2. InTurn(added, stored)
    BY <1>7, <2>1 DEF InTurn
  <2> QED
    BY <1>1, <1>2, <1>7, <1>9, <2>2, SaveMoves
<1>10. CASE stored[x] # "none" /\ save' = [save EXCEPT ![s] = skipped]
  <2>1. stored[x] = "recent"
    BY <1>4, <1>5, <1>10 DEF LinkInv, SavesTyped, Ages
  <2>2. Placed(skipped, stored)
    BY <1>1, <1>2, <1>5, <1>6, <2>1 DEF InTurn, Placed
  <2>3. InTurn(skipped, stored)
    BY <1>6, <2>2 DEF InTurn
  <2> QED
    BY <1>1, <1>2, <1>6, <1>10, <2>3, SaveMoves
<1> QED
  BY <1>3, <1>8, <1>9, <1>10

LEMMA PurgeHolds ==
    ASSUME LinkInv, NEW s \in Saves, Purge(s)
    PROVE  LinkInv'
<1> DEFINE t == save[s]
           gone == Stale \ t.held
           r == [t EXCEPT !.pc = "commit", !.purged = gone]
<1>1. /\ t.pc = "look" /\ t.todo = <<>> /\ UNCHANGED <<lscene, stored>>
      /\ \A u \in Saves \ {s} : Stale \cap (save[u].held \cup save[u].purged) = {}
  BY DEF Purge, WaitsFor, Needs
<1>2. /\ t \in SaveRow /\ InTurn(t, stored)
      /\ \A u \in Saves \ {s} : t.held \cap (save[u].held \cup save[u].purged) = {}
  BY SaveOf
<1>3. save' = [save EXCEPT ![s] = r]
  BY DEF Purge, LinkInv, SavesTyped
<1>4. gone \subseteq Links /\ gone \subseteq Stale /\ \A y \in gone : stored[y] = "old"
  BY DEF Stale
<1> HIDE DEF t, gone
<1>5. /\ r \in SaveRow /\ r.pc = "commit" /\ r.todo = t.todo /\ r.page = t.page
      /\ r.dirty = t.dirty /\ r.held = t.held /\ r.purged = gone
  BY <1>2, <1>4 DEF SaveRow, SavePcs
<1>6. InTurn(r, stored)
  BY <1>1, <1>2, <1>4, <1>5 DEF InTurn, Placed
<1> HIDE DEF r
<1> QED
  BY <1>1, <1>2, <1>3, <1>4, <1>5, <1>6, SaveMoves

LEMMA CommitLinkHolds ==
    ASSUME LinkInv, NEW s \in Saves, Commit(s)
    PROVE  LinkInv'
<1> DEFINE t == save[s]
           r == [IdleSave EXCEPT !.pc = "done", !.page = t.page]
<1>1. /\ t.pc = "commit" /\ lscene' = lscene
      /\ \A u \in Saves \ {s} : t.dirty \cap (save[u].held \cup save[u].purged) = {}
  BY DEF Commit, WaitsFor, Needs
<1>2. /\ t \in SaveRow /\ InTurn(t, stored)
      /\ \A u \in Saves \ {s} : /\ t.held \cap (save[u].held \cup save[u].purged) = {}
                                /\ t.purged \cap (save[u].held \cup save[u].purged) = {}
  BY SaveOf
<1>3. CASE FailedSave(s) /\ UNCHANGED stored
  BY <1>1, <1>3, FailingHolds
<1>4. CASE /\ stored' = [x \in Links |-> IF x \in t.held \cup t.dirty THEN "recent"
                                         ELSE IF x \in t.purged THEN "none" ELSE stored[x]]
           /\ save' = [save EXCEPT ![s] = r]
  <2> HIDE DEF t
  <2>1. stored \in [Links -> Ages]
    BY DEF LinkInv, SavesTyped
  <2>2. /\ stored' \in [Links -> Ages]
        /\ \A x \in Links : stored'[x] = "old" => stored[x] = "old"
    BY <1>4, <2>1 DEF Ages
  <2>3. \A x \in Links : stored[x] = "recent" \/ x \in t.held \cup t.dirty => stored'[x] = "recent"
    BY <1>2, <1>4, <2>1 DEF InTurn
  <2>4. \A u \in Saves \ {s} : \A x \in save[u].purged : stored'[x] = "old"
    <3> SUFFICES ASSUME NEW u \in Saves \ {s}, NEW x \in save[u].purged PROVE stored'[x] = "old"
      OBVIOUS
    <3>1. x \in Links /\ stored[x] = "old"
      BY SaveOf DEF SaveRow, InTurn
    <3> QED
      BY <1>1, <1>2, <1>4, <3>1
  <2>5. r \in SaveRow /\ r.pc = "done" /\ r.page = t.page /\ r.todo = <<>> /\ r.dirty = {} /\ r.held = {} /\ r.purged = {}
    BY <1>2, IdleSaveRow DEF SaveRow, SavePcs
  <2>6. Placed(r, stored')
    <3>1. \A y : ~Listed(y, <<>>)
      BY DEF Listed
    <3>2. \A i \in 1..Len(t.page) : t.page[i] \in Links
      BY <1>2 DEF SaveRow
    <3>3. Placed(t, stored) /\ t.todo = <<>>
      BY <1>1, <1>2 DEF InTurn
    <3> QED
      BY <2>3, <2>5, <3>1, <3>2, <3>3 DEF Placed
  <2>7. InTurn(r, stored')
    BY <2>5, <2>6 DEF InTurn
  <2> HIDE DEF r
  <2> QED
    BY <1>1, <1>4, <2>2, <2>3, <2>4, <2>5, <2>7, OthersInTurn
<1> QED
  BY <1>3, <1>4 DEF Commit

LEMMA MonthHolds == ASSUME LinkInv, MonthPasses PROVE LinkInv'
<1>1. IdleSave \in SaveRow /\ IdleSave.pc = "idle" /\ IdleSave.purged = {} /\ IdleSave.held = {}
  BY IdleSaveRow
<1>2. SavesTyped'
  BY <1>1 DEF MonthPasses, LinkInv, SavesTyped, Ages
<1>3. \A s \in Saves : save'[s] = IdleSave
  BY DEF MonthPasses
<1>4. InTurn(IdleSave, stored')
  BY <1>1 DEF InTurn
<1> QED
  BY <1>1, <1>2, <1>3, <1>4 DEF LinkInv, Apart

LEMMA LinkStepHolds == ASSUME LinkInv, LinkNext PROVE LinkInv'
<1>1. CASE UNCHANGED <<lscene, stored, save>>
  BY <1>1 DEF LinkInv, SavesTyped, InTurn, Placed, Apart
<1>2. ASSUME NEW s \in Saves, DeadlockEnds(s) PROVE LinkInv'
  BY <1>2, FailingHolds DEF DeadlockEnds
<1>3. ASSUME NEW s \in Saves,
             SaveStarts(s) \/ LookUp(s) \/ Insert(s) \/ Purge(s) \/ Commit(s) \/ DeadlockEnds(s)
      PROVE  LinkInv'
  BY <1>2, <1>3, SaveStartsHolds, LookUpHolds, InsertHolds, PurgeHolds, CommitLinkHolds
<1>4. CASE MonthPasses
  BY <1>4, MonthHolds
<1>5. CASE PairCode \/ PairCodeExpires \/ ChangeAccount
  BY <1>1, <1>5 DEF PairCode, PairCodeExpires, ChangeAccount
<1>6. CASE \E b \in Browsers : Redeem(b) \/ RedeemCommits(b)
  BY <1>1, <1>6 DEF Redeem, RedeemCommits
<1>7. CASE \E i \in 1..Len(token) : Revoke(i)
  BY <1>1, <1>7 DEF Revoke
<1> QED
  BY <1>3, <1>4, <1>5, <1>6, <1>7 DEF LinkNext

\* PageKept for every set of pages, tabs and rows: "a save from another tab at
\* the same moment: keep the rest" (extension.py:175).
THEOREM SavedPageIsThere == LinkSpec => []PageKept
<1>1. LinkInv /\ [LinkNext]_lvars => LinkInv'
  <2>1. ASSUME LinkInv, UNCHANGED lvars PROVE LinkInv'
    BY <2>1 DEF lvars, LinkInv, SavesTyped, InTurn, Placed, Apart
  <2> QED
    BY <2>1, LinkStepHolds
<1>2. LinkInv => PageKept
  <2> SUFFICES ASSUME LinkInv, NEW s \in Saves, save[s].pc = "done", NEW i \in 1..Len(save[s].page)
               PROVE  stored[save[s].page[i]] = "recent"
    BY DEF PageKept
  <2>1. InTurn(save[s], stored)
    BY DEF LinkInv
  <2>2. \A y : ~Listed(y, <<>>)
    BY DEF Listed
  <2> QED
    BY <2>1, <2>2 DEF InTurn, Placed
<1> QED
  BY LinkInitHolds, <1>1, <1>2, PTL DEF LinkSpec

----------------------------------------------------------------------------
(***************************************************************************)
(* No form leaves the browser but one the user reviewed, as it was          *)
(* reviewed: for any forms, however they change between two walks, any      *)
(* number of workers, screenshots and questions no plain fill can set.      *)
(*                                                                          *)
(* The code relies on models for what the page does not say: which of two   *)
(* unclear buttons sends, and which box is the one that was asked for.  The *)
(* theorem assumes they are right about these (SoundForms).                 *)
(*                                                                          *)
(* The argument: one walk at a time is at work, so the plan a submitting    *)
(* walk fills from is the plan that was approved; it turns to the next page *)
(* only after it checked the one before, and sends from a page that has no  *)
(* next one, so that it has checked them all.                               *)
(***************************************************************************)

\* A form: its buttons can be told apart, a page before another one leads to
\* it, and one that is filled without turning has no second page.
SoundForm(s, form) ==
    /\ \A n \in 1..Len(form) : form[n].clear \/ "wrong" \notin s.says
    /\ \A n \in 1..Len(form) : n < Len(form) => "go" \in form[n].buttons
    /\ ~s.multi => Len(form) <= 1
    /\ s.walkers # {} => form # <<>>

\* Keys tell the questions apart; models put an answer into the box they were
\* asked about, turn no page by themselves, and are refused when they would send.
SoundForms ==
    /\ \A q, r \in Controls : KeyOf[q] = KeyOf[r] => q = r
    /\ \A s \in FormScenes :
         /\ SoundForm(s, s.first) /\ SoundForm(s, s.later)
         /\ {"misfill", "skip"} \cap s.moves = {}
         /\ "send" \in s.moves => s.tag = "button"

\* A plan's field is of the question that has its key.
Keyed(fields) ==
    \A k \in Controls : fields[k] # NoField => fields[k].ask \in Controls /\ KeyOf[fields[k].ask] = k

WalkRecord ==
    [pc : {"idle", "read", "look", "fill", "gap", "turn", "again", "send", "save"},
     pass : {"none", "prepare", "submit"}, pages : Seq(FormPage), at : Nat, n : Nat,
     known : [Controls -> Fields], all : [Controls -> Fields], filled : [Controls -> Fields],
     step : [next : {"none", "go"}, submit : {"none", "send"}],
     gaps : SUBSET (Controls \cup {"page"}), failed : BOOLEAN, looks : Nat]
Sheet == [fields : [Controls -> Fields], steps : Seq(SUBSET Controls), complete : BOOLEAN, looks : Nat]

AtWork(x) == x.pc \notin {"idle", "save"}

\* The pages a walk has passed matched the plan.
CheckedUpTo(x, fields) ==
    \A n \in 1..x.at : (n < x.at \/ x.pc # "read") =>
        \A q \in x.pages[n].required : HasValue(fields[KeyOf[q]])
\* What it has filled in is the plan's.
FilledFrom(x, fields) == \A q \in Controls : x.filled[q] # NoField => x.filled[q] = fields[KeyOf[q]]

\* A walk at work: for the scene s, the standing of the run and the plan.
WalkSound(x, s, st, fields) ==
    /\ x \in WalkRecord /\ Keyed(x.known) /\ Keyed(x.all)
    /\ AtWork(x) =>
         /\ \/ x.pass = "prepare" /\ st = "preparing" /\ x.pc # "send"
            \/ x.pass = "submit" /\ st = "sending" /\ x.pc # "look"
         /\ x.pages \in {s.first, s.later} /\ x.at \in 1..Len(x.pages)
         /\ x.pc = "gap" => x.gaps \subseteq x.pages[x.at].asks \cup {"page"}
         /\ x.pass = "submit" => CheckedUpTo(x, fields) /\ FilledFrom(x, fields)

OneAtWork == \A v, w \in Walkers : AtWork(walk[v]) /\ AtWork(walk[w]) => v = w

Standings == {"queued", "preparing", "awaiting_input", "awaiting_review", "submitting", "sending", "submitted",
              "needs_user"}

FormTyped ==
    /\ fscene \in FormScenes /\ layout \in {fscene.first, fscene.later} /\ standing \in Standings
    /\ sheet \in Sheet /\ approved \in [Controls -> Fields] /\ walk \in [Walkers -> WalkRecord]
    /\ Keyed(sheet.fields)

\* What the site got was approved, and the run is over.
AsReviewed(r, fields) ==
    /\ r.pass = "submit"
    /\ \A q \in Controls : r.filled[q] # NoField => r.filled[q] = fields[KeyOf[q]] /\ r.filled[q].ask = q
    /\ \A n \in DOMAIN r.pages : \A q \in r.pages[n].required :
           fields[KeyOf[q]].ask = q /\ HasValue(fields[KeyOf[q]])
SentOver == received # {} => standing \in {"submitted", "needs_user"} /\ \A r \in received : AsReviewed(r, approved)

FInv ==
    /\ FormTyped /\ OneAtWork
    /\ \A w \in Walkers : WalkSound(walk[w], fscene, standing, sheet.fields)
    /\ standing \in {"submitting", "sending"} => approved = sheet.fields
    /\ SentOver

\* What the record of a scene gives its pages.
LEMMA SceneIs ==
    ASSUME SoundForms, NEW s \in FormScenes
    PROVE  /\ s.first \in Seq(FormPage) /\ s.later \in Seq(FormPage) /\ s.multi \in BOOLEAN
           /\ s.walkers \subseteq Walkers /\ s.stuck \subseteq Controls
           /\ \A form \in {s.first, s.later} : SoundForm(s, form)
  BY FormConstants DEF SoundForms, FormScene

\* The buttons of a page are what they are taken for, or nobody can tell.
LEMMA ButtonsAreRight ==
    ASSUME SoundForms, fscene \in FormScenes, NEW w \in Walkers,
           walk[w].pages \in {fscene.first, fscene.later}, walk[w].at \in 1..Len(walk[w].pages),
           NEW b \in ButtonSteps(w)
    PROVE  /\ b.looks \in {0, 1} /\ b.step \in [next : {"none", "go"}, submit : {"none", "send"}]
           /\ b.step = NoStep \/ b.step = Said(Shown(w), "right")
<1> DEFINE shown == Shown(w)
<1>1. shown.clear \/ "wrong" \notin fscene.says
  BY SceneIs DEF SoundForm, Shown
<1>2. fscene.says \subseteq {"right", "wrong", "nothing"}
  BY FormConstants DEF FormScene
<1>3. Said(shown, "nothing") = NoStep
      /\ \A says : Said(shown, "right") = NoStep => Said(shown, says) = NoStep
  BY DEF Said, NoStep
<1>4. \E says \in fscene.says \cup {"right"} :
        /\ b.step = Said(shown, says) /\ b.looks \in {0, 1}
        /\ says = "right" \/ ~shown.clear \/ Said(shown, "right") = NoStep
  BY DEF ButtonSteps
<1>5. b.step = NoStep \/ b.step = Said(shown, "right")
  BY <1>1, <1>2, <1>3, <1>4
<1>6. NoStep \in [next : {"none", "go"}, submit : {"none", "send"}]
      /\ Said(shown, "right") \in [next : {"none", "go"}, submit : {"none", "send"}]
  BY DEF NoStep, Said
<1> QED
  BY <1>4, <1>5, <1>6

\* A step of one walk: it goes on as `new`; nobody else is at work, or neither
\* the standing of the run nor its plan changes.
WalkSteps(w, new, st, fields) ==
    /\ walk' = [walk EXCEPT ![w] = new]
    /\ WalkSound(new, fscene, st, fields)
    /\ (st = standing /\ fields = sheet.fields) \/ \A v \in Walkers \ {w} : ~AtWork(walk[v])
    /\ AtWork(new) => \A v \in Walkers \ {w} : ~AtWork(walk[v])

LEMMA WalksStaySound ==
    ASSUME FInv, NEW w \in Walkers, NEW new, NEW st, NEW fields, WalkSteps(w, new, st, fields)
    PROVE  /\ walk' \in [Walkers -> WalkRecord]
           /\ \A v, u \in Walkers : AtWork(walk'[v]) /\ AtWork(walk'[u]) => v = u
           /\ \A v \in Walkers : WalkSound(walk'[v], fscene, st, fields)
<1>1. new \in WalkRecord /\ walk \in [Walkers -> WalkRecord]
  BY DEF WalkSteps, WalkSound, FInv, FormTyped
<1>2. \A v \in Walkers : walk'[v] = IF v = w THEN new ELSE walk[v]
  BY <1>1 DEF WalkSteps
<1>3. walk' \in [Walkers -> WalkRecord]
  BY <1>1 DEF WalkSteps
<1>4. \A v, u \in Walkers : AtWork(walk'[v]) /\ AtWork(walk'[u]) => v = u
  BY <1>2 DEF WalkSteps, FInv, OneAtWork
<1>5. ASSUME NEW v \in Walkers PROVE WalkSound(walk'[v], fscene, st, fields)
  <2>1. CASE v = w
    BY <1>2, <2>1 DEF WalkSteps
  <2>2. CASE v # w /\ ~AtWork(walk[v])
    BY <1>2, <2>2 DEF FInv, WalkSound
  <2>3. CASE v # w /\ st = standing /\ fields = sheet.fields
    BY <1>2, <2>3 DEF FInv
  <2> QED
    BY <2>1, <2>2, <2>3 DEF WalkSteps
<1> QED
  BY <1>3, <1>4, <1>5

Over == {"submitted", "needs_user"}

\* A step of one walk that gives the site nothing.
LEMMA StepHolds ==
    ASSUME FInv, NEW w \in Walkers, NEW new, NEW st \in Standings, NEW drawn \in Sheet,
           WalkSteps(w, new, st, drawn.fields), Keyed(drawn.fields),
           standing' = st, sheet' = drawn, UNCHANGED <<fscene, layout, approved, received>>,
           st \in {"submitting", "sending"} => approved = drawn.fields,
           standing \in Over => st \in Over
    PROVE  FInv'
<1>1. walk' \in [Walkers -> WalkRecord] /\ OneAtWork'
  BY WalksStaySound DEF OneAtWork
<1>2. \A v \in Walkers : WalkSound(walk'[v], fscene', standing', sheet'.fields)
  BY WalksStaySound
<1>3. FormTyped'
  BY <1>1 DEF FInv, FormTyped
<1>4. SentOver'
  BY DEF FInv, SentOver, Over
<1> QED
  BY <1>1, <1>2, <1>3, <1>4 DEF FInv

\* What a walk at work knows.
LEMMA WorkingWalk ==
    ASSUME SoundForms, FInv, NEW w \in Walkers, AtWork(walk[w])
    PROVE  /\ walk[w] \in WalkRecord /\ WalkSound(walk[w], fscene, standing, sheet.fields)
           /\ standing \in {"preparing", "sending"} /\ received = {}
           /\ standing = "preparing" <=> walk[w].pass = "prepare"
           /\ standing = "sending" <=> walk[w].pass = "submit"
           /\ walk[w].pages \in {fscene.first, fscene.later} /\ walk[w].at \in 1..Len(walk[w].pages)
           /\ walk[w].pages \in Seq(FormPage) /\ Shown(w) \in FormPage /\ Shown(w) = walk[w].pages[walk[w].at]
           /\ \A v \in Walkers \ {w} : ~AtWork(walk[v])
<1>1. walk[w] \in WalkRecord /\ WalkSound(walk[w], fscene, standing, sheet.fields)
  BY DEF FInv, FormTyped
<1>2. standing \in {"preparing", "sending"} /\ (standing = "preparing" <=> walk[w].pass = "prepare")
      /\ (standing = "sending" <=> walk[w].pass = "submit")
  BY <1>1 DEF WalkSound
<1>3. received = {}
  BY <1>2 DEF FInv, SentOver
<1>4. walk[w].pages \in {fscene.first, fscene.later} /\ walk[w].at \in 1..Len(walk[w].pages)
  BY <1>1 DEF WalkSound
<1>5. fscene \in FormScenes
  BY DEF FInv, FormTyped
<1>6. walk[w].pages \in Seq(FormPage)
  BY <1>4, <1>5, SceneIs
<1>7. Shown(w) \in FormPage /\ Shown(w) = walk[w].pages[walk[w].at]
  BY <1>4, <1>6 DEF Shown
<1>8. \A v \in Walkers \ {w} : ~AtWork(walk[v])
  BY DEF FInv, OneAtWork
<1> QED
  BY <1>1, <1>2, <1>3, <1>4, <1>6, <1>7, <1>8

\* A walk that ends is sound, whatever the run is then.
LEMMA EndedIsSound ==
    ASSUME NEW x \in WalkRecord, Keyed(x.known), Keyed(x.all), ~AtWork(x), NEW s, NEW st, NEW fields
    PROVE  WalkSound(x, s, st, fields)
  BY DEF WalkSound

LEMMA RestingIsSound == Resting \in WalkRecord /\ Keyed(Resting.known) /\ Keyed(Resting.all) /\ ~AtWork(Resting)
<1>1. NoField \in Fields
  BY DEF NoField, Fields
<1>2. [k \in Controls |-> NoField] \in [Controls -> Fields] /\ Keyed([k \in Controls |-> NoField])
  BY <1>1 DEF Keyed
<1>3. Resting.pages \in Seq(FormPage) /\ Resting.step \in [next : {"none", "go"}, submit : {"none", "send"}]
  BY DEF Resting, NoStep
<1>4. Resting \in WalkRecord
  BY <1>2, <1>3 DEF Resting, WalkRecord, Unfilled
<1> QED
  BY <1>2, <1>4 DEF Resting, AtWork

\* A walk at work ends, as the run goes to st.
LEMMA EndHolds ==
    ASSUME SoundForms, FInv, NEW w \in Walkers, AtWork(walk[w]), NEW new \in WalkRecord, ~AtWork(new),
           Keyed(new.known), Keyed(new.all), walk' = [walk EXCEPT ![w] = new],
           NEW st \in Standings \ {"submitting", "sending"}, NEW drawn \in Sheet, Keyed(drawn.fields),
           standing' = st, sheet' = drawn, UNCHANGED <<fscene, layout, approved, received>>
    PROVE  FInv'
<1>1. WalkSound(new, fscene, st, drawn.fields)
  BY EndedIsSound
<1>2. WalkSteps(w, new, st, drawn.fields)
  BY <1>1, WorkingWalk DEF WalkSteps
<1>3. standing \notin Over
  BY WorkingWalk DEF Over
<1> QED
  BY <1>2, <1>3, StepHolds

\* A walk goes on, while run and plan stay.
LEMMA GoesOnHolds ==
    ASSUME SoundForms, FInv, NEW w \in Walkers, AtWork(walk[w]), NEW new,
           WalkSound(new, fscene, standing, sheet.fields), walk' = [walk EXCEPT ![w] = new],
           UNCHANGED <<fscene, layout, standing, sheet, approved, received>>
    PROVE  FInv'
<1>1. WalkSteps(w, new, standing, sheet.fields)
  BY WorkingWalk DEF WalkSteps
<1>2. standing \in Standings /\ sheet \in Sheet /\ Keyed(sheet.fields)
      /\ (standing \in {"submitting", "sending"} => approved = sheet.fields)
  BY DEF FInv, FormTyped
<1> QED
  BY <1>1, <1>2, StepHolds

LEMMA FormStartsWell == SoundForms /\ FormInit => FInv
<1> SUFFICES ASSUME SoundForms, FormInit PROVE FInv
  OBVIOUS
<1>1. /\ NoField \in Fields
      /\ [k \in Controls |-> NoField] \in [Controls -> Fields] /\ Keyed([k \in Controls |-> NoField])
  BY DEF NoField, Fields, Keyed
<1>2. sheet \in Sheet /\ Keyed(sheet.fields)
  BY <1>1 DEF FormInit, Sheet
<1>3. walk \in [Walkers -> WalkRecord] /\ \A w \in Walkers : walk[w] = Resting
  BY RestingIsSound DEF FormInit
<1>4. FormTyped /\ standing \in {"queued", "needs_user"} /\ received = {}
  BY <1>1, <1>2, <1>3 DEF FormInit, FormTyped, Standings
<1>5. \A w \in Walkers : WalkSound(walk[w], fscene, standing, sheet.fields)
  BY <1>3, RestingIsSound, EndedIsSound
<1>6. OneAtWork
  BY <1>3, RestingIsSound DEF OneAtWork
<1> QED
  BY <1>4, <1>5, <1>6 DEF FInv, SentOver

LEMMA FormSaveHolds == ASSUME SoundForms, FInv, NEW w \in Walkers, SaveUsage(w) PROVE FInv'
<1>1. walk' = [walk EXCEPT ![w] = Resting] /\ standing' = standing
      /\ UNCHANGED <<fscene, layout, approved, received>>
  BY DEF SaveUsage, WalkGoes
<1> DEFINE drawn == [sheet EXCEPT !.looks = walk[w].looks]
<1>2. sheet \in Sheet /\ Keyed(sheet.fields) /\ standing \in Standings /\ walk[w].looks \in Nat
  BY DEF FInv, FormTyped, WalkRecord
<1>3. drawn \in Sheet /\ drawn.fields = sheet.fields
  BY <1>2 DEF Sheet
<1>4. WalkSound(Resting, fscene, standing, drawn.fields)
  BY RestingIsSound, EndedIsSound
<1>5. WalkSteps(w, Resting, standing, drawn.fields)
  BY <1>1, <1>3, <1>4, RestingIsSound DEF WalkSteps
<1>6. sheet' = drawn
  BY DEF SaveUsage
<1>7. standing \in {"submitting", "sending"} => approved = drawn.fields
  BY <1>3 DEF FInv
<1> HIDE DEF drawn
<1> QED
  BY <1>1, <1>2, <1>3, <1>5, <1>6, <1>7, StepHolds

\* The form is opened, or not, while nobody is at work.
LEMMA OpenedHolds ==
    ASSUME SoundForms, FInv, NEW w \in fscene.walkers, walk[w].pc = "idle",
           NEW pass \in {"prepare", "submit"}, NEW st, standing = (IF pass = "prepare" THEN "queued" ELSE "submitting"),
           st = (IF pass = "prepare" THEN "preparing" ELSE "sending"),
           (standing' = st /\ Opened(w, pass)) \/ NotOpened(w),
           UNCHANGED <<fscene, layout, sheet, approved, received>>
    PROVE  FInv'
<1>1. /\ fscene \in FormScenes /\ sheet \in Sheet /\ Keyed(sheet.fields) /\ layout \in {fscene.first, fscene.later}
      /\ (standing \in {"submitting", "sending"} => approved = sheet.fields)
  BY DEF FInv, FormTyped
<1>2. w \in Walkers /\ layout \in Seq(FormPage) /\ layout # <<>>
  BY <1>1, SceneIs DEF SoundForm
<1>3. \A v \in Walkers : ~AtWork(walk[v])
  BY DEF FInv, WalkSound
<1>4. NoField \in Fields /\ sheet.fields \in [Controls -> Fields] /\ sheet.looks \in Nat
  BY <1>1 DEF NoField, Fields, Sheet
<1>5. CASE NotOpened(w)
  <2> DEFINE new == [Resting EXCEPT !.pc = "save", !.looks = sheet.looks]
  <2>1. new \in WalkRecord /\ Keyed(new.known) /\ Keyed(new.all) /\ ~AtWork(new)
    BY <1>4, RestingIsSound DEF WalkRecord, AtWork
  <2>2. walk' = [walk EXCEPT ![w] = new] /\ standing' = "needs_user"
    BY <1>5 DEF NotOpened, WalkGoes
  <2>3. WalkSound(new, fscene, "needs_user", sheet.fields)
    BY <2>1, EndedIsSound
  <2> HIDE DEF new
  <2>4. WalkSteps(w, new, "needs_user", sheet.fields)
    BY <1>3, <2>1, <2>2, <2>3 DEF WalkSteps
  <2>5. "needs_user" \in Standings /\ "needs_user" \in Over
    BY DEF Standings, Over
  <2> QED
    BY <1>1, <1>2, <2>2, <2>4, <2>5, StepHolds
<1>6. CASE standing' = st /\ Opened(w, pass)
  <2>1. PICK known \in {KnownFields, Resting.known} :
          walk' = [walk EXCEPT ![w] = [Resting EXCEPT !.pc = "read", !.pass = pass, !.pages = layout, !.at = 1,
                                            !.n = 1, !.looks = sheet.looks, !.known = known]]
    BY <1>6 DEF Opened, WalkGoes, Resting
  <2> DEFINE new == [Resting EXCEPT !.pc = "read", !.pass = pass, !.pages = layout, !.at = 1, !.n = 1,
                                    !.looks = sheet.looks, !.known = known]
  <2>2. KnownFields \in [Controls -> Fields] /\ Keyed(KnownFields)
    BY <1>1, <1>4 DEF KnownFields, Keyed
  <2>3. known \in [Controls -> Fields] /\ Keyed(known)
    BY <2>2, RestingIsSound DEF WalkRecord
  <2>4. /\ new \in WalkRecord /\ Keyed(new.known) /\ Keyed(new.all)
        /\ new.pc = "read" /\ new.pass = pass /\ new.pages = layout /\ new.at = 1 /\ new.filled = Unfilled
    BY <1>2, <1>4, <2>3, RestingIsSound DEF WalkRecord, Resting
  <2>5. walk' = [walk EXCEPT ![w] = new]
    BY <2>1
  <2> HIDE DEF new
  <2>6. CheckedUpTo(new, sheet.fields) /\ FilledFrom(new, sheet.fields)
    BY <2>4 DEF CheckedUpTo, FilledFrom, Unfilled
  <2>7. new.at \in 1..Len(new.pages)
    BY <1>2, <2>4
  <2>8. WalkSound(new, fscene, st, sheet.fields)
    BY <1>1, <2>4, <2>6, <2>7 DEF WalkSound
  <2>9. WalkSteps(w, new, st, sheet.fields)
    BY <1>3, <2>5, <2>8 DEF WalkSteps
  <2>10. st \in Standings /\ standing \notin Over /\ (st \in {"submitting", "sending"} => approved = sheet.fields)
    BY <1>1 DEF Standings, Over
  <2> QED
    BY <1>1, <1>2, <1>6, <2>9, <2>10, StepHolds
<1> QED
  BY <1>5, <1>6

\* A walk stops where it is.
LEMMA StopHolds ==
    ASSUME SoundForms, FInv, NEW w \in Walkers, AtWork(walk[w]), NEW drawn \in Sheet, Keyed(drawn.fields),
           NEW st \in Standings \ {"submitting", "sending"}, EndsAs(w, st), sheet' = drawn,
           UNCHANGED <<fscene, layout, approved, received>>
    PROVE  FInv'
<1> DEFINE new == [walk[w] EXCEPT !.pc = "save"]
<1>1. walk[w] \in WalkRecord /\ WalkSound(walk[w], fscene, standing, sheet.fields)
  BY WorkingWalk
<1>2. new \in WalkRecord /\ Keyed(new.known) /\ Keyed(new.all) /\ ~AtWork(new)
  BY <1>1 DEF WalkSound, WalkRecord, AtWork
<1>3. walk' = [walk EXCEPT ![w] = new] /\ standing' = st
  BY DEF EndsAs
<1> HIDE DEF new
<1> QED
  BY <1>2, <1>3, EndHolds

LEMMA AnnouncedIs ==
    ASSUME NEW drawn PROVE Announced(drawn) \in Standings \ {"submitting", "sending"}
  BY DEF Announced, Standings

\* A page that is planned leaves a plan that keeps its keys.
LEMMA PlannedIsKeyed ==
    ASSUME SoundForms, FInv, NEW w \in Walkers, AtWork(walk[w]), NEW answered
    PROVE  WithPage(w, answered) \in [Controls -> Fields] /\ Keyed(WithPage(w, answered))
<1>1. /\ walk[w].known \in [Controls -> Fields] /\ walk[w].all \in [Controls -> Fields]
      /\ Keyed(walk[w].known) /\ Keyed(walk[w].all) /\ Shown(w) \in FormPage
  BY WorkingWalk DEF WalkSound, WalkRecord
<1>2. ASSUME NEW q \in Controls
      PROVE  PlannedField(w, q, answered) \in Fields /\ PlannedField(w, q, answered).ask = q
  <2>1. KeyOf[q] \in Controls
    BY FormConstants
  <2>2. CASE walk[w].known[KeyOf[q]] # NoField
    BY <1>1, <2>1, <2>2 DEF PlannedField, Fields
  <2>3. CASE walk[w].known[KeyOf[q]] = NoField
    BY <2>3 DEF PlannedField, Fields
  <2> QED
    BY <2>2, <2>3
<1>3. ASSUME NEW k \in Controls
      PROVE  /\ WithPage(w, answered)[k] \in Fields
             /\ WithPage(w, answered)[k] # NoField =>
                  WithPage(w, answered)[k].ask \in Controls /\ KeyOf[WithPage(w, answered)[k].ask] = k
  <2> DEFINE here == {q \in Shown(w).asks : KeyOf[q] = k}
  <2>1. CASE walk[w].all[k] # NoField \/ here = {}
    BY <1>1, <2>1 DEF WithPage, Keyed
  <2>2. CASE walk[w].all[k] = NoField /\ here # {}
    <3>1. PICK q : q = CHOOSE c \in here : TRUE
      OBVIOUS
    <3>2. q \in here
      BY <2>2, <3>1
    <3>3. q \in Controls /\ KeyOf[q] = k
      BY <1>1, <3>2 DEF FormPage
    <3>4. WithPage(w, answered)[k] = PlannedField(w, q, answered)
      BY <2>2, <3>1 DEF WithPage
    <3> QED
      BY <1>2, <3>3, <3>4
  <2> QED
    BY <2>1, <2>2
<1>4. WithPage(w, answered) = [k \in Controls |-> WithPage(w, answered)[k]]
  BY DEF WithPage
<1>5. WithPage(w, answered) \in [Controls -> Fields]
  BY <1>3, <1>4
<1> QED
  BY <1>3, <1>5 DEF Keyed

LEMMA ReadHolds == ASSUME SoundForms, FInv, NEW w \in Walkers, ReadPage(w) PROVE FInv'
<1>1. AtWork(walk[w]) /\ walk[w].pc = "read" /\ walk[w].pass = "prepare"
      /\ UNCHANGED <<fscene, layout, approved, received>>
  BY DEF ReadPage, AtWork
<1>2. sheet \in Sheet /\ Keyed(sheet.fields)
  BY DEF FInv, FormTyped
<1>3. CASE Stops(w) /\ UNCHANGED sheet
  <2>1. "needs_user" \in Standings \ {"submitting", "sending"}
    BY DEF Standings
  <2> QED
    BY <1>1, <1>2, <1>3, <2>1, StopHolds DEF Stops
<1>4. CASE ~(Stops(w) /\ UNCHANGED sheet)
  <2>1. PICK all, steps :
          /\ all \in [Controls -> Fields] /\ Keyed(all) /\ steps \in Seq(SUBSET Controls)
          /\ sheet' = [sheet EXCEPT !.fields = all, !.steps = steps, !.complete = FALSE]
          /\ \/ /\ walk' = [walk EXCEPT ![w] = [walk[w] EXCEPT !.pc = "look", !.all = all]]
                /\ UNCHANGED standing
             \/ EndsAs(w, Announced(sheet'))
    <3>1. PICK answered \in SUBSET Shown(w).asks :
            LET all == WithPage(w, answered)
                wanted == KeysOf(Shown(w))
                steps == IF walk[w].n = 1 THEN <<wanted>> ELSE Append(sheet.steps, wanted)
                drawn == [sheet EXCEPT !.fields = all, !.steps = IF fscene.multi THEN steps ELSE <<>>,
                                      !.complete = FALSE]
            IN /\ sheet' = drawn
               /\ IF fscene.multi
                  THEN WalkGoes(w, [walk[w] EXCEPT !.pc = "look", !.all = all]) /\ UNCHANGED standing
                  ELSE EndsAs(w, Announced(drawn))
      BY <1>4 DEF ReadPage
    <3> DEFINE wanted == KeysOf(Shown(w))
               steps == IF fscene.multi THEN IF walk[w].n = 1 THEN <<wanted>> ELSE Append(sheet.steps, wanted) ELSE <<>>
    <3>2. Shown(w) \in FormPage
      BY <1>1, WorkingWalk
    <3>3. wanted \in SUBSET Controls
      BY <3>2, FormConstants DEF KeysOf, FormPage
    <3>4. steps \in Seq(SUBSET Controls)
      <4>1. sheet.steps \in Seq(SUBSET Controls)
        BY <1>2 DEF Sheet
      <4> HIDE DEF wanted
      <4>2. Append(sheet.steps, wanted) \in Seq(SUBSET Controls) /\ <<wanted>> \in Seq(SUBSET Controls)
            /\ <<>> \in Seq(SUBSET Controls)
        BY <3>3, <4>1
      <4> QED
        BY <4>2
    <3>5. WithPage(w, answered) \in [Controls -> Fields] /\ Keyed(WithPage(w, answered))
      BY <1>1, PlannedIsKeyed
    <3>6. sheet' = [sheet EXCEPT !.fields = WithPage(w, answered), !.steps = steps, !.complete = FALSE]
      BY <3>1
    <3>7. fscene.multi \/ EndsAs(w, Announced(sheet'))
      BY <3>1, <3>6
    <3>8. fscene.multi => /\ UNCHANGED standing
                          /\ walk' = [walk EXCEPT ![w] = [walk[w] EXCEPT !.pc = "look", !.all = WithPage(w, answered)]]
      BY <3>1 DEF WalkGoes
    <3> HIDE DEF steps
    <3> QED
      BY <3>4, <3>5, <3>6, <3>7, <3>8
  <2> DEFINE drawn == [sheet EXCEPT !.fields = all, !.steps = steps, !.complete = FALSE]
  <2>2. drawn \in Sheet /\ drawn.fields = all /\ sheet' = drawn
    BY <1>2, <2>1 DEF Sheet
  <2> HIDE DEF drawn
  <2>3. CASE EndsAs(w, Announced(sheet'))
    <3>1. PICK st : st = Announced(drawn)
      OBVIOUS
    <3>2. EndsAs(w, st) /\ st \in Standings \ {"submitting", "sending"}
      BY <2>2, <2>3, <3>1, AnnouncedIs
    <3> QED
      BY <1>1, <2>1, <2>2, <3>2, StopHolds
  <2>4. CASE walk' = [walk EXCEPT ![w] = [walk[w] EXCEPT !.pc = "look", !.all = all]] /\ UNCHANGED standing
    <3> DEFINE new == [walk[w] EXCEPT !.pc = "look", !.all = all]
    <3>1. walk[w] \in WalkRecord /\ WalkSound(walk[w], fscene, standing, sheet.fields) /\ standing = "preparing"
      BY <1>1, WorkingWalk
    <3>2. /\ new \in WalkRecord /\ new.pc = "look" /\ new.all = all /\ new.pass = walk[w].pass
          /\ new.known = walk[w].known /\ new.pages = walk[w].pages /\ new.at = walk[w].at
      BY <2>1, <3>1 DEF WalkRecord
    <3> HIDE DEF new
    <3>3. WalkSound(new, fscene, standing, drawn.fields)
      BY <1>1, <2>1, <3>1, <3>2 DEF WalkSound, AtWork
    <3>4. WalkSteps(w, new, standing, drawn.fields)
      BY <1>1, <2>4, <3>3, WorkingWalk DEF WalkSteps, new
    <3>5. standing \in Standings /\ standing \notin {"submitting", "sending"}
      BY <3>1 DEF Standings
    <3> QED
      BY <1>1, <2>1, <2>2, <2>4, <3>4, <3>5, StepHolds
  <2> QED
    BY <2>1, <2>3, <2>4
<1> QED
  BY <1>3, <1>4

LEMMA LookForLastHolds == ASSUME SoundForms, FInv, NEW w \in Walkers, LookForLast(w) PROVE FInv'
<1>1. AtWork(walk[w]) /\ walk[w].pc = "look" /\ UNCHANGED <<fscene, layout, approved, received>>
  BY DEF LookForLast, AtWork
<1>2. /\ walk[w] \in WalkRecord /\ WalkSound(walk[w], fscene, standing, sheet.fields)
      /\ walk[w].pages \in {fscene.first, fscene.later} /\ walk[w].at \in 1..Len(walk[w].pages)
      /\ fscene \in FormScenes /\ sheet \in Sheet /\ Keyed(sheet.fields)
  BY <1>1, WorkingWalk DEF FInv, FormTyped
<1>3. PICK b, onward :
        /\ b \in ButtonSteps(w) /\ onward = [walk[w] EXCEPT !.looks = @ + b.looks, !.step = b.step]
        /\ \/ /\ sheet' = [sheet EXCEPT !.complete = TRUE] /\ standing' = Announced([sheet EXCEPT !.complete = TRUE])
              /\ walk' = [walk EXCEPT ![w] = [onward EXCEPT !.pc = "save"]]
           \/ /\ sheet' = sheet /\ standing' = Announced(sheet)
              /\ walk' = [walk EXCEPT ![w] = [onward EXCEPT !.pc = "save"]]
           \/ /\ walk' = [walk EXCEPT ![w] = [onward EXCEPT !.pc = "fill"]]
              /\ UNCHANGED <<sheet, standing>>
  BY DEF LookForLast, WalkGoes
<1>4. b.looks \in {0, 1} /\ b.step \in [next : {"none", "go"}, submit : {"none", "send"}]
  BY <1>2, <1>3, ButtonsAreRight
<1>5. walk[w].looks + b.looks \in Nat
  BY <1>2, <1>4 DEF WalkRecord
<1>6. /\ onward \in WalkRecord /\ onward.known = walk[w].known /\ onward.all = walk[w].all
      /\ onward.pass = walk[w].pass /\ onward.pages = walk[w].pages /\ onward.at = walk[w].at
      /\ onward.filled = walk[w].filled
  BY <1>2, <1>3, <1>4, <1>5 DEF WalkRecord
<1>7. ASSUME NEW drawn \in Sheet, drawn.fields = sheet.fields, sheet' = drawn, standing' = Announced(drawn),
             walk' = [walk EXCEPT ![w] = [onward EXCEPT !.pc = "save"]]
      PROVE  FInv'
  <2> DEFINE new == [onward EXCEPT !.pc = "save"]
  <2>1. new \in WalkRecord /\ ~AtWork(new) /\ Keyed(new.known) /\ Keyed(new.all)
    BY <1>2, <1>6 DEF WalkRecord, AtWork, WalkSound
  <2>2. PICK st : st = Announced(drawn)
    OBVIOUS
  <2>3. st \in Standings \ {"submitting", "sending"} /\ standing' = st
    BY <1>7, <2>2, AnnouncedIs
  <2>4. walk' = [walk EXCEPT ![w] = new]
    BY <1>7
  <2> HIDE DEF new
  <2> QED
    BY <1>1, <1>2, <1>7, <2>1, <2>3, <2>4, EndHolds
<1>8. [sheet EXCEPT !.complete = TRUE] \in Sheet /\ [sheet EXCEPT !.complete = TRUE].fields = sheet.fields
  BY <1>2 DEF Sheet
<1>9. CASE walk' = [walk EXCEPT ![w] = [onward EXCEPT !.pc = "fill"]] /\ UNCHANGED <<sheet, standing>>
  <2> DEFINE new == [onward EXCEPT !.pc = "fill"]
  <2>1. /\ new \in WalkRecord /\ new.pc = "fill" /\ new.known = walk[w].known /\ new.all = walk[w].all
        /\ new.pass = walk[w].pass /\ new.pages = walk[w].pages /\ new.at = walk[w].at
    BY <1>6 DEF WalkRecord
  <2>2. walk' = [walk EXCEPT ![w] = new]
    BY <1>9
  <2> HIDE DEF new
  <2>3. WalkSound(new, fscene, standing, sheet.fields)
    BY <1>1, <1>2, <2>1 DEF WalkSound
  <2> QED
    BY <1>1, <1>9, <2>2, <2>3, GoesOnHolds
<1> QED
  BY <1>2, <1>3, <1>7, <1>8, <1>9

LEMMA CheckHolds == ASSUME SoundForms, FInv, NEW w \in Walkers, CheckPage(w) PROVE FInv'
<1>1. AtWork(walk[w]) /\ walk[w].pc = "read" /\ UNCHANGED <<fscene, layout, sheet, approved, received>>
  BY DEF CheckPage, AtWork
<1>2. sheet \in Sheet /\ Keyed(sheet.fields)
  BY DEF FInv, FormTyped
<1>3. CASE Stops(w)
  <2>1. "needs_user" \in Standings \ {"submitting", "sending"}
    BY DEF Standings
  <2> QED
    BY <1>1, <1>2, <1>3, <2>1, StopHolds DEF Stops
<1>4. CASE ~Stops(w)
  <2> DEFINE new == [walk[w] EXCEPT !.pc = "fill"]
  <2>1. PICK wanted : MatchesPlan(Shown(w), wanted) /\ walk' = [walk EXCEPT ![w] = new] /\ UNCHANGED standing
    BY <1>4 DEF CheckPage, WalkGoes
  <2>2. walk[w] \in WalkRecord /\ WalkSound(walk[w], fscene, standing, sheet.fields)
        /\ Shown(w) = walk[w].pages[walk[w].at] /\ walk[w].at \in Nat
    BY <1>1, WorkingWalk
  <2>3. /\ new \in WalkRecord /\ new.pc = "fill" /\ new.known = walk[w].known /\ new.all = walk[w].all
        /\ new.pass = walk[w].pass /\ new.pages = walk[w].pages /\ new.at = walk[w].at
        /\ new.filled = walk[w].filled
    BY <2>2 DEF WalkRecord
  <2> HIDE DEF new
  <2>4. \A q \in walk[w].pages[walk[w].at].required : HasValue(sheet.fields[KeyOf[q]])
    BY <2>1, <2>2 DEF MatchesPlan
  <2>5. CheckedUpTo(walk[w], sheet.fields) => CheckedUpTo(new, sheet.fields)
    BY <1>1, <2>2, <2>3, <2>4 DEF CheckedUpTo
  <2>6. FilledFrom(walk[w], sheet.fields) => FilledFrom(new, sheet.fields)
    BY <2>3 DEF FilledFrom
  <2>7. WalkSound(new, fscene, standing, sheet.fields)
    BY <1>1, <2>2, <2>3, <2>5, <2>6 DEF WalkSound
  <2> QED
    BY <1>1, <2>1, <2>7, GoesOnHolds
<1> QED
  BY <1>3, <1>4

LEMMA TurningIs ==
    ASSUME NEW w \in Walkers
    PROVE  Turning(w) \in {"send", "turn"} /\ (Turning(w) = "send" => walk[w].pass = "submit")
  BY DEF Turning

LEMMA FillHolds == ASSUME SoundForms, FInv, NEW w \in Walkers, FillPage(w) PROVE FInv'
<1>1. AtWork(walk[w]) /\ walk[w].pc = "fill" /\ UNCHANGED <<fscene, layout, sheet, approved, received>>
  BY DEF FillPage, AtWork
<1>2. sheet \in Sheet /\ Keyed(sheet.fields) /\ sheet.fields \in [Controls -> Fields]
  BY DEF FInv, FormTyped, Sheet
<1>3. CASE Stops(w)
  <2>1. "needs_user" \in Standings \ {"submitting", "sending"}
    BY DEF Standings
  <2> QED
    BY <1>1, <1>2, <1>3, <2>1, StopHolds DEF Stops
<1>4. CASE ~Stops(w)
  <2>1. PICK gaps, pc :
          /\ gaps = Values(w) \cap fscene.stuck /\ pc \in {Turning(w), "gap"}
          /\ walk' = [walk EXCEPT ![w] = [walk[w] EXCEPT !.pc = pc, !.gaps = gaps, !.filled = SetPlain(w, gaps)]]
          /\ UNCHANGED standing
    BY <1>4 DEF FillPage, WalkGoes
  <2> DEFINE new == [walk[w] EXCEPT !.pc = pc, !.gaps = gaps, !.filled = SetPlain(w, gaps)]
  <2>2. /\ walk[w] \in WalkRecord /\ WalkSound(walk[w], fscene, standing, sheet.fields)
        /\ Shown(w) = walk[w].pages[walk[w].at] /\ walk[w].at \in Nat /\ Shown(w) \in FormPage
    BY <1>1, WorkingWalk
  <2>3. Values(w) \subseteq Shown(w).asks /\ Shown(w).asks \subseteq Controls
    BY <2>2 DEF Values, FormPage
  <2>4. gaps \subseteq Shown(w).asks /\ gaps \in SUBSET (Controls \cup {"page"})
    BY <2>1, <2>3
  <2>5. KeyOf \in [Controls -> Controls] /\ walk[w].filled \in [Controls -> Fields]
    BY <2>2, FormConstants DEF WalkRecord
  <2>6. SetPlain(w, gaps) \in [Controls -> Fields]
    BY <1>2, <2>5 DEF SetPlain
  <2>7. pc \in {"send", "turn", "gap"} /\ (pc = "send" => walk[w].pass = "submit")
    BY <2>1, TurningIs
  <2>8. /\ new \in WalkRecord /\ new.pc = pc /\ new.known = walk[w].known /\ new.all = walk[w].all
        /\ new.pass = walk[w].pass /\ new.pages = walk[w].pages /\ new.at = walk[w].at
        /\ new.filled = SetPlain(w, gaps) /\ new.gaps = gaps
    BY <2>2, <2>4, <2>6, <2>7 DEF WalkRecord
  <2>9. walk' = [walk EXCEPT ![w] = new]
    BY <2>1
  <2> HIDE DEF new
  <2>10. CheckedUpTo(walk[w], sheet.fields) => CheckedUpTo(new, sheet.fields)
    BY <1>1, <2>2, <2>7, <2>8 DEF CheckedUpTo
  <2>11. FilledFrom(walk[w], sheet.fields) => FilledFrom(new, sheet.fields)
    BY <2>8 DEF FilledFrom, SetPlain
  <2>12. WalkSound(new, fscene, standing, sheet.fields)
    BY <1>1, <2>2, <2>4, <2>7, <2>8, <2>10, <2>11 DEF WalkSound, AtWork
  <2> QED
    BY <1>1, <2>1, <2>9, <2>12, GoesOnHolds
<1> QED
  BY <1>3, <1>4

\* A walk that stays on a page it has checked.
LEMMA StaysSound ==
    ASSUME SoundForms, FInv, NEW w \in Walkers, AtWork(walk[w]), walk[w].pc # "read", NEW new \in WalkRecord,
           new.known = walk[w].known, new.all = walk[w].all, new.pass = walk[w].pass,
           new.pages = walk[w].pages, new.at = walk[w].at,
           new.pc \in {"gap", "again", "turn", "send"}, new.pc = "send" => new.pass = "submit",
           new.pc = "gap" => new.gaps \subseteq Shown(w).asks \cup {"page"},
           new.filled = walk[w].filled \/ \E q \in Controls :
               new.filled = [walk[w].filled EXCEPT ![q] = sheet.fields[KeyOf[q]]]
    PROVE  WalkSound(new, fscene, standing, sheet.fields)
<1>1. /\ walk[w] \in WalkRecord /\ WalkSound(walk[w], fscene, standing, sheet.fields)
      /\ Shown(w) = walk[w].pages[walk[w].at] /\ walk[w].at \in Nat
  BY WorkingWalk
<1>2. walk[w].filled \in [Controls -> Fields]
  BY <1>1 DEF WalkRecord
<1>3. CheckedUpTo(walk[w], sheet.fields) => CheckedUpTo(new, sheet.fields)
  BY <1>1 DEF CheckedUpTo
<1>4. FilledFrom(walk[w], sheet.fields) => FilledFrom(new, sheet.fields)
  BY <1>2 DEF FilledFrom
<1> QED
  BY <1>1, <1>3, <1>4 DEF WalkSound, AtWork

LEMMA GapEndsHolds ==
    ASSUME SoundForms, FInv, NEW w \in Walkers, walk[w].pc = "gap", NEW gap \in walk[w].gaps,
           NEW closed, NEW looks \in {0, 1}, GapEnds(w, gap, closed, looks),
           UNCHANGED <<fscene, layout, sheet, approved, received>>
    PROVE  FInv'
<1>1. /\ AtWork(walk[w]) /\ walk[w] \in WalkRecord /\ WalkSound(walk[w], fscene, standing, sheet.fields)
      /\ walk[w].looks \in Nat /\ walk[w].gaps \in SUBSET (Controls \cup {"page"})
      /\ walk[w].gaps \subseteq Shown(w).asks \cup {"page"}
      /\ sheet \in Sheet /\ Keyed(sheet.fields)
  BY WorkingWalk DEF AtWork, WalkSound, WalkRecord, FInv, FormTyped
<1> DEFINE gaps == walk[w].gaps \ {gap}
           n == walk[w].looks + looks
           pc == IF gaps # {} THEN "gap" ELSE IF gap = "page" THEN "again" ELSE Turning(w)
<1>2. PICK failed : failed = (walk[w].failed \/ ~closed)
  OBVIOUS
<1>6. \/ /\ standing' = "needs_user"
         /\ walk' = [walk EXCEPT ![w] = [walk[w] EXCEPT !.pc = "save", !.looks = n]]
      \/ /\ walk' = [walk EXCEPT ![w] = [walk[w] EXCEPT !.gaps = gaps, !.failed = failed, !.looks = n, !.pc = pc]]
         /\ UNCHANGED standing
  BY <1>2 DEF GapEnds, WalkGoes
<1>7. failed \in BOOLEAN /\ pc \in {"gap", "again", Turning(w)}
  BY <1>2
<1> HIDE DEF pc
<1>3. n \in Nat
  BY <1>1
<1>4. CASE standing' = "needs_user" /\ walk' = [walk EXCEPT ![w] = [walk[w] EXCEPT !.pc = "save", !.looks = n]]
  <2> DEFINE new == [walk[w] EXCEPT !.pc = "save", !.looks = n]
  <2>1. new \in WalkRecord /\ ~AtWork(new) /\ Keyed(new.known) /\ Keyed(new.all)
    BY <1>1, <1>3 DEF WalkRecord, AtWork, WalkSound
  <2>2. "needs_user" \in Standings \ {"submitting", "sending"} /\ walk' = [walk EXCEPT ![w] = new]
    BY <1>4 DEF Standings
  <2> HIDE DEF new
  <2> QED
    BY <1>1, <1>4, <2>1, <2>2, EndHolds
<1>5. CASE /\ walk' = [walk EXCEPT ![w] = [walk[w] EXCEPT !.gaps = gaps, !.failed = failed, !.looks = n, !.pc = pc]]
           /\ UNCHANGED standing
  <2> DEFINE new == [walk[w] EXCEPT !.gaps = gaps, !.failed = failed, !.looks = n, !.pc = pc]
  <2>1. pc \in {"gap", "again", "turn", "send"} /\ (pc = "send" => walk[w].pass = "submit")
    BY <1>7, TurningIs
  <2>2. gaps \in SUBSET (Controls \cup {"page"}) /\ gaps \subseteq Shown(w).asks \cup {"page"}
    BY <1>1
  <2>3. /\ new \in WalkRecord /\ new.pc = pc /\ new.known = walk[w].known /\ new.all = walk[w].all
        /\ new.pass = walk[w].pass /\ new.pages = walk[w].pages /\ new.at = walk[w].at
        /\ new.filled = walk[w].filled /\ new.gaps = gaps
    BY <1>1, <1>3, <1>7, <2>1, <2>2 DEF WalkRecord
  <2>4. walk' = [walk EXCEPT ![w] = new]
    BY <1>5
  <2> HIDE DEF new
  <2>5. WalkSound(new, fscene, standing, sheet.fields)
    BY <1>1, <2>1, <2>2, <2>3, StaysSound
  <2> QED
    BY <1>1, <1>5, <2>4, <2>5, GoesOnHolds
<1> QED
  BY <1>4, <1>5, <1>6

\* One move of a model that makes no wrong one: it gives the site nothing.
LEMMA LookHolds == ASSUME SoundForms, FInv, NEW w \in Walkers, Look(w) PROVE FInv'
<1>1. /\ walk[w].pc = "gap" /\ AtWork(walk[w]) /\ UNCHANGED <<fscene, layout, sheet, approved>>
  BY DEF Look, AtWork
<1>2. /\ walk[w] \in WalkRecord /\ WalkSound(walk[w], fscene, standing, sheet.fields)
      /\ walk[w].looks \in Nat /\ walk[w].filled \in [Controls -> Fields]
      /\ walk[w].gaps \subseteq Shown(w).asks \cup {"page"} /\ Shown(w).asks \subseteq Controls
      /\ fscene \in FormScenes /\ sheet.fields \in [Controls -> Fields]
  BY <1>1, WorkingWalk DEF WalkSound, WalkRecord, FInv, FormTyped, Sheet, FormPage
<1>3. PICK gap \in walk[w].gaps :
        \/ GapEnds(w, gap, FALSE, 0) /\ UNCHANGED received
        \/ \E move \in fscene.moves :
             \/ GapEnds(w, gap, move = "done", 1) /\ UNCHANGED received
             \/ /\ move \notin {"done", "give_up"} /\ ~MoveRefused(move)
                /\ Sent(w, move)
                /\ \E at \in IF move = "skip" THEN PagesAfter(w, "go") ELSE {walk[w].at},
                      q \in IF gap = "page" /\ Values(w) # {} THEN Values(w) ELSE {gap},
                      box \in Shown(w).asks :
                     /\ move = "fill" /\ q \in Shown(w).asks => box = q
                     /\ WalkGoes(w, [walk[w] EXCEPT !.looks = @ + 1, !.at = at, !.filled = Typed(w, move, q, box)])
                /\ UNCHANGED standing
  BY DEF Look
<1>4. CASE GapEnds(w, gap, FALSE, 0) /\ UNCHANGED received
  BY <1>1, <1>4, GapEndsHolds
<1>5. CASE \E move \in fscene.moves : GapEnds(w, gap, move = "done", 1) /\ UNCHANGED received
  BY <1>1, <1>5, GapEndsHolds
<1>6. ASSUME NEW move \in fscene.moves, ~MoveRefused(move), Sent(w, move), UNCHANGED standing,
             NEW at \in IF move = "skip" THEN PagesAfter(w, "go") ELSE {walk[w].at},
             NEW q \in IF gap = "page" /\ Values(w) # {} THEN Values(w) ELSE {gap},
             NEW box \in Shown(w).asks, move = "fill" /\ q \in Shown(w).asks => box = q,
             WalkGoes(w, [walk[w] EXCEPT !.looks = @ + 1, !.at = at, !.filled = Typed(w, move, q, box)])
      PROVE  FInv'
  <2>1. move \notin {"misfill", "skip", "send"} /\ at = walk[w].at
    BY <1>2, <1>6 DEF SoundForms, MoveRefused
  <2>2. received' = received
    BY <1>6, <2>1 DEF Sent
  <2>3. q \in Shown(w).asks \cup {"page"}
    BY <1>2 DEF Values
  <2>4. PICK filled : filled = Typed(w, move, q, box)
    OBVIOUS
  <2>5. filled = walk[w].filled \/ \E c \in Controls : filled = [walk[w].filled EXCEPT ![c] = sheet.fields[KeyOf[c]]]
    <3>1. CASE move = "fill" /\ q \in Controls
      <4>1. q \in Shown(w).asks
        BY <2>3, <3>1, FormConstants
      <4> QED
        BY <1>6, <2>4, <3>1, <4>1 DEF Typed
    <3>2. CASE ~(move = "fill" /\ q \in Controls)
      BY <2>1, <2>4, <3>2 DEF Typed
    <3> QED
      BY <3>1, <3>2
  <2>6. filled \in [Controls -> Fields]
    BY <1>2, <2>5, FormConstants
  <2> DEFINE new == [walk[w] EXCEPT !.looks = @ + 1, !.at = at, !.filled = filled]
  <2>7. walk[w].at \in Nat /\ walk[w].looks + 1 \in Nat
    BY <1>2 DEF WalkRecord
  <2>8. /\ new \in WalkRecord /\ new.pc = walk[w].pc /\ new.known = walk[w].known /\ new.all = walk[w].all
        /\ new.pass = walk[w].pass /\ new.pages = walk[w].pages /\ new.at = walk[w].at
        /\ new.filled = filled /\ new.gaps = walk[w].gaps
    BY <1>2, <2>1, <2>6, <2>7 DEF WalkRecord
  <2>9. walk' = [walk EXCEPT ![w] = new]
    BY <1>6, <2>4 DEF WalkGoes
  <2> HIDE DEF new
  <2>10. WalkSound(new, fscene, standing, sheet.fields)
    BY <1>1, <1>2, <2>5, <2>8, StaysSound
  <2> QED
    BY <1>1, <1>6, <2>2, <2>9, <2>10, GoesOnHolds
<1> QED
  BY <1>3, <1>4, <1>5, <1>6

LEMMA TurnHolds == ASSUME SoundForms, FInv, NEW w \in Walkers, TurnPage(w) PROVE FInv'
<1>1. /\ walk[w].pc \in {"turn", "again"} /\ AtWork(walk[w]) /\ UNCHANGED <<fscene, layout, sheet, approved>>
  BY DEF TurnPage, AtWork
<1>2. /\ walk[w] \in WalkRecord /\ WalkSound(walk[w], fscene, standing, sheet.fields)
      /\ walk[w].looks \in Nat /\ walk[w].n \in Nat /\ walk[w].step.next \in {"none", "go"}
      /\ walk[w].pages \in {fscene.first, fscene.later} /\ walk[w].at \in 1..Len(walk[w].pages)
      /\ fscene \in FormScenes /\ sheet \in Sheet /\ Keyed(sheet.fields) /\ Len(walk[w].pages) \in Nat
      /\ Keyed(walk[w].known) /\ Keyed(walk[w].all)
  BY <1>1, WorkingWalk DEF WalkSound, WalkRecord, FInv, FormTyped
<1>3. PICK b : 
        /\ b \in (IF walk[w].pc = "turn" /\ walk[w].pass = "prepare" THEN {[step |-> walk[w].step, looks |-> 0]}
                  ELSE ButtonSteps(w))
        /\ \/ /\ standing' = "needs_user" /\ UNCHANGED received
              /\ WalkGoes(w, [walk[w] EXCEPT !.pc = "save", !.looks = @ + b.looks])
           \/ /\ b.step.next # "none" /\ Sent(w, b.step.next)
              /\ \E at \in PagesAfter(w, b.step.next) :
                   LET onward == [walk[w] EXCEPT !.looks = @ + b.looks, !.at = at, !.step = NoStep] IN
                   \/ /\ at # walk[w].at
                      /\ WalkGoes(w, [onward EXCEPT !.pc = "read", !.n = @ + 1])
                      /\ UNCHANGED standing
                   \/ /\ at = walk[w].at
                      /\ WalkGoes(w, [onward EXCEPT !.pc = "gap", !.gaps = {"page"}])
                      /\ UNCHANGED standing
                   \/ /\ standing' = "needs_user"
                      /\ WalkGoes(w, [onward EXCEPT !.pc = "save"])
  BY DEF TurnPage
<1>4. b.looks \in {0, 1} /\ b.step.next \in {"none", "go"}
  <2>1. CASE walk[w].pc = "turn" /\ walk[w].pass = "prepare"
    <3>1. b = [step |-> walk[w].step, looks |-> 0]
      BY <1>3, <2>1
    <3> QED
      BY <1>2, <3>1
  <2>2. CASE ~(walk[w].pc = "turn" /\ walk[w].pass = "prepare")
    BY <1>2, <1>3, <2>2, ButtonsAreRight
  <2> QED
    BY <2>1, <2>2
<1>5. PICK looks : looks = walk[w].looks + b.looks
  OBVIOUS
<1>6. looks \in Nat
  BY <1>2, <1>4, <1>5
<1>7. NoStep \in [next : {"none", "go"}, submit : {"none", "send"}] /\ "needs_user" \in Standings \ {"submitting", "sending"}
  BY DEF NoStep, Standings
<1>8. CASE /\ standing' = "needs_user" /\ UNCHANGED received
           /\ WalkGoes(w, [walk[w] EXCEPT !.pc = "save", !.looks = @ + b.looks])
  <2> DEFINE new == [walk[w] EXCEPT !.pc = "save", !.looks = looks]
  <2>1. new \in WalkRecord /\ ~AtWork(new) /\ Keyed(new.known) /\ Keyed(new.all)
    BY <1>2, <1>6 DEF WalkRecord, AtWork
  <2>2. walk' = [walk EXCEPT ![w] = new]
    BY <1>5, <1>8 DEF WalkGoes
  <2> HIDE DEF new
  <2> QED
    BY <1>1, <1>2, <1>7, <1>8, <2>1, <2>2, EndHolds
<1>9. ASSUME b.step.next # "none", Sent(w, b.step.next), NEW at \in PagesAfter(w, b.step.next), NEW onward,
             onward = [walk[w] EXCEPT !.looks = @ + b.looks, !.at = at, !.step = NoStep],
             \/ /\ at # walk[w].at
                /\ WalkGoes(w, [onward EXCEPT !.pc = "read", !.n = @ + 1])
                /\ UNCHANGED standing
             \/ /\ at = walk[w].at
                /\ WalkGoes(w, [onward EXCEPT !.pc = "gap", !.gaps = {"page"}])
                /\ UNCHANGED standing
             \/ /\ standing' = "needs_user"
                /\ WalkGoes(w, [onward EXCEPT !.pc = "save"])
      PROVE  FInv'
  <2>1. b.step.next = "go" /\ received' = received
    BY <1>4, <1>9 DEF Sent
  <2>2. at = walk[w].at \/ (at = walk[w].at + 1 /\ walk[w].at < Len(walk[w].pages))
    BY <1>9, <2>1 DEF PagesAfter
  <2>3. at \in 1..Len(walk[w].pages)
    BY <1>2, <2>2
  <2>4. /\ onward \in WalkRecord /\ onward.known = walk[w].known /\ onward.all = walk[w].all
        /\ onward.pass = walk[w].pass /\ onward.pages = walk[w].pages /\ onward.at = at
        /\ onward.filled = walk[w].filled /\ onward.n = walk[w].n
    <3>1. onward = [walk[w] EXCEPT !.looks = looks, !.at = at, !.step = NoStep]
      BY <1>5, <1>9
    <3>2. at \in Nat
      BY <1>2, <2>3
    <3> QED
      BY <1>2, <1>6, <1>7, <3>1, <3>2 DEF WalkRecord
  <2>5. CASE at # walk[w].at /\ WalkGoes(w, [onward EXCEPT !.pc = "read", !.n = @ + 1]) /\ UNCHANGED standing
    <3> DEFINE new == [onward EXCEPT !.pc = "read", !.n = @ + 1]
    <3>1. /\ new \in WalkRecord /\ new.pc = "read" /\ new.known = walk[w].known /\ new.all = walk[w].all
          /\ new.pass = walk[w].pass /\ new.pages = walk[w].pages /\ new.at = at /\ new.filled = walk[w].filled
      <4>1. onward.n + 1 \in Nat
        BY <1>2, <2>4
      <4> QED
        BY <2>4, <4>1 DEF WalkRecord
    <3>2. walk' = [walk EXCEPT ![w] = new]
      BY <2>5 DEF WalkGoes
    <3> HIDE DEF new
    <3>3. CheckedUpTo(walk[w], sheet.fields) => CheckedUpTo(new, sheet.fields)
      BY <1>1, <1>2, <2>2, <2>5, <3>1 DEF CheckedUpTo
    <3>4. FilledFrom(walk[w], sheet.fields) => FilledFrom(new, sheet.fields)
      BY <3>1 DEF FilledFrom
    <3>5. WalkSound(new, fscene, standing, sheet.fields)
      BY <1>1, <1>2, <2>3, <3>1, <3>3, <3>4 DEF WalkSound
    <3> QED
      BY <1>1, <2>1, <2>5, <3>2, <3>5, GoesOnHolds
  <2>6. CASE at = walk[w].at /\ WalkGoes(w, [onward EXCEPT !.pc = "gap", !.gaps = {"page"}]) /\ UNCHANGED standing
    <3> DEFINE new == [onward EXCEPT !.pc = "gap", !.gaps = {"page"}]
    <3>1. /\ new \in WalkRecord /\ new.pc = "gap" /\ new.known = walk[w].known /\ new.all = walk[w].all
          /\ new.pass = walk[w].pass /\ new.pages = walk[w].pages /\ new.at = walk[w].at
          /\ new.filled = walk[w].filled /\ new.gaps = {"page"}
      BY <2>4, <2>6 DEF WalkRecord
    <3>2. walk' = [walk EXCEPT ![w] = new]
      BY <2>6 DEF WalkGoes
    <3> HIDE DEF new
    <3>3. WalkSound(new, fscene, standing, sheet.fields)
      BY <1>1, <3>1, StaysSound
    <3> QED
      BY <1>1, <2>1, <2>6, <3>2, <3>3, GoesOnHolds
  <2>7. CASE standing' = "needs_user" /\ WalkGoes(w, [onward EXCEPT !.pc = "save"])
    <3> DEFINE new == [onward EXCEPT !.pc = "save"]
    <3>1. new \in WalkRecord /\ ~AtWork(new) /\ Keyed(new.known) /\ Keyed(new.all)
      BY <1>2, <2>4 DEF WalkRecord, AtWork
    <3>2. walk' = [walk EXCEPT ![w] = new]
      BY <2>7 DEF WalkGoes
    <3> HIDE DEF new
    <3> QED
      BY <1>1, <1>2, <1>7, <2>1, <2>7, <3>1, <3>2, EndHolds
  <2> QED
    BY <1>9, <2>5, <2>6, <2>7
<1> QED
  BY <1>3, <1>8, <1>9

\* A walk that has checked every page of its form sends what was approved.
LEMMA SentIsReviewed ==
    ASSUME SoundForms, FInv, NEW w \in Walkers, walk[w].pc = "send", walk[w].at = Len(walk[w].pages),
           NEW r, r = [pass |-> walk[w].pass, filled |-> walk[w].filled, pages |-> walk[w].pages]
    PROVE  AsReviewed(r, approved)
<1>1. AtWork(walk[w])
  BY DEF AtWork
<1>2. /\ WalkSound(walk[w], fscene, standing, sheet.fields) /\ walk[w].pages \in Seq(FormPage)
      /\ walk[w].at \in Nat
  BY <1>1, WorkingWalk
<1>3. /\ walk[w].pass = "submit" /\ standing = "sending"
      /\ CheckedUpTo(walk[w], sheet.fields) /\ FilledFrom(walk[w], sheet.fields)
  BY <1>1, <1>2 DEF WalkSound
<1>4. approved = sheet.fields /\ Keyed(sheet.fields) /\ KeyOf \in [Controls -> Controls]
  BY <1>3, FormConstants DEF FInv, FormTyped
<1>5. ASSUME NEW q \in Controls, approved[KeyOf[q]] # NoField PROVE approved[KeyOf[q]].ask = q
  <2>1. KeyOf[q] \in Controls
    BY <1>4
  <2>2. approved[KeyOf[q]].ask \in Controls /\ KeyOf[approved[KeyOf[q]].ask] = KeyOf[q]
    BY <1>4, <1>5, <2>1 DEF Keyed
  <2> QED
    BY <2>2 DEF SoundForms
<1>6. \A q \in Controls : r.filled[q] # NoField => r.filled[q] = approved[KeyOf[q]] /\ r.filled[q].ask = q
  BY <1>3, <1>4, <1>5 DEF FilledFrom
<1>7. ASSUME NEW n \in DOMAIN r.pages, NEW q \in r.pages[n].required
      PROVE  approved[KeyOf[q]].ask = q /\ HasValue(approved[KeyOf[q]])
  <2>1. n \in 1..walk[w].at /\ q \in walk[w].pages[n].required /\ walk[w].pages[n] \in FormPage
    BY <1>2, <1>7
  <2>2. q \in Controls /\ HasValue(approved[KeyOf[q]])
    BY <1>3, <1>4, <2>1 DEF CheckedUpTo, FormPage
  <2>3. approved[KeyOf[q]] # NoField
    BY <2>2 DEF HasValue, NoField
  <2> QED
    BY <1>5, <2>2, <2>3
<1> QED
  BY <1>3, <1>6, <1>7 DEF AsReviewed

LEMMA SendHolds == ASSUME SoundForms, FInv, NEW w \in Walkers, Send(w) PROVE FInv'
<1>1. /\ walk[w].pc = "send" /\ AtWork(walk[w]) /\ UNCHANGED <<fscene, layout, sheet, approved>>
  BY DEF Send, AtWork
<1>2. /\ walk[w] \in WalkRecord /\ WalkSound(walk[w], fscene, standing, sheet.fields)
      /\ walk[w].looks \in Nat /\ Keyed(walk[w].known) /\ Keyed(walk[w].all) /\ received = {}
      /\ walk[w].pages \in {fscene.first, fscene.later} /\ walk[w].at \in 1..Len(walk[w].pages)
      /\ Shown(w) = walk[w].pages[walk[w].at] /\ walk[w].pages \in Seq(FormPage)
      /\ fscene \in FormScenes /\ sheet \in Sheet /\ Keyed(sheet.fields)
  BY <1>1, WorkingWalk DEF WalkSound, WalkRecord, FInv, FormTyped
<1>3. CASE Stops(w) /\ UNCHANGED <<received, looked>>
  <2>1. "needs_user" \in Standings \ {"submitting", "sending"}
    BY DEF Standings
  <2> QED
    BY <1>1, <1>2, <1>3, <2>1, StopHolds DEF Stops
<1>4. CASE ~(Stops(w) /\ UNCHANGED <<received, looked>>)
  <2>1. PICK b \in ButtonSteps(w), st \in Outcome :
          /\ \/ standing' = "needs_user" /\ UNCHANGED received
             \/ /\ b.step.submit # "none" /\ (fscene.multi => IsFinal(b.step))
                /\ standing' = st /\ Sent(w, b.step.submit)
          /\ WalkGoes(w, [walk[w] EXCEPT !.pc = "save", !.looks = @ + b.looks])
    BY <1>4 DEF Send
  <2>2. /\ b.looks \in {0, 1} /\ b.step \in [next : {"none", "go"}, submit : {"none", "send"}]
        /\ b.step = NoStep \/ b.step = Said(Shown(w), "right")
    BY <1>2, ButtonsAreRight
  <2> DEFINE new == [walk[w] EXCEPT !.pc = "save", !.looks = @ + b.looks]
  <2>3. new \in WalkRecord /\ ~AtWork(new) /\ Keyed(new.known) /\ Keyed(new.all)
    <3>1. walk[w].looks + b.looks \in Nat
      BY <1>2, <2>2
    <3> QED
      BY <1>2, <3>1 DEF WalkRecord, AtWork
  <2>4. walk' = [walk EXCEPT ![w] = new]
    BY <2>1 DEF WalkGoes
  <2> HIDE DEF new
  <2>5. \A s \in {"needs_user", "submitted"} : s \in Standings \ {"submitting", "sending"} /\ s \in Over
    BY DEF Standings, Over
  <2>6. CASE standing' = "needs_user" /\ UNCHANGED received
    BY <1>1, <1>2, <2>3, <2>4, <2>5, <2>6, EndHolds
  <2>7. CASE /\ b.step.submit # "none" /\ (fscene.multi => IsFinal(b.step))
             /\ standing' = st /\ Sent(w, b.step.submit)
    <3> DEFINE r == [pass |-> walk[w].pass, filled |-> walk[w].filled, pages |-> walk[w].pages]
    <3>1. received' = {r}
      BY <1>2, <2>2, <2>7 DEF Sent
    <3>2. SoundForm(fscene, walk[w].pages)
      BY <1>2 DEF SoundForms
    <3>3. walk[w].at = Len(walk[w].pages)
      <4>1. CASE ~fscene.multi
        BY <1>2, <3>2, <4>1 DEF SoundForm
      <4>2. CASE fscene.multi
        <5>1. b.step.next = "none" /\ b.step = Said(Shown(w), "right")
          BY <2>2, <2>7, <4>2 DEF IsFinal, NoStep
        <5>2. "go" \notin Shown(w).buttons
          BY <5>1 DEF Said
        <5> QED
          BY <1>2, <3>2, <5>2 DEF SoundForm
      <4> QED
        BY <4>1, <4>2
    <3>4. AsReviewed(r, approved)
      BY <1>1, <3>3, SentIsReviewed
    <3> HIDE DEF r
    <3>5. st \in Over /\ st \in Standings \ {"submitting", "sending"} /\ st \in {"submitted", "needs_user"}
      BY <2>5 DEF Outcome
    <3>6. WalkSteps(w, new, st, sheet.fields)
      <4>1. WalkSound(new, fscene, st, sheet.fields)
        BY <2>3, EndedIsSound
      <4> QED
        BY <1>1, <2>3, <2>4, <4>1, WorkingWalk DEF WalkSteps
    <3>7. /\ walk' \in [Walkers -> WalkRecord] /\ OneAtWork'
          /\ \A v \in Walkers : WalkSound(walk'[v], fscene', standing', sheet'.fields)
      BY <1>1, <2>7, <3>6, WalksStaySound DEF OneAtWork
    <3>8. FormTyped'
      BY <1>1, <2>7, <3>5, <3>7 DEF FInv, FormTyped
    <3>9. SentOver'
      BY <1>1, <2>7, <3>1, <3>4, <3>5 DEF SentOver
    <3> QED
      BY <1>1, <2>7, <3>5, <3>7, <3>8, <3>9 DEF FInv
  <2> QED
    BY <2>1, <2>6, <2>7
<1> QED
  BY <1>3, <1>4

\* The user answers or approves while no walk is at work.
LEMMA UserHolds ==
    ASSUME SoundForms, FInv, AnswerField \/ ApproveForm
    PROVE  FInv'
<1>1. /\ standing \in {"awaiting_input", "awaiting_review"} /\ UNCHANGED <<fscene, layout, walk, received>>
      /\ sheet \in Sheet /\ Keyed(sheet.fields) /\ approved \in [Controls -> Fields]
  BY DEF AnswerField, ApproveForm, FInv, FormTyped
<1>2. received = {} /\ \A w \in Walkers : ~AtWork(walk[w])
  BY <1>1 DEF FInv, SentOver, WalkSound
<1>3. \A w \in Walkers : \A st, fields : WalkSound(walk[w], fscene, st, fields)
  BY <1>2 DEF FInv, WalkSound
<1>4. CASE AnswerField
  <2>1. PICK k \in Controls :
          /\ sheet.fields[k].value \in {"open", "drafted"}
          /\ sheet' = [sheet EXCEPT !.fields[k].value = "typed"]
          /\ standing' = Announced(sheet') /\ approved' = approved
    BY <1>4 DEF AnswerField
  <2> DEFINE fields == [sheet.fields EXCEPT ![k].value = "typed"]
  <2>2. sheet.fields \in [Controls -> Fields]
    BY <1>1 DEF Sheet
  <2>3. fields \in [Controls -> Fields]
    BY <2>2 DEF Fields
  <2>4. sheet.fields[k] # NoField
    BY <2>1 DEF NoField
  <2>5. Keyed(fields)
    BY <1>1, <2>2, <2>4 DEF Keyed, Fields
  <2>6. sheet' = [sheet EXCEPT !.fields = fields]
    BY <1>1, <2>1 DEF Sheet
  <2> HIDE DEF fields
  <2>7. sheet' \in Sheet /\ sheet'.fields = fields
    BY <1>1, <2>3, <2>6 DEF Sheet
  <2>8. standing' \in Standings \ {"submitting", "sending"}
    BY <2>1, AnnouncedIs
  <2> QED
    BY <1>1, <1>2, <1>3, <2>1, <2>5, <2>7, <2>8 DEF FInv, FormTyped, OneAtWork, SentOver
<1>5. CASE ApproveForm
  <2>1. standing' = "submitting" /\ approved' = sheet.fields /\ sheet' = sheet
    BY <1>5 DEF ApproveForm
  <2>2. sheet.fields \in [Controls -> Fields] /\ "submitting" \in Standings
    BY <1>1 DEF Sheet, Standings
  <2> QED
    BY <1>1, <1>2, <1>3, <2>1, <2>2 DEF FInv, FormTyped, OneAtWork, SentOver
<1> QED
  BY <1>4, <1>5

LEMMA FormChangesHolds == ASSUME FInv, FormChanges PROVE FInv'
  BY DEF FInv, FormChanges, FormTyped, OneAtWork, SentOver

\* OnlyReviewedSent, for the specification of the walks (_prepare_steps and
\* _submit_steps of services/apply_engine.py): what leaves the browser was
\* approved, each answer at the question it was approved for, and nothing else
\* was required.
THEOREM OnlyTheReviewedIsSent == SoundForms => (FormSpec => []OnlyReviewedSent)
<1> SUFFICES ASSUME SoundForms PROVE FormSpec => []OnlyReviewedSent
  OBVIOUS
<1>1. FormInit => FInv
  BY FormStartsWell
<1>2. FInv /\ [FormNext]_fvars => FInv'
  <2> SUFFICES ASSUME FInv, [FormNext]_fvars PROVE FInv'
    OBVIOUS
  <2>1. CASE UNCHANGED fvars
    BY <2>1 DEF fvars, FInv, FormTyped, OneAtWork, SentOver
  <2>2. ASSUME NEW w \in Walkers, StartPrepare(w) PROVE FInv'
    BY <2>2, OpenedHolds DEF StartPrepare
  <2>3. ASSUME NEW w \in Walkers, StartSubmit(w) PROVE FInv'
    BY <2>3, OpenedHolds DEF StartSubmit
  <2>4. ASSUME NEW w \in Walkers, ReadPage(w) \/ LookForLast(w) \/ CheckPage(w) \/ FillPage(w) PROVE FInv'
    BY <2>4, ReadHolds, LookForLastHolds, CheckHolds, FillHolds
  <2>5. ASSUME NEW w \in Walkers, Look(w) \/ TurnPage(w) \/ Send(w) \/ SaveUsage(w) PROVE FInv'
    BY <2>5, LookHolds, TurnHolds, SendHolds, FormSaveHolds
  <2>6. CASE AnswerField \/ ApproveForm \/ FormChanges
    BY <2>6, UserHolds, FormChangesHolds
  <2> QED
    BY <2>1, <2>2, <2>3, <2>4, <2>5, <2>6 DEF FormNext
<1>3. FInv => OnlyReviewedSent
  BY DEF FInv, SentOver, AsReviewed, OnlyReviewedSent, ApprovedSends, SentAsReviewed
<1> QED
  BY <1>1, <1>2, <1>3, PTL DEF FormSpec

----------------------------------------------------------------------------
(***************************************************************************)
(* A user who sends one request at a time has one master at most, and       *)
(* nothing is left pending that nobody works at: for any number of resumes, *)
(* packs, tabs and workers, with every failure.                             *)
(*                                                                          *)
(* The argument for the master: rows are numbered in order and no version   *)
(* is higher than its row's number, so the newest upload is one; while one  *)
(* request is under way the workers make no master, so what it read of the  *)
(* masters still holds, or there are fewer.  For the packs: a build that    *)
(* took a pending pack makes an end of its being pending, and one that took *)
(* it otherwise leaves the pending to the task that was queued for it.      *)
(***************************************************************************)

ResumeRow == [state : {"unused", "kept", "gone"}, version : 0..MaxRows, master : BOOLEAN, parent : 0..MaxRows,
              status : Status, content : Contents, from : Contents]
PackStatus == {"none", "pending", "ready", "failed"}
PackRow == [id : 0..MaxPacks, master : 0..MaxRows, hash : Contents, resume : BOOLEAN, cover : BOOLEAN,
            status : PackStatus, tailored : 0..MaxRows, letter : Contents]
TabRow == [pc : {"idle", "upload", "master", "delete", "review", "reparse", "prep"}, row : 0..MaxRows, was : BOOLEAN,
           version : Nat, status : Status, content : Contents, info : {"same", "filled"},
           job : PackJobs \cup {"none"}, pack : 0..MaxPacks, resume : BOOLEAN, cover : BOOLEAN]
HandRow == [pc : {"idle", "parse", "save", "build"}, row : 0..MaxRows, pack : 0..MaxPacks, content : Contents,
            old : 0..MaxRows, info : {"same", "filled"}, resume : BOOLEAN, cover : BOOLEAN, status : PackStatus]

Unused(rows) == {r \in Rows : rows[r].state = "unused"}
KeptOf(rows) == {r \in Rows : rows[r].state = "kept"}
MastersOf(rows) == {r \in KeptOf(rows) : rows[r].master}

\* Rows are used in order, a version is no higher than its row's number, and
\* no two rows have the same one.
RowsOk(rows) ==
    /\ rows \in [Rows -> ResumeRow]
    /\ \A r \in Rows : rows[r].version <= r /\ (rows[r].state # "kept" => rows[r].status = "none")
    /\ \A r \in Unused(rows), n \in Rows : n > r => n \in Unused(rows)
    /\ \A r, n \in KeptOf(rows) : rows[r].version = rows[n].version => r = n

TabFits(t, rows) ==
    /\ t \in TabRow
    /\ t.pc \in {"master", "delete", "review", "reparse", "prep"} => t.row \in Rows \ Unused(rows)
    /\ t.pc = "prep" => t.job \in PackJobs
    /\ t.pc = "upload" => \A r \in Unused(rows) : t.version <= r

HandFits(h) ==
    /\ h \in HandRow
    /\ h.pc # "idle" => h.row \in Rows
    /\ h.pc = "build" => h.pack \in 1..MaxPacks

\* Packs are numbered, each of another number.
PacksOk(packs, n) ==
    /\ packs \in [PackJobs -> PackRow] /\ n \in 0..MaxPacks
    /\ \A j \in PackJobs : /\ packs[j].id # 0 => packs[j].id <= n /\ packs[j].master \in Rows
                           /\ packs[j].status = "pending" => packs[j].id # 0
    /\ \A j, k \in PackJobs : packs[j].id = packs[k].id => j = k \/ packs[j].id = 0

\* One request at a time: what it read of the masters.
Alone(rows, tabs) ==
    /\ \A p, q \in Tabs : tabs[p].pc # "idle" /\ tabs[q].pc # "idle" => p = q
    /\ \A r, n \in MastersOf(rows) : r = n
    /\ \A q \in Tabs : /\ tabs[q].pc = "upload" /\ tabs[q].was => MastersOf(rows) = {}
                       /\ tabs[q].pc = "delete" /\ tabs[q].was => MastersOf(rows) \subseteq {tabs[q].row}

ParsesOk(rows, tasks, hands) ==
    /\ tasks \in [Rows -> 0..MaxQueued]
    /\ \A r \in Rows : rows[r].status = "pending" =>
           tasks[r] > 0 \/ \E w \in Hands : hands[w].pc \in {"parse", "save"} /\ hands[w].row = r

BuildTasks == [1..MaxPacks -> 0..MaxQueued]

\* The build that will end it was taken when the pack was pending.
BuildsOk(packs, tasks, hands) ==
    /\ tasks \in BuildTasks
    /\ \A j \in PackJobs : packs[j].status = "pending" =>
           \/ tasks[packs[j].id] > 0
           \/ \E w \in Hands : hands[w].pc = "build" /\ hands[w].pack = packs[j].id /\ hands[w].status = "pending"

PackInv ==
    /\ kscene \in PackScene /\ info \in {"empty", "typed", "filled"}
    /\ RowsOk(resume) /\ PacksOk(pack, asked.packs) /\ asked \in [requests : Nat, packs : 0..MaxPacks]
    /\ tab \in [Tabs -> TabRow] /\ \A q \in Tabs : TabFits(tab[q], resume)
    /\ hand \in [Hands -> HandRow] /\ \A w \in Hands : HandFits(hand[w])
    /\ crossed \/ Alone(resume, tab)
    /\ ParsesOk(resume, parses, hand) /\ BuildsOk(pack, builds, hand)

----------------------------------------------------------------------------
(* Rows *)

LEMMA NatMin ==
    ASSUME NEW S, S \subseteq Nat, S # {}
    PROVE  \E x \in S : \A y \in S : x <= y
<1>1. IsWellFoundedOn(OpToRel(<, Nat), Nat)
  BY NatLessThanWellFounded
<1>2. PICK x \in S : \A y \in S : <<y, x>> \notin OpToRel(<, Nat)
  BY <1>1, WFMin
<1>3. \A y \in S : ~(y < x)
  BY <1>2 DEF OpToRel
<1> QED
  BY <1>3

LEMMA Numbers ==
    /\ MaxRows \in Nat /\ MaxPacks \in Nat /\ MaxQueued \in Nat /\ MaxQueued > 0 /\ Versions \in Nat
    /\ Rows \subseteq Nat /\ Rows \subseteq 0..MaxRows /\ 0 \in Contents
    /\ \A s \in PackScenes : s \in PackScene
    /\ \A r \in Rows : r \in Nat /\ r > 0
BY PackConstants DEF Rows, Contents

LEMMA RowSets ==
    /\ Kept = KeptOf(resume) /\ Masters = MastersOf(resume)
    /\ HasRoom <=> Unused(resume) # {}
BY DEF Kept, KeptOf, Masters, MastersOf, HasRoom, Unused

\* The next row is the first one that is not used.
LEMMA FreshIs ==
    ASSUME HasRoom
    PROVE  Fresh \in Unused(resume) /\ \A n \in Unused(resume) : Fresh <= n
<1>1. Unused(resume) \subseteq Nat /\ Unused(resume) # {}
  BY RowSets, Numbers DEF Unused
<1>2. PICK x \in Unused(resume) : \A n \in Unused(resume) : x <= n
  BY <1>1, NatMin
<1>3. \E r \in Rows : resume[r].state = "unused" /\ \A n \in Rows : n < r => resume[n].state # "unused"
  BY <1>1, <1>2, Numbers DEF Unused
<1>4. /\ Fresh \in Rows /\ resume[Fresh].state = "unused"
      /\ \A n \in Rows : n < Fresh => resume[n].state # "unused"
  BY <1>3 DEF Fresh
<1> QED
  BY <1>4, Numbers DEF Unused

\* The last version is that of a row, and the highest.
LEMMA LastVersionIs ==
    ASSUME RowsOk(resume)
    PROVE  /\ LastVersion \in Nat /\ \A r \in KeptOf(resume) : resume[r].version <= LastVersion
           /\ LastVersion = 0 \/ \E k \in KeptOf(resume) : LastVersion = resume[k].version
<1>1. \A r \in Rows : resume[r].version \in Nat /\ resume[r].version <= MaxRows
  BY Numbers DEF RowsOk, ResumeRow
<1>2. CASE KeptOf(resume) = {}
  BY <1>2, RowSets DEF LastVersion
<1>3. CASE KeptOf(resume) # {}
  <2> DEFINE S == {MaxRows - resume[r].version : r \in KeptOf(resume)}
  <2>1. S \subseteq Nat /\ S # {}
    <3>1. \A r \in KeptOf(resume) : MaxRows - resume[r].version \in Nat
      <4> SUFFICES ASSUME NEW r \in KeptOf(resume) PROVE MaxRows - resume[r].version \in Nat
        OBVIOUS
      <4>1. resume[r].version \in Nat /\ resume[r].version <= MaxRows
        BY <1>1 DEF KeptOf
      <4> QED
        BY <4>1, Numbers
    <3> QED
      BY <1>3, <3>1
  <2>2. PICK x \in S : \A y \in S : x <= y
    BY <2>1, NatMin
  <2>3. PICK k \in KeptOf(resume) : x = MaxRows - resume[k].version
    BY <2>2
  <2>4. \A r \in KeptOf(resume) : resume[r].version <= resume[k].version
    <3> SUFFICES ASSUME NEW r \in KeptOf(resume) PROVE resume[r].version <= resume[k].version
      OBVIOUS
    <3>1. MaxRows - resume[k].version <= MaxRows - resume[r].version
      BY <2>2, <2>3
    <3>2. r \in Rows /\ k \in Rows
      BY DEF KeptOf
    <3> HIDE DEF S
    <3> QED
      BY <1>1, <3>1, <3>2, Numbers
  <2>5. Highest(Kept) # {}
    BY <2>4, RowSets DEF Highest
  <2>6. PICK h \in Highest(Kept) : LastVersion = resume[h].version
    BY <2>5, <1>3, RowSets DEF LastVersion
  <2>7. h \in KeptOf(resume) /\ \A n \in KeptOf(resume) : resume[n].version <= resume[h].version
    BY <2>6, RowSets DEF Highest
  <2> QED
    BY <1>1, <2>6, <2>7 DEF KeptOf
<1> QED
  BY <1>2, <1>3

\* So the next version is no higher than the number of the next row.
LEMMA NextVersionFits ==
    ASSUME RowsOk(resume), NEW r \in Unused(resume)
    PROVE  LastVersion + 1 \in Nat /\ LastVersion + 1 <= r
<1>1. r \in Nat /\ r > 0 /\ r \in Rows
  BY Numbers DEF Unused
<1>2. CASE LastVersion = 0
  BY <1>1, <1>2
<1>3. ASSUME NEW k \in KeptOf(resume), LastVersion = resume[k].version PROVE LastVersion + 1 \in Nat /\ LastVersion + 1 <= r
  <2>1. k \in Nat /\ k \in Rows /\ k \notin Unused(resume)
    BY Numbers DEF KeptOf, Unused
  <2>2. ~(k > r) /\ k # r
    BY <2>1 DEF RowsOk
  <2>3. resume[k].version <= k /\ resume[k].version \in Nat
    BY <2>1, Numbers DEF RowsOk, ResumeRow
  <2> QED
    BY <1>1, <1>3, <2>1, <2>2, <2>3
<1> QED
  BY <1>2, <1>3, LastVersionIs

\* A row is added where the next one belongs.
LEMMA AddedOk ==
    ASSUME NEW rows, RowsOk(rows), NEW r, r \in Unused(rows), \A n \in Unused(rows) : r <= n,
           NEW new, new \in [Rows -> ResumeRow], \A n \in Rows \ {r} : new[n] = rows[n],
           new[r].state = "kept", new[r].version <= r, \A n \in KeptOf(rows) : rows[n].version # new[r].version
    PROVE  RowsOk(new) /\ Unused(new) = Unused(rows) \ {r} /\ KeptOf(new) = KeptOf(rows) \cup {r}
<1>1. r \in Rows
  BY DEF Unused
<1>3. Unused(new) = Unused(rows) \ {r}
  BY <1>1 DEF Unused
<1>4. KeptOf(new) = KeptOf(rows) \cup {r}
  BY <1>1 DEF KeptOf
<1>5. r \notin KeptOf(rows)
  BY DEF KeptOf, Unused
<1>6. \A n, k \in KeptOf(new) : new[n].version = new[k].version => n = k
  BY <1>4, <1>5 DEF RowsOk, KeptOf
<1>7. \A n \in Rows : new[n].version <= n /\ (new[n].state # "kept" => new[n].status = "none")
  BY <1>1 DEF RowsOk
<1>8. \A k \in Unused(new), n \in Rows : n > k => n \in Unused(new)
  <2> SUFFICES ASSUME NEW k \in Unused(new), NEW n \in Rows, n > k PROVE n \in Unused(new)
    OBVIOUS
  <2>1. k \in Unused(rows) /\ k \in Nat /\ n \in Nat /\ r \in Nat
    BY <1>1, <1>3, Numbers DEF Unused
  <2>2. n \in Unused(rows) /\ r <= k
    BY <1>3, <2>1 DEF RowsOk
  <2>3. n # r
    BY <2>1, <2>2
  <2> QED
    BY <1>3, <2>2, <2>3
<1> QED
  BY <1>1, <1>3, <1>4, <1>6, <1>7, <1>8 DEF RowsOk

\* Rows keep their places, and their versions.
LEMMA EditedOk ==
    ASSUME NEW rows, RowsOk(rows), NEW new \in [Rows -> ResumeRow],
           \A r \in Rows : new[r].state = rows[r].state /\ new[r].version = rows[r].version,
           \A r \in Rows \ KeptOf(rows) : new[r].status = "none"
    PROVE  RowsOk(new) /\ Unused(new) = Unused(rows) /\ KeptOf(new) = KeptOf(rows)
<1>1. Unused(new) = Unused(rows) /\ KeptOf(new) = KeptOf(rows)
  BY DEF Unused, KeptOf
<1> QED
  BY <1>1 DEF RowsOk, KeptOf

\* Rows are deleted.
LEMMA WithoutOk ==
    ASSUME NEW rows, RowsOk(rows), NEW lost \in SUBSET Rows, lost \cap Unused(rows) = {},
           NEW new, new = RowsWithout(rows, lost)
    PROVE  /\ RowsOk(new) /\ Unused(new) = Unused(rows) /\ KeptOf(new) = KeptOf(rows) \ lost
           /\ \A r \in Rows \ lost : /\ new[r].state = rows[r].state /\ new[r].master = rows[r].master
                                     /\ new[r].version = rows[r].version /\ new[r].status = rows[r].status
           /\ \A r \in lost : new[r] = Gone
<1>0. 0 \in 0..MaxRows
  BY Numbers
<1>1. Gone \in ResumeRow /\ Gone.state = "gone" /\ Gone.version = 0 /\ Gone.status = "none"
  BY <1>0, Numbers DEF Gone, NoResume, ResumeRow, Status
<1>2. \A r \in lost : new[r] = Gone
  BY DEF RowsWithout
<1>3. \A r \in Rows \ lost : new[r] = [rows[r] EXCEPT !.parent = IF @ \in lost THEN 0 ELSE @]
  BY DEF RowsWithout
<1>4. ASSUME NEW r \in Rows \ lost
      PROVE  /\ new[r] \in ResumeRow
             /\ new[r].state = rows[r].state /\ new[r].master = rows[r].master
             /\ new[r].version = rows[r].version /\ new[r].status = rows[r].status
  <2>1. rows[r] \in ResumeRow
    BY DEF RowsOk
  <2> QED
    BY <1>0, <1>3, <2>1 DEF ResumeRow
<1>5. new \in [Rows -> ResumeRow]
  <2>1. \A r \in Rows : new[r] \in ResumeRow
    BY <1>1, <1>2, <1>4
  <2> QED
    BY <2>1 DEF RowsWithout
<1> HIDE DEF Gone
<1>6. Unused(new) = Unused(rows) /\ KeptOf(new) = KeptOf(rows) \ lost
  BY <1>1, <1>2, <1>4 DEF Unused, KeptOf
<1>7. \A n, k \in KeptOf(new) : new[n].version = new[k].version => n = k
  BY <1>4, <1>6 DEF RowsOk, KeptOf
<1>8. \A n \in Rows : new[n].version <= n /\ (new[n].state # "kept" => new[n].status = "none")
  BY <1>1, <1>2, <1>4, Numbers DEF RowsOk
<1> QED
  BY <1>2, <1>4, <1>5, <1>6, <1>7, <1>8 DEF RowsOk

----------------------------------------------------------------------------
(* What a step of a tab or of a worker has to show *)

LEMMA IdleFits ==
    /\ TabFits(IdleTab, resume) /\ IdleTab.pc = "idle" /\ HandFits(IdleHand) /\ IdleHand.pc = "idle"
    /\ IdleTab \in TabRow /\ IdleHand \in HandRow
BY Numbers DEF TabFits, IdleTab, TabRow, HandFits, IdleHand, HandRow, PackStatus, Status

LEMMA AskHolds ==
    ASSUME PackInv, NEW q \in Tabs, NEW t, TabFits(t, resume), Asks(q, t),
           ~crossed => /\ t.pc = "upload" /\ t.was => MastersOf(resume) = {}
                       /\ t.pc = "delete" /\ t.was => MastersOf(resume) \subseteq {t.row}
    PROVE  PackInv'
<1>1. /\ tab' = [tab EXCEPT ![q] = t] /\ UNCHANGED <<kscene, resume, pack, info, parses, builds, hand>>
      /\ asked' = [asked EXCEPT !.requests = @ + 1]
  BY DEF Asks
<1>2. t \in TabRow
  BY DEF TabFits
<1>3. tab' \in [Tabs -> TabRow] /\ \A p \in Tabs : tab'[p] = IF p = q THEN t ELSE tab[p]
  BY <1>1, <1>2 DEF PackInv
<1>4. \A p \in Tabs : TabFits(tab'[p], resume)
  BY <1>3 DEF PackInv
<1>5. asked' \in [requests : Nat, packs : 0..MaxPacks] /\ asked'.packs = asked.packs
  BY <1>1 DEF PackInv
<1>6. ASSUME ~crossed' PROVE Alone(resume, tab')
  <2>1. ~crossed /\ \A p \in Tabs \ {q} : tab[p].pc = "idle"
    BY <1>6 DEF Asks
  <2>2. Alone(resume, tab)
    BY <2>1 DEF PackInv
  <2>3. \A p \in Tabs : tab'[p].pc # "idle" => p = q
    BY <1>3, <2>1
  <2>4. tab'[q] = t
    BY <1>3
  <2> QED
    BY <2>1, <2>2, <2>3, <2>4 DEF Alone
<1> QED
  BY <1>1, <1>3, <1>4, <1>5, <1>6 DEF PackInv

\* A request commits, or is refused, and is over.
LEMMA RequestEnds ==
    ASSUME PackInv, NEW q \in Tabs, tab[q].pc # "idle", TabEnds(q), UNCHANGED <<kscene, hand, crossed>>,
           info' \in {"empty", "typed", "filled"},
           RowsOk(resume'), Unused(resume') \subseteq Unused(resume),
           PacksOk(pack', asked'.packs), asked' \in [requests : Nat, packs : 0..MaxPacks],
           Alone(resume, tab) => \A r, n \in MastersOf(resume') : r = n,
           ParsesOk(resume', parses', hand), BuildsOk(pack', builds', hand)
    PROVE  PackInv'
<1>1. tab' \in [Tabs -> TabRow] /\ \A p \in Tabs : tab'[p] = IF p = q THEN IdleTab ELSE tab[p]
  BY IdleFits DEF PackInv, TabEnds
<1>2. \A p \in Tabs : TabFits(tab'[p], resume')
  <2>1. \A p \in Tabs : TabFits(tab[p], resume') /\ TabFits(IdleTab, resume')
    BY IdleFits DEF PackInv, TabFits
  <2> QED
    BY <1>1, <2>1
<1>3. ASSUME ~crossed PROVE Alone(resume', tab')
  <2>1. Alone(resume, tab)
    BY <1>3 DEF PackInv
  <2>2. \A p \in Tabs : tab'[p].pc = "idle"
    BY <1>1, <2>1, IdleFits DEF Alone
  <2> QED
    BY <2>1, <2>2 DEF Alone
<1> QED
  BY <1>1, <1>2, <1>3 DEF PackInv

LEMMA RequestFails ==
    ASSUME PackInv, NEW q \in Tabs, tab[q].pc # "idle", Fails(q), UNCHANGED <<kscene, hand, crossed>>
    PROVE  PackInv'
<1>1. TabEnds(q) /\ UNCHANGED <<resume, pack, info, parses, builds, asked>>
  BY DEF Fails
<1>2. Alone(resume, tab) => \A r, n \in MastersOf(resume) : r = n
  BY DEF Alone
<1> QED
  BY <1>1, <1>2, RequestEnds DEF PackInv

\* A worker makes no master.
LEMMA HandHolds ==
    ASSUME PackInv, NEW w \in Hands, NEW h, HandFits(h), hand' = [hand EXCEPT ![w] = h],
           UNCHANGED <<kscene, tab, asked, crossed>>, info' \in {"empty", "typed", "filled"},
           RowsOk(resume'), Unused(resume') \subseteq Unused(resume), MastersOf(resume') \subseteq MastersOf(resume),
           PacksOk(pack', asked.packs), ParsesOk(resume', parses', hand'), BuildsOk(pack', builds', hand')
    PROVE  PackInv'
<1>1. h \in HandRow
  BY DEF HandFits
<1>2. hand' \in [Hands -> HandRow] /\ \A v \in Hands : HandFits(hand'[v])
  BY <1>1 DEF PackInv
<1>3. \A p \in Tabs : TabFits(tab[p], resume')
  BY DEF PackInv, TabFits
<1>4. Alone(resume, tab) => Alone(resume', tab)
  BY DEF Alone
<1> QED
  BY <1>2, <1>3, <1>4 DEF PackInv

----------------------------------------------------------------------------
(* Requests begin *)

LEMMA UploadBegins == ASSUME PackInv, NEW q \in Tabs, Upload(q) PROVE PackInv'
<1> DEFINE none == Masters = {}
           t(status) == [IdleTab EXCEPT !.pc = "upload", !.version = LastVersion + 1, !.was = none, !.status = status]
<1>1. PICK status \in {"pending", "no_text", "unparsed"} : Asks(q, t(status))
  BY DEF Upload
<1>2. LastVersion + 1 \in Nat
  <2>1. LastVersion \in Nat
    BY LastVersionIs DEF PackInv
  <2> QED
    BY <2>1
<1>3. none \in BOOLEAN /\ (none => MastersOf(resume) = {})
  BY RowSets
<1> HIDE DEF none
<1>4. t(status).pc = "upload" /\ t(status).version = LastVersion + 1 /\ t(status).was = none
  BY DEF IdleTab
<1>5. t(status) \in TabRow
  BY <1>2, <1>3, IdleFits DEF IdleTab, TabRow, Status
<1>6. TabFits(t(status), resume)
  BY <1>4, <1>5, NextVersionFits DEF TabFits, PackInv
<1>7. t(status).was => MastersOf(resume) = {}
  BY <1>3, <1>4
<1> HIDE DEF t
<1> QED
  BY <1>1, <1>4, <1>6, <1>7, AskHolds

LEMMA MasterBegins == ASSUME PackInv, NEW q \in Tabs, SetMaster(q) PROVE PackInv'
<1>1. PICK r \in Kept : Asks(q, [IdleTab EXCEPT !.pc = "master", !.row = r, !.was = resume[r].master])
  BY DEF SetMaster
<1> DEFINE t == [IdleTab EXCEPT !.pc = "master", !.row = r, !.was = resume[r].master]
<1>2. r \in Rows \ Unused(resume) /\ r \in 0..MaxRows /\ resume[r].master \in BOOLEAN
  BY Numbers DEF Kept, Unused, PackInv, RowsOk, ResumeRow
<1>3. t \in TabRow /\ t.pc = "master" /\ t.row = r
  BY <1>2, IdleFits DEF IdleTab, TabRow
<1>4. TabFits(t, resume)
  BY <1>2, <1>3 DEF TabFits
<1> HIDE DEF t
<1> QED
  BY <1>1, <1>3, <1>4, AskHolds DEF t

LEMMA DeleteBegins == ASSUME PackInv, NEW q \in Tabs, Delete(q) PROVE PackInv'
<1>1. PICK r \in Kept : Asks(q, [IdleTab EXCEPT !.pc = "delete", !.row = r, !.was = resume[r].master])
  BY DEF Delete
<1> DEFINE t == [IdleTab EXCEPT !.pc = "delete", !.row = r, !.was = resume[r].master]
<1>2. r \in Rows \ Unused(resume) /\ r \in 0..MaxRows /\ resume[r].master \in BOOLEAN
  BY Numbers DEF Kept, Unused, PackInv, RowsOk, ResumeRow
<1>3. t \in TabRow /\ t.pc = "delete" /\ t.row = r /\ t.was = resume[r].master
  BY <1>2, IdleFits DEF IdleTab, TabRow
<1>4. TabFits(t, resume)
  BY <1>2, <1>3 DEF TabFits
<1>5. ~crossed /\ t.was => MastersOf(resume) \subseteq {t.row}
  <2> SUFFICES ASSUME ~crossed, resume[r].master PROVE MastersOf(resume) \subseteq {r}
    BY <1>3
  <2>1. r \in MastersOf(resume) /\ Alone(resume, tab)
    BY RowSets DEF MastersOf, KeptOf, PackInv
  <2> QED
    BY <2>1 DEF Alone
<1> HIDE DEF t
<1> QED
  BY <1>1, <1>3, <1>4, <1>5, AskHolds DEF t

LEMMA ReviewBegins == ASSUME PackInv, NEW q \in Tabs, Review(q) PROVE PackInv'
<1>1. PICK r \in Kept, c \in New :
         Asks(q, [IdleTab EXCEPT !.pc = "review", !.row = r, !.content = c,
                                 !.info = IF resume[r].master THEN Filled(info) ELSE "same"])
  BY DEF Review
<1>2. PICK i : i = IF resume[r].master THEN Filled(info) ELSE "same"
  OBVIOUS
<1> DEFINE t == [IdleTab EXCEPT !.pc = "review", !.row = r, !.content = c, !.info = i]
<1>3. r \in Rows \ Unused(resume) /\ r \in 0..MaxRows /\ i \in {"same", "filled"}
  BY <1>2, Numbers DEF Kept, Unused, Filled
<1>4. c \in Contents
  BY Numbers DEF PackInv, New, Contents, PackScene
<1>5. t \in TabRow /\ t.pc = "review" /\ t.row = r
  BY <1>3, <1>4, IdleFits DEF IdleTab, TabRow
<1>6. TabFits(t, resume)
  BY <1>3, <1>5 DEF TabFits
<1> HIDE DEF t
<1> QED
  BY <1>1, <1>2, <1>5, <1>6, AskHolds DEF t

LEMMA ReparseBegins == ASSUME PackInv, NEW q \in Tabs, Reparse(q) PROVE PackInv'
<1>1. PICK r \in Kept : Asks(q, [IdleTab EXCEPT !.pc = "reparse", !.row = r])
  BY DEF Reparse
<1> DEFINE t == [IdleTab EXCEPT !.pc = "reparse", !.row = r]
<1>2. r \in Rows \ Unused(resume) /\ r \in 0..MaxRows
  BY Numbers DEF Kept, Unused
<1>3. t \in TabRow /\ t.pc = "reparse" /\ t.row = r
  BY <1>2, IdleFits DEF IdleTab, TabRow
<1>4. TabFits(t, resume)
  BY <1>2, <1>3 DEF TabFits
<1> HIDE DEF t
<1> QED
  BY <1>1, <1>3, <1>4, AskHolds DEF t

LEMMA PrepareBegins == ASSUME PackInv, NEW q \in Tabs, Prepare(q) PROVE PackInv'
<1>1. PICK r \in Rows, j \in kscene.jobs, want \in {<<TRUE, TRUE>>, <<FALSE, TRUE>>, <<FALSE, FALSE>>} :
         /\ Usable(r)
         /\ Asks(q, [IdleTab EXCEPT !.pc = "prep", !.row = r, !.content = resume[r].content, !.job = j,
                                    !.pack = pack[j].id, !.resume = want[1], !.cover = want[2]])
  <2> DEFINE ways == {<<TRUE, TRUE>>} \cup (IF May("letter") THEN {<<FALSE, TRUE>>} ELSE {})
                        \cup (IF May("nothing") THEN {<<FALSE, FALSE>>} ELSE {})
             asks(r, j, want) ==
               Asks(q, [IdleTab EXCEPT !.pc = "prep", !.row = r, !.content = resume[r].content, !.job = j,
                                       !.pack = pack[j].id, !.resume = want[1], !.cover = want[2]])
  <2>1. \E r \in Rows, j \in kscene.jobs, want \in ways : Usable(r) /\ asks(r, j, want)
    BY Zenon DEF Prepare
  <2>2. ways \subseteq {<<TRUE, TRUE>>, <<FALSE, TRUE>>, <<FALSE, FALSE>>}
    <3> DEFINE letter == IF May("letter") THEN {<<FALSE, TRUE>>} ELSE {}
               none == IF May("nothing") THEN {<<FALSE, FALSE>>} ELSE {}
    <3>1. letter \subseteq {<<FALSE, TRUE>>}
      OBVIOUS
    <3>2. none \subseteq {<<FALSE, FALSE>>}
      OBVIOUS
    <3>3. ways = {<<TRUE, TRUE>>} \cup letter \cup none
      OBVIOUS
    <3> HIDE DEF ways, letter, none
    <3> QED
      BY <3>1, <3>2, <3>3
  <2> HIDE DEF ways
  <2>3. \E r \in Rows, j \in kscene.jobs, want \in {<<TRUE, TRUE>>, <<FALSE, TRUE>>, <<FALSE, FALSE>>} :
          Usable(r) /\ asks(r, j, want)
    <3> HIDE DEF asks
    <3> QED
      BY <2>1, <2>2
  <2> QED
    BY <2>3, Zenon
<1> DEFINE t == [IdleTab EXCEPT !.pc = "prep", !.row = r, !.content = resume[r].content, !.job = j,
                                !.pack = pack[j].id, !.resume = want[1], !.cover = want[2]]
<1>2. r \in Rows \ Unused(resume) /\ r \in 0..MaxRows /\ resume[r].content \in Contents
  BY <1>1, Numbers DEF Usable, Masters, Kept, Unused, PackInv, RowsOk, ResumeRow
<1>3. j \in PackJobs
  BY DEF PackInv, PackScene
<1>4. pack[j].id \in 0..MaxPacks /\ want[1] \in BOOLEAN /\ want[2] \in BOOLEAN
  <2>1. pack[j] \in PackRow
    BY <1>3 DEF PackInv, PacksOk
  <2>2. want[1] \in BOOLEAN /\ want[2] \in BOOLEAN
    <3>1. CASE want = <<TRUE, TRUE>>
      BY <3>1
    <3>2. CASE want = <<FALSE, TRUE>>
      BY <3>2
    <3>3. CASE want = <<FALSE, FALSE>>
      BY <3>3
    <3> QED
      BY <3>1, <3>2, <3>3
  <2>3. pack[j].id \in 0..MaxPacks
    BY <2>1 DEF PackRow
  <2> QED
    BY <2>2, <2>3
<1>5. t \in TabRow /\ t.pc = "prep" /\ t.row = r /\ t.job = j
  BY <1>2, <1>3, <1>4, IdleFits DEF IdleTab, TabRow
<1>6. TabFits(t, resume)
  BY <1>2, <1>3, <1>5 DEF TabFits
<1> HIDE DEF t
<1> QED
  BY <1>1, <1>5, <1>6, AskHolds DEF t

----------------------------------------------------------------------------
(* Requests commit *)

LEMMA UploadHolds == ASSUME PackInv, NEW q \in Tabs, UploadCommits(q) PROVE PackInv'
<1>1. tab[q].pc = "upload" /\ HasRoom /\ UNCHANGED <<kscene, hand, crossed>>
  BY DEF UploadCommits
<1>2. CASE \E r \in Kept : resume[r].version = tab[q].version
  BY <1>1, <1>2, RequestFails DEF UploadCommits
<1>3. CASE ~ \E r \in Kept : resume[r].version = tab[q].version
  <2> DEFINE x == [NoResume EXCEPT !.state = "kept", !.version = tab[q].version, !.master = tab[q].was,
                                   !.status = tab[q].status]
  <2>1. /\ resume' = [resume EXCEPT ![Fresh] = x] /\ TabEnds(q) /\ UNCHANGED <<pack, info, builds, asked>>
        /\ parses' = IF tab[q].status = "pending" THEN [parses EXCEPT ![Fresh] = 1] ELSE parses
    BY <1>1, <1>3 DEF UploadCommits
  <2>2. Fresh \in Unused(resume) /\ Fresh \in Rows /\ \A n \in Unused(resume) : Fresh <= n
    BY <1>1, FreshIs DEF Unused
  <2>3. TabFits(tab[q], resume) /\ tab[q] \in TabRow
    BY DEF PackInv, TabFits
  <2>4. tab[q].version <= Fresh /\ tab[q].version \in 0..MaxRows
    <3>1. tab[q].version <= Fresh /\ tab[q].version \in Nat
      BY <1>1, <2>2, <2>3 DEF TabFits, TabRow
    <3>2. Fresh \in Nat /\ Fresh <= MaxRows
      BY <2>2, Numbers
    <3> QED
      BY <3>1, <3>2, Numbers
  <2>5. x \in ResumeRow /\ x.state = "kept" /\ x.version = tab[q].version /\ x.master = tab[q].was
        /\ x.status = tab[q].status
    <3>1. tab[q].was \in BOOLEAN /\ tab[q].status \in Status
      BY <2>3 DEF TabRow
    <3>2. NoResume \in ResumeRow
      BY Numbers DEF NoResume, ResumeRow, Status
    <3>3. x \in ResumeRow
      BY <2>4, <3>1, <3>2 DEF ResumeRow
    <3> QED
      BY <3>3 DEF NoResume
  <2> HIDE DEF x
  <2>6. \A n \in KeptOf(resume) : resume[n].version # x.version
    BY <1>3, <2>5, RowSets
  <2>7. resume' \in [Rows -> ResumeRow] /\ resume'[Fresh] = x /\ \A n \in Rows \ {Fresh} : resume'[n] = resume[n]
    BY <2>1, <2>2, <2>5 DEF PackInv, RowsOk
  <2>75. /\ RowsOk(resume') /\ Unused(resume') = Unused(resume) \ {Fresh}
        /\ KeptOf(resume') = KeptOf(resume) \cup {Fresh}
    <3>1. RowsOk(resume)
      BY DEF PackInv
    <3>2. x.version <= Fresh /\ x.state = "kept"
      BY <2>4, <2>5
    <3> QED
      BY <2>2, <2>6, <2>7, <3>1, <3>2, AddedOk
  <2>8. /\ parses' \in [Rows -> 0..MaxQueued] /\ \A r \in Rows : r # Fresh => parses'[r] = parses[r]
        /\ tab[q].status = "pending" => parses'[Fresh] = 1
    <3>1. parses \in [Rows -> 0..MaxQueued] /\ 1 \in 0..MaxQueued
      BY Numbers DEF PackInv, ParsesOk
    <3> QED
      BY <2>1, <2>2, <3>1
  <2>9. ParsesOk(resume', parses', hand)
    <3> SUFFICES ASSUME NEW r \in Rows, resume'[r].status = "pending"
                 PROVE  parses'[r] > 0 \/ \E w \in Hands : hand[w].pc \in {"parse", "save"} /\ hand[w].row = r
      BY <2>8 DEF ParsesOk
    <3>1. CASE r = Fresh
      BY <2>5, <2>7, <2>8, <3>1
    <3>2. CASE r # Fresh
      <4>1. resume[r].status = "pending" /\ parses'[r] = parses[r]
        BY <2>7, <2>8, <3>2
      <4> QED
        BY <4>1 DEF PackInv, ParsesOk
    <3> QED
      BY <3>1, <3>2
  <2>10. Alone(resume, tab) => \A r, n \in MastersOf(resume') : r = n
    <3> SUFFICES ASSUME Alone(resume, tab), NEW r \in MastersOf(resume'), NEW n \in MastersOf(resume') PROVE r = n
      OBVIOUS
    <3>1. MastersOf(resume') \subseteq MastersOf(resume) \cup {Fresh} /\ (Fresh \in MastersOf(resume') => tab[q].was)
      BY <2>5, <2>7, <2>75 DEF MastersOf, KeptOf
    <3>2. tab[q].was => MastersOf(resume) = {}
      BY <1>1 DEF Alone
    <3> QED
      BY <3>1, <3>2 DEF Alone
  <2>11. PacksOk(pack', asked'.packs) /\ BuildsOk(pack', builds', hand) /\ info' \in {"empty", "typed", "filled"}
        /\ asked' \in [requests : Nat, packs : 0..MaxPacks]
    BY <2>1 DEF PackInv
  <2> QED
    BY <1>1, <2>1, <2>75, <2>9, <2>10, <2>11, RequestEnds
<1> QED
  BY <1>2, <1>3

LEMMA MasterHolds == ASSUME PackInv, NEW q \in Tabs, SetMasterCommits(q) PROVE PackInv'
<1>1. tab[q].pc = "master" /\ UNCHANGED <<kscene, hand, crossed>>
  BY DEF SetMasterCommits
<1>2. CASE tab[q].row \notin Kept /\ ~tab[q].was
  BY <1>1, <1>2, RequestFails DEF SetMasterCommits
<1>3. CASE ~(tab[q].row \notin Kept /\ ~tab[q].was)
  <2> DEFINE Be(r) == IF Chosen(q, r) THEN r \in Kept /\ (resume[r].master \/ ~tab[q].was) ELSE FALSE
  <2>1. /\ resume' = [r \in Rows |-> [resume[r] EXCEPT !.master = Be(r)]]
        /\ TabEnds(q) /\ UNCHANGED <<pack, info, parses, builds, asked>>
    BY <1>1, <1>3 DEF SetMasterCommits
  <2>2. \A r \in Rows : Be(r) \in BOOLEAN /\ (Be(r) => r = tab[q].row)
    BY DEF Chosen
  <2> HIDE DEF Be
  <2>3. RowsOk(resume)
    BY DEF PackInv
  <2>4. ASSUME NEW r \in Rows
        PROVE  /\ resume'[r] \in ResumeRow /\ resume'[r].master = Be(r) /\ resume'[r].state = resume[r].state
               /\ resume'[r].version = resume[r].version /\ resume'[r].status = resume[r].status
    <3>1. resume'[r] = [resume[r] EXCEPT !.master = Be(r)] /\ resume[r] \in ResumeRow /\ Be(r) \in BOOLEAN
      BY <2>1, <2>2, <2>3 DEF RowsOk
    <3> QED
      BY <3>1 DEF ResumeRow
  <2>5. resume' \in [Rows -> ResumeRow]
    BY <2>1, <2>4
  <2>6. RowsOk(resume') /\ Unused(resume') = Unused(resume) /\ KeptOf(resume') = KeptOf(resume)
    BY <2>3, <2>4, <2>5, EditedOk DEF RowsOk, KeptOf
  <2>7. MastersOf(resume') \subseteq {tab[q].row}
    BY <2>2, <2>4 DEF MastersOf, KeptOf
  <2>8. ParsesOk(resume', parses', hand)
    <3>1. parses \in [Rows -> 0..MaxQueued] /\ ParsesOk(resume, parses, hand)
      BY DEF PackInv, ParsesOk
    <3> QED
      BY <2>1, <2>4, <3>1 DEF ParsesOk
  <2>9. PacksOk(pack', asked'.packs) /\ BuildsOk(pack', builds', hand) /\ info' \in {"empty", "typed", "filled"}
        /\ asked' \in [requests : Nat, packs : 0..MaxPacks]
    BY <2>1 DEF PackInv
  <2> QED
    BY <1>1, <2>1, <2>6, <2>7, <2>8, <2>9, RequestEnds
<1> QED
  BY <1>2, <1>3

\* Packs go with their master.
LEMMA PacksWithoutOk ==
    ASSUME NEW m, PacksOk(pack, m), NEW lost, NEW new, new = PacksWithout(lost)
    PROVE  /\ PacksOk(new, m)
           /\ \A j \in PackJobs : new[j] = NoPack \/ (new[j].id = pack[j].id /\ new[j].status = pack[j].status)
<1>0. 0 \in 0..MaxRows /\ 0 \in 0..MaxPacks /\ 0 \in Contents
  BY Numbers
<1>1. NoPack \in PackRow /\ NoPack.id = 0 /\ NoPack.status = "none"
  BY <1>0 DEF NoPack, PackRow, PackStatus
<1>2. ASSUME NEW j \in PackJobs
      PROVE  /\ new[j] \in PackRow
             /\ \/ new[j] = NoPack
                \/ /\ new[j].id = pack[j].id /\ new[j].status = pack[j].status
                   /\ new[j].master = pack[j].master
  <2>1. pack[j] \in PackRow
    BY DEF PacksOk
  <2>2. CASE pack[j].master \in lost
    BY <1>1, <2>2 DEF PacksWithout
  <2>3. CASE pack[j].master \notin lost
    <3>1. PICK c \in 0..MaxRows : c = IF pack[j].tailored \in lost THEN 0 ELSE pack[j].tailored
      BY <1>0, <2>1 DEF PackRow
    <3>2. new[j] = [pack[j] EXCEPT !.tailored = c]
      BY <2>3, <3>1 DEF PacksWithout
    <3> QED
      BY <2>1, <3>2 DEF PackRow
  <2> QED
    BY <2>2, <2>3
<1>3. new \in [PackJobs -> PackRow]
  BY <1>2 DEF PacksWithout
<1> HIDE DEF NoPack
<1>4. ASSUME NEW j \in PackJobs
      PROVE  /\ new[j].id # 0 => new[j].id <= m /\ new[j].master \in Rows
             /\ new[j].status = "pending" => new[j].id # 0
  BY <1>1, <1>2 DEF PacksOk
<1>5. ASSUME NEW j \in PackJobs, NEW k \in PackJobs, new[j].id = new[k].id PROVE j = k \/ new[j].id = 0
  BY <1>1, <1>2, <1>5 DEF PacksOk
<1> QED
  BY <1>2, <1>3, <1>4, <1>5 DEF PacksOk

LEMMA BuildsStay ==
    ASSUME NEW packs, NEW new, NEW tasks, NEW hands, BuildsOk(packs, tasks, hands),
           \A j \in PackJobs : new[j].status = "pending" => packs[j].status = "pending" /\ new[j].id = packs[j].id
    PROVE  BuildsOk(new, tasks, hands)
BY DEF BuildsOk

\* The newest upload is one, as no two rows have the same version.
LEMMA OneNewest == ASSUME NEW rows, RowsOk(rows), NEW r \in Newest(rows), NEW n \in Newest(rows) PROVE r = n
<1>1. r \in KeptOf(rows) /\ n \in KeptOf(rows) /\ rows[n].version <= rows[r].version /\ rows[r].version <= rows[n].version
  BY DEF Newest, KeptOf
<1>2. rows[n].version \in Nat /\ rows[r].version \in Nat
  BY <1>1, Numbers DEF RowsOk, ResumeRow, KeptOf
<1>3. rows[r].version = rows[n].version
  BY <1>1, <1>2
<1> QED
  BY <1>1, <1>3 DEF RowsOk

LEMMA PromotedOk ==
    ASSUME NEW rows, RowsOk(rows), NEW was \in BOOLEAN, NEW new, new = Promoted(rows, was)
    PROVE  /\ RowsOk(new) /\ Unused(new) = Unused(rows) /\ KeptOf(new) = KeptOf(rows)
           /\ \A r \in Rows : new[r].status = rows[r].status
           /\ MastersOf(new) \subseteq MastersOf(rows) \cup (IF was THEN Newest(rows) ELSE {})
<1>1. ASSUME NEW r \in Rows
      PROVE  /\ new[r] \in ResumeRow /\ new[r].state = rows[r].state /\ new[r].version = rows[r].version
             /\ new[r].status = rows[r].status
             /\ \/ was /\ r \in Newest(rows)
                \/ new[r].master = rows[r].master
  <2>1. rows[r] \in ResumeRow
    BY DEF RowsOk
  <2>2. CASE was /\ r \in Newest(rows)
    <3>1. new[r] = [rows[r] EXCEPT !.master = TRUE]
      BY <2>2 DEF Promoted
    <3> QED
      BY <2>1, <2>2, <3>1 DEF ResumeRow
  <2>3. CASE ~(was /\ r \in Newest(rows))
    BY <2>1, <2>3 DEF Promoted
  <2> QED
    BY <2>2, <2>3
<1>2. new \in [Rows -> ResumeRow]
  BY <1>1 DEF Promoted
<1>3. \A r \in Rows \ KeptOf(rows) : new[r].status = "none"
  BY <1>1 DEF RowsOk, KeptOf
<1>4. RowsOk(new) /\ Unused(new) = Unused(rows) /\ KeptOf(new) = KeptOf(rows)
  BY <1>1, <1>2, <1>3, EditedOk
<1> QED
  BY <1>1, <1>4 DEF MastersOf, KeptOf

LEMMA ResumeDeletes == ASSUME PackInv, NEW q \in Tabs, DeleteCommits(q) PROVE PackInv'
<1> DEFINE lost == Derived(tab[q].row)
           left == RowsWithout(resume, lost)
<1>1. /\ tab[q].pc = "delete" /\ UNCHANGED <<kscene, info, parses, builds, hand, asked, crossed>> /\ TabEnds(q)
      /\ resume' = Promoted(left, tab[q].was) /\ pack' = PacksWithout(lost)
  BY DEF DeleteCommits
<1>2. tab[q].row \in Rows \ Unused(resume) /\ tab[q].was \in BOOLEAN
  BY <1>1 DEF PackInv, TabFits, TabRow
<1>3. lost \in SUBSET Rows /\ lost \cap Unused(resume) = {} /\ tab[q].row \in lost
  BY <1>2 DEF Derived, Kept, Unused
<1> HIDE DEF lost
<1>4. RowsOk(resume) /\ PacksOk(pack, asked.packs)
  BY DEF PackInv
<1>5. /\ RowsOk(left) /\ Unused(left) = Unused(resume) /\ KeptOf(left) = KeptOf(resume) \ lost
      /\ \A r \in Rows \ lost : left[r].status = resume[r].status /\ left[r].master = resume[r].master
      /\ \A r \in lost : left[r] = Gone
  BY <1>3, <1>4, WithoutOk
<1> HIDE DEF left
<1>6. /\ RowsOk(resume') /\ Unused(resume') = Unused(left)
      /\ \A r \in Rows : resume'[r].status = left[r].status
      /\ MastersOf(resume') \subseteq MastersOf(left) \cup (IF tab[q].was THEN Newest(left) ELSE {})
  BY <1>1, <1>2, <1>5, PromotedOk
<1>7. Alone(resume, tab) => \A r, n \in MastersOf(resume') : r = n
  <2> SUFFICES ASSUME Alone(resume, tab), NEW r \in MastersOf(resume'), NEW n \in MastersOf(resume') PROVE r = n
    OBVIOUS
  <2>1. MastersOf(left) \subseteq MastersOf(resume) \ lost
    BY <1>5 DEF MastersOf, KeptOf
  <2>2. CASE tab[q].was
    <3>1. MastersOf(left) = {}
      BY <1>1, <1>3, <2>1, <2>2 DEF Alone
    <3> QED
      BY <1>5, <1>6, <2>2, <3>1, OneNewest
  <2>3. CASE ~tab[q].was
    BY <1>6, <2>1, <2>3 DEF Alone
  <2> QED
    BY <2>2, <2>3
<1>8. ParsesOk(resume', parses', hand)
  <2>1. \A r \in Rows : resume'[r].status = "pending" => resume[r].status = "pending"
    <3>1. Gone.status = "none"
      BY DEF Gone, NoResume
    <3> QED
      BY <1>5, <1>6, <3>1
  <2> QED
    BY <1>1, <2>1 DEF PackInv, ParsesOk
<1>9. PacksOk(pack', asked'.packs) /\ BuildsOk(pack', builds', hand)
  <2>1. /\ PacksOk(pack', asked.packs)
        /\ \A j \in PackJobs : pack'[j] = NoPack \/ (pack'[j].id = pack[j].id /\ pack'[j].status = pack[j].status)
    BY <1>1, <1>4, PacksWithoutOk
  <2>2. \A j \in PackJobs : pack'[j].status = "pending" => pack[j].status = "pending" /\ pack'[j].id = pack[j].id
    BY <2>1 DEF NoPack
  <2>3. BuildsOk(pack, builds, hand)
    BY DEF PackInv
  <2>4. BuildsOk(pack', builds, hand)
    BY <2>2, <2>3, BuildsStay
  <2> QED
    BY <1>1, <2>1, <2>4
<1>10. info' \in {"empty", "typed", "filled"} /\ asked' \in [requests : Nat, packs : 0..MaxPacks]
  BY <1>1 DEF PackInv
<1> QED
  BY <1>1, <1>5, <1>6, <1>7, <1>8, <1>9, <1>10, RequestEnds

\* One row that is there is written, and stays where it is.
LEMMA ResumeWritten ==
    ASSUME NEW rows, RowsOk(rows), NEW r, r \in KeptOf(rows), NEW new, new \in [Rows -> ResumeRow],
           \A n \in Rows \ {r} : new[n] = rows[n],
           new[r].state = rows[r].state, new[r].version = rows[r].version, new[r].master = rows[r].master
    PROVE  RowsOk(new) /\ Unused(new) = Unused(rows) /\ KeptOf(new) = KeptOf(rows) /\ MastersOf(new) = MastersOf(rows)
<1>1. \A n \in Rows : new[n].state = rows[n].state /\ new[n].version = rows[n].version /\ new[n].master = rows[n].master
  OBVIOUS
<1>2. \A n \in Rows \ KeptOf(rows) : new[n].status = "none"
  BY DEF RowsOk, KeptOf
<1>3. RowsOk(new) /\ Unused(new) = Unused(rows) /\ KeptOf(new) = KeptOf(rows)
  BY <1>1, <1>2, EditedOk
<1> QED
  BY <1>1, <1>3 DEF MastersOf, KeptOf

LEMMA ReviewHolds == ASSUME PackInv, NEW q \in Tabs, ReviewCommits(q) PROVE PackInv'
<1>1. tab[q].pc = "review" /\ UNCHANGED <<kscene, hand, crossed>>
  BY DEF ReviewCommits
<1>2. CASE tab[q].row \notin Kept
  BY <1>1, <1>2, RequestFails DEF ReviewCommits
<1>3. CASE tab[q].row \in Kept
  <2>1. PICK r, c : r = tab[q].row /\ c = tab[q].content
    OBVIOUS
  <2>2. /\ resume' = [resume EXCEPT ![r].content = c, ![r].status = "reviewed"] /\ TabEnds(q)
        /\ info' = IF tab[q].info = "same" THEN info ELSE tab[q].info
        /\ UNCHANGED <<pack, parses, builds, asked>>
    BY <1>1, <1>3, <2>1 DEF ReviewCommits
  <2>3. r \in KeptOf(resume) /\ r \in Rows /\ c \in Contents /\ tab[q].info \in {"same", "filled"}
    BY <1>3, <2>1 DEF Kept, KeptOf, PackInv, TabRow
  <2>4. RowsOk(resume) /\ resume \in [Rows -> ResumeRow]
    BY DEF PackInv, RowsOk
  <2>5. /\ resume' \in [Rows -> ResumeRow] /\ \A n \in Rows \ {r} : resume'[n] = resume[n]
        /\ resume'[r].state = resume[r].state /\ resume'[r].version = resume[r].version
        /\ resume'[r].master = resume[r].master /\ resume'[r].status = "reviewed"
    BY <2>2, <2>3, <2>4 DEF ResumeRow, Status
  <2>6. /\ RowsOk(resume') /\ Unused(resume') = Unused(resume) /\ MastersOf(resume') = MastersOf(resume)
    BY <2>3, <2>4, <2>5, ResumeWritten
  <2>7. Alone(resume, tab) => \A k, n \in MastersOf(resume') : k = n
    BY <2>6 DEF Alone
  <2>8. ParsesOk(resume', parses', hand)
    BY <2>2, <2>5 DEF PackInv, ParsesOk
  <2>9. info' \in {"empty", "typed", "filled"}
    BY <2>2, <2>3 DEF PackInv
  <2>10. PacksOk(pack', asked'.packs) /\ BuildsOk(pack', builds', hand)
         /\ asked' \in [requests : Nat, packs : 0..MaxPacks]
    BY <2>2 DEF PackInv
  <2> QED
    BY <1>1, <2>2, <2>6, <2>7, <2>8, <2>9, <2>10, RequestEnds
<1> QED
  BY <1>2, <1>3

LEMMA ReparseHolds == ASSUME PackInv, NEW q \in Tabs, ReparseCommits(q) PROVE PackInv'
<1>1. tab[q].pc = "reparse" /\ UNCHANGED <<kscene, hand, crossed>>
  BY DEF ReparseCommits
<1>2. PICK r : r = tab[q].row
  OBVIOUS
<1>3. CASE r \notin Kept \/ parses[r] >= MaxQueued
  BY <1>1, <1>2, <1>3, RequestFails DEF ReparseCommits
<1>4. CASE ~(r \notin Kept \/ parses[r] >= MaxQueued)
  <2>1. /\ resume' = [resume EXCEPT ![r].status = "pending"] /\ parses' = [parses EXCEPT ![r] = @ + 1]
        /\ TabEnds(q) /\ UNCHANGED <<pack, info, builds, asked>>
    BY <1>1, <1>2, <1>4 DEF ReparseCommits
  <2>2. r \in KeptOf(resume) /\ r \in Rows
    BY <1>4 DEF Kept, KeptOf
  <2>3. RowsOk(resume) /\ resume \in [Rows -> ResumeRow] /\ parses \in [Rows -> 0..MaxQueued]
    BY DEF PackInv, RowsOk, ParsesOk
  <2>4. /\ resume' \in [Rows -> ResumeRow] /\ \A n \in Rows \ {r} : resume'[n] = resume[n]
        /\ resume'[r].state = resume[r].state /\ resume'[r].version = resume[r].version
        /\ resume'[r].master = resume[r].master
    BY <2>1, <2>2, <2>3 DEF ResumeRow, Status
  <2>5. /\ RowsOk(resume') /\ Unused(resume') = Unused(resume) /\ MastersOf(resume') = MastersOf(resume)
    BY <2>2, <2>3, <2>4, ResumeWritten
  <2>6. Alone(resume, tab) => \A k, n \in MastersOf(resume') : k = n
    BY <2>5 DEF Alone
  <2>7. parses[r] + 1 \in 0..MaxQueued /\ parses[r] + 1 > 0
    <3>1. parses[r] \in 0..MaxQueued /\ ~(parses[r] >= MaxQueued)
      BY <1>4, <2>2, <2>3
    <3> QED
      BY <3>1, Numbers
  <2>8. /\ parses' \in [Rows -> 0..MaxQueued] /\ parses'[r] > 0
        /\ \A n \in Rows \ {r} : parses'[n] = parses[n]
    BY <2>1, <2>2, <2>3, <2>7
  <2>9. ParsesOk(resume', parses', hand)
    BY <2>4, <2>8 DEF PackInv, ParsesOk
  <2>10. PacksOk(pack', asked'.packs) /\ BuildsOk(pack', builds', hand) /\ info' \in {"empty", "typed", "filled"}
         /\ asked' \in [requests : Nat, packs : 0..MaxPacks]
    BY <2>1 DEF PackInv
  <2> QED
    BY <1>1, <2>1, <2>5, <2>6, <2>9, <2>10, RequestEnds
<1> QED
  BY <1>3, <1>4

LEMMA ProfileHolds == ASSUME PackInv, NEW q \in Tabs, SaveProfile(q) PROVE PackInv'
<1>1. /\ info' \in {"typed", "empty"} /\ asked' = [asked EXCEPT !.requests = @ + 1]
      /\ UNCHANGED <<kscene, resume, pack, parses, builds, tab, hand, crossed>>
  BY DEF SaveProfile
<1>2. asked' \in [requests : Nat, packs : 0..MaxPacks] /\ asked'.packs = asked.packs
  BY <1>1 DEF PackInv
<1> QED
  BY <1>1, <1>2 DEF PackInv

LEMMA PrepareHolds == ASSUME PackInv, NEW q \in Tabs, PrepareCommits(q) PROVE PackInv'
<1>1. tab[q].pc = "prep" /\ UNCHANGED <<kscene, hand, crossed>>
  BY DEF PrepareCommits
<1>2. CASE Refused(tab[q])
  BY <1>1, <1>2, RequestFails DEF PrepareCommits
<1>3. CASE ~Refused(tab[q])
  <2>1. PICK j, i : /\ j = tab[q].job
                    /\ i = IF tab[q].pack = 0 THEN asked.packs + 1 ELSE tab[q].pack
    OBVIOUS
  <2> DEFINE x == [Requested(pack[j], tab[q]) EXCEPT !.id = i]
  <2>2. /\ i <= MaxPacks /\ builds[i] < MaxQueued /\ pack' = [pack EXCEPT ![j] = x]
        /\ builds' = [builds EXCEPT ![i] = @ + 1] /\ asked' = [asked EXCEPT !.packs = IF tab[q].pack = 0 THEN i ELSE @]
        /\ TabEnds(q) /\ UNCHANGED <<resume, info, parses>>
    BY <1>1, <1>3, <2>1 DEF PrepareCommits
  <2>3. /\ PacksOk(pack, asked.packs) /\ asked \in [requests : Nat, packs : 0..MaxPacks]
        /\ builds \in [1..MaxPacks -> 0..MaxQueued] /\ TabFits(tab[q], resume)
    BY DEF PackInv, BuildsOk, BuildTasks
  <2>4. tab[q].pack = pack[j].id /\ tab[q].row \in Rows /\ j \in PackJobs
    BY <1>1, <1>3, <2>1, <2>3 DEF Refused, Kept, TabFits
  <2>5. pack[j] \in PackRow /\ pack[j].id \in 0..MaxPacks
    BY <2>3, <2>4 DEF PacksOk, PackRow
  <2>6. i \in 1..MaxPacks
    BY <2>1, <2>2, <2>3, <2>4, <2>5, Numbers
  <2>7. x \in PackRow /\ x.id = i /\ x.master = tab[q].row
    <3>1. /\ tab[q].row \in 0..MaxRows /\ tab[q].content \in Contents /\ tab[q].resume \in BOOLEAN
          /\ tab[q].cover \in BOOLEAN /\ i \in 0..MaxPacks
      BY <2>3, <2>6, Numbers DEF TabFits, TabRow
    <3> QED
      BY <2>5, <3>1 DEF Requested, PackRow, PackStatus
  <2> HIDE DEF x
  <2>8. pack' \in [PackJobs -> PackRow] /\ pack'[j] = x /\ \A k \in PackJobs \ {j} : pack'[k] = pack[k]
    BY <2>2, <2>3, <2>4, <2>7 DEF PacksOk
  <2>9. /\ asked' \in [requests : Nat, packs : 0..MaxPacks] /\ asked'.packs >= asked.packs /\ i <= asked'.packs
        /\ tab[q].pack = 0 => i = asked.packs + 1
    <3>1. asked.packs \in Nat /\ i \in Nat /\ i \in 0..MaxPacks
      BY <2>3, <2>6
    <3>2. CASE tab[q].pack = 0
      BY <2>1, <2>2, <2>3, <3>1, <3>2
    <3>3. CASE tab[q].pack # 0
      <4>1. asked' = asked /\ i = pack[j].id /\ i # 0
        BY <2>1, <2>2, <2>3, <2>4, <3>3
      <4>2. i <= asked.packs
        BY <2>3, <2>4, <4>1 DEF PacksOk
      <4> QED
        BY <2>3, <3>1, <3>3, <4>1, <4>2
    <3> QED
      BY <3>2, <3>3
  <2>10. \A k \in PackJobs \ {j} : pack[k].id # i
    <3> SUFFICES ASSUME NEW k \in PackJobs \ {j}, pack[k].id = i PROVE FALSE
      OBVIOUS
    <3>1. i # 0 /\ pack[k].id <= asked.packs /\ asked.packs \in Nat
      BY <2>3, <2>6 DEF PacksOk
    <3>2. tab[q].pack # 0
      BY <2>9, <3>1
    <3>3. pack[j].id = i
      BY <2>1, <2>4, <3>2
    <3> QED
      BY <2>3, <2>4, <3>1, <3>3 DEF PacksOk
  <2>11. PacksOk(pack', asked'.packs)
    <3>1. ASSUME NEW k \in PackJobs
          PROVE  /\ pack'[k].id # 0 => pack'[k].id <= asked'.packs /\ pack'[k].master \in Rows
                 /\ pack'[k].status = "pending" => pack'[k].id # 0
      <4>1. CASE k = j
        BY <2>4, <2>6, <2>7, <2>8, <2>9, <4>1
      <4>2. CASE k # j
        <5>1. pack'[k] = pack[k] /\ pack[k].id \in Nat
          BY <2>3, <2>8, <4>2 DEF PacksOk, PackRow
        <5>2. asked.packs \in Nat /\ asked'.packs \in Nat
          BY <2>3, <2>9
        <5>3. pack[k].id # 0 => pack[k].id <= asked.packs
          BY <2>3 DEF PacksOk
        <5>4. pack[k].id # 0 => pack[k].id <= asked'.packs
          BY <2>9, <5>1, <5>2, <5>3
        <5> QED
          BY <2>3, <5>1, <5>4 DEF PacksOk
      <4> QED
        BY <4>1, <4>2
    <3>2. ASSUME NEW k \in PackJobs, NEW n \in PackJobs, pack'[k].id = pack'[n].id PROVE k = n \/ pack'[k].id = 0
      BY <2>3, <2>7, <2>8, <2>10, <3>2 DEF PacksOk
    <3>3. asked'.packs \in 0..MaxPacks
      BY <2>9
    <3> QED
      BY <2>8, <3>1, <3>2, <3>3 DEF PacksOk
  <2>12. /\ builds' \in [1..MaxPacks -> 0..MaxQueued] /\ builds'[i] > 0
         /\ \A n \in 1..MaxPacks \ {i} : builds'[n] = builds[n]
    <3>1. builds[i] \in 0..MaxQueued /\ builds[i] < MaxQueued
      BY <2>2, <2>3, <2>6
    <3>2. builds[i] + 1 \in 0..MaxQueued /\ builds[i] + 1 > 0
      BY <3>1, Numbers
    <3> QED
      BY <2>2, <2>3, <2>6, <3>2
  <2>13. BuildsOk(pack', builds', hand)
    <3> SUFFICES ASSUME NEW k \in PackJobs, pack'[k].status = "pending"
                 PROVE  \/ builds'[pack'[k].id] > 0
                        \/ \E w \in Hands : /\ hand[w].pc = "build" /\ hand[w].pack = pack'[k].id
                                            /\ hand[w].status = "pending"
      BY <2>12 DEF BuildsOk, BuildTasks
    <3>1. CASE k = j
      BY <2>7, <2>8, <2>12, <3>1
    <3>2. CASE k # j
      <4>1. pack'[k] = pack[k] /\ pack[k].id \in 1..MaxPacks /\ pack[k].id # i
        BY <2>3, <2>8, <2>10, <3>2, Numbers DEF PacksOk, PackRow
      <4> QED
        BY <2>12, <4>1 DEF PackInv, BuildsOk, BuildTasks
    <3> QED
      BY <3>1, <3>2
  <2>14. /\ RowsOk(resume') /\ Unused(resume') = Unused(resume) /\ ParsesOk(resume', parses', hand)
         /\ info' \in {"empty", "typed", "filled"}
         /\ Alone(resume, tab) => \A k, n \in MastersOf(resume') : k = n
    BY <2>2 DEF PackInv, Alone
  <2>15. asked' \in [requests : Nat, packs : 0..MaxPacks]
    BY <2>9
  <2> QED
    BY <1>1, <2>2, <2>11, <2>13, <2>14, <2>15, RequestEnds
<1> QED
  BY <1>2, <1>3

----------------------------------------------------------------------------
(* Workers *)

\* A worker goes on to h: no task of a row or of a pack is lost with what it
\* did before.
LEMMA ParsesPass ==
    ASSUME NEW rows, NEW new, NEW tasks, NEW hands, ParsesOk(rows, tasks, hands), NEW w \in Hands,
           NEW more, \A v \in Hands \ {w} : more[v] = hands[v],
           \A r \in Rows : new[r].status = "pending" =>
               /\ rows[r].status = "pending"
               /\ hands[w].pc \in {"parse", "save"} /\ hands[w].row = r => more[w].pc \in {"parse", "save"} /\ more[w].row = r
    PROVE  ParsesOk(new, tasks, more)
<1> SUFFICES ASSUME NEW r \in Rows, new[r].status = "pending"
             PROVE  tasks[r] > 0 \/ \E v \in Hands : more[v].pc \in {"parse", "save"} /\ more[v].row = r
  BY DEF ParsesOk
<1>1. tasks[r] > 0 \/ \E v \in Hands : hands[v].pc \in {"parse", "save"} /\ hands[v].row = r
  BY DEF ParsesOk
<1>2. ASSUME NEW v \in Hands, hands[v].pc \in {"parse", "save"}, hands[v].row = r
      PROVE  more[v].pc \in {"parse", "save"} /\ more[v].row = r
  <2>1. CASE v = w
    BY <1>2, <2>1
  <2>2. CASE v # w
    BY <1>2, <2>2
  <2> QED
    BY <2>1, <2>2
<1> QED
  BY <1>1, <1>2

LEMMA BuildsPass ==
    ASSUME NEW packs, NEW new, NEW tasks, NEW hands, BuildsOk(packs, tasks, hands), NEW w \in Hands,
           NEW more, \A v \in Hands \ {w} : more[v] = hands[v],
           \A j \in PackJobs : new[j].status = "pending" =>
               /\ packs[j].status = "pending" /\ new[j].id = packs[j].id
               /\ hands[w].pc = "build" /\ hands[w].pack = packs[j].id => hands[w].status # "pending"
    PROVE  BuildsOk(new, tasks, more)
<1> SUFFICES ASSUME NEW j \in PackJobs, new[j].status = "pending"
             PROVE  \/ tasks[new[j].id] > 0
                    \/ \E v \in Hands : more[v].pc = "build" /\ more[v].pack = new[j].id /\ more[v].status = "pending"
  BY DEF BuildsOk
<1>1. \/ tasks[new[j].id] > 0
      \/ \E v \in Hands : hands[v].pc = "build" /\ hands[v].pack = new[j].id /\ hands[v].status = "pending"
  BY DEF BuildsOk
<1>2. ASSUME NEW v \in Hands, hands[v].pc = "build", hands[v].pack = new[j].id, hands[v].status = "pending"
      PROVE  more[v] = hands[v]
  <2>1. v # w
    BY <1>2
  <2> QED
    BY <2>1
<1> QED
  BY <1>1, <1>2

LEMMA TakeParseHolds == ASSUME PackInv, NEW w \in Hands, TakeParse(w) PROVE PackInv'
<1>1. PICK r \in Rows : /\ parses[r] > 0 /\ parses' = [parses EXCEPT ![r] = @ - 1]
                        /\ hand' = IF r \in Kept THEN [hand EXCEPT ![w] = [IdleHand EXCEPT !.pc = "parse", !.row = r]]
                                   ELSE hand
  BY DEF TakeParse
<1>2. hand[w].pc = "idle" /\ UNCHANGED <<kscene, resume, pack, info, builds, tab, asked, crossed>>
  BY DEF TakeParse
<1>3. PICK h : h = IF r \in Kept THEN [IdleHand EXCEPT !.pc = "parse", !.row = r] ELSE hand[w]
  OBVIOUS
<1>4. hand \in [Hands -> HandRow] /\ HandFits(hand[w]) /\ parses \in [Rows -> 0..MaxQueued] /\ RowsOk(resume)
  BY DEF PackInv, ParsesOk
<1>5. HandFits(h) /\ h.pc # "build" /\ (r \in Kept => h.pc = "parse" /\ h.row = r)
  <2>1. CASE r \in Kept
    <3>1. h = [IdleHand EXCEPT !.pc = "parse", !.row = r] /\ r \in 0..MaxRows
      BY <1>3, <2>1, Numbers
    <3>2. h \in HandRow /\ h.pc = "parse" /\ h.row = r
      BY <3>1, IdleFits DEF IdleHand, HandRow
    <3> QED
      BY <3>2 DEF HandFits
  <2>2. CASE r \notin Kept
    BY <1>2, <1>3, <1>4, <2>2
  <2> QED
    BY <2>1, <2>2
<1>6. hand' = [hand EXCEPT ![w] = h] /\ hand'[w] = h /\ \A v \in Hands \ {w} : hand'[v] = hand[v]
  <2>1. hand' = [hand EXCEPT ![w] = h]
    BY <1>1, <1>3, <1>4
  <2> QED
    BY <1>4, <2>1
<1>7. parses' \in [Rows -> 0..MaxQueued] /\ \A n \in Rows \ {r} : parses'[n] = parses[n]
  <2>1. parses[r] \in 0..MaxQueued /\ parses[r] > 0
    BY <1>1, <1>4
  <2>2. parses[r] - 1 \in 0..MaxQueued
    BY <2>1, Numbers
  <2> QED
    BY <1>1, <1>4, <2>2
<1>8. ParsesOk(resume, parses', hand')
  <2> SUFFICES ASSUME NEW n \in Rows, resume[n].status = "pending"
               PROVE  parses'[n] > 0 \/ \E v \in Hands : hand'[v].pc \in {"parse", "save"} /\ hand'[v].row = n
    BY <1>7 DEF ParsesOk
  <2>1. n \in Kept
    BY <1>4 DEF RowsOk, Kept
  <2>2. CASE n = r
    BY <1>5, <1>6, <2>1, <2>2
  <2>3. CASE n # r
    <3>1. parses[n] > 0 \/ \E v \in Hands : hand[v].pc \in {"parse", "save"} /\ hand[v].row = n
      BY DEF PackInv, ParsesOk
    <3>2. \A v \in Hands : hand[v].pc \in {"parse", "save"} => hand'[v] = hand[v]
      BY <1>2, <1>6
    <3> QED
      BY <1>7, <2>3, <3>1, <3>2
  <2> QED
    BY <2>2, <2>3
<1>9. BuildsOk(pack, builds, hand')
  <2>1. BuildsOk(pack, builds, hand)
    BY DEF PackInv
  <2>2. hand[w].pc # "build" /\ \A v \in Hands \ {w} : hand'[v] = hand[v]
    BY <1>2, <1>6
  <2> QED
    BY <2>1, <2>2, BuildsPass
<1> QED
  BY <1>2, <1>4, <1>5, <1>6, <1>8, <1>9, HandHolds DEF PackInv

LEMMA ModelReadHolds == ASSUME PackInv, NEW w \in Hands, ModelRead(w) PROVE PackInv'
<1>1. hand[w].pc = "parse" /\ UNCHANGED <<kscene, resume, pack, info, parses, builds, tab, asked, crossed>>
  BY DEF ModelRead
<1>2. hand \in [Hands -> HandRow] /\ HandFits(hand[w]) /\ RowsOk(resume)
  BY DEF PackInv
<1>3. PICK h : /\ hand' = [hand EXCEPT ![w] = h] /\ HandFits(h) /\ h.pc # "build"
               /\ hand[w].row \in Kept => h.pc = "save" /\ h.row = hand[w].row
  <2>1. CASE hand[w].row \notin Kept
    <3>1. hand' = [hand EXCEPT ![w] = IdleHand]
      BY <2>1 DEF ModelRead, Frees
    <3> QED
      BY <2>1, <3>1, IdleFits
  <2>2. CASE hand[w].row \in Kept
    <3>1. PICK c \in New : hand' = [hand EXCEPT ![w].pc = "save", ![w].content = c,
                                ![w].info = IF resume[hand[w].row].master THEN Filled(info) ELSE "same"]
      BY <2>2 DEF ModelRead
    <3>2. PICK i : i = IF resume[hand[w].row].master THEN Filled(info) ELSE "same"
      OBVIOUS
    <3> DEFINE h == [hand[w] EXCEPT !.pc = "save", !.content = c, !.info = i]
    <3>3. c \in Contents /\ i \in {"same", "filled"}
      BY <3>2, Numbers DEF PackInv, New, Contents, PackScene, Filled
    <3>4. h \in HandRow /\ h.pc = "save" /\ h.row = hand[w].row /\ hand[w].row \in Rows
      BY <1>1, <1>2, <3>3 DEF HandRow, HandFits
    <3>5. hand' = [hand EXCEPT ![w] = h]
      BY <1>2, <3>1, <3>2
    <3> HIDE DEF h
    <3>6. HandFits(h)
      BY <3>4 DEF HandFits
    <3> QED
      BY <3>4, <3>5, <3>6
  <2> QED
    BY <2>1, <2>2
<1>4. hand'[w] = h /\ \A v \in Hands \ {w} : hand'[v] = hand[v]
  BY <1>2, <1>3
<1>5. ParsesOk(resume, parses, hand')
  <2>1. \A r \in Rows : resume[r].status = "pending" =>
           (hand[w].pc \in {"parse", "save"} /\ hand[w].row = r
                => hand'[w].pc \in {"parse", "save"} /\ hand'[w].row = r)
    BY <1>2, <1>3, <1>4 DEF RowsOk, Kept
  <2>2. ParsesOk(resume, parses, hand)
    BY DEF PackInv
  <2> QED
    BY <1>4, <2>1, <2>2, ParsesPass
<1>6. BuildsOk(pack, builds, hand')
  <2>1. BuildsOk(pack, builds, hand) /\ hand[w].pc # "build"
    BY <1>1 DEF PackInv
  <2> QED
    BY <1>4, <2>1, BuildsPass
<1> QED
  BY <1>1, <1>3, <1>5, <1>6, HandHolds DEF PackInv

\* A task of a row ends: the row is no longer pending.
LEMMA RowDone ==
    ASSUME PackInv, NEW w \in Hands, hand[w].pc \in {"parse", "save"}, Frees(w),
           UNCHANGED <<kscene, pack, parses, builds, tab, asked, crossed>>, info' \in {"empty", "typed", "filled"},
           hand[w].row \in Kept, resume' \in [Rows -> ResumeRow],
           \A n \in Rows \ {hand[w].row} : resume'[n] = resume[n],
           resume'[hand[w].row].state = resume[hand[w].row].state,
           resume'[hand[w].row].version = resume[hand[w].row].version,
           resume'[hand[w].row].master = resume[hand[w].row].master,
           resume'[hand[w].row].status # "pending"
    PROVE  PackInv'
<1>1. PICK r : r = hand[w].row
  OBVIOUS
<1>2. hand' = [hand EXCEPT ![w] = IdleHand] /\ RowsOk(resume) /\ r \in KeptOf(resume)
  BY <1>1 DEF Frees, PackInv, Kept, KeptOf
<1>3. hand'[w] = IdleHand /\ \A v \in Hands \ {w} : hand'[v] = hand[v]
  BY <1>2 DEF PackInv
<1>4. RowsOk(resume') /\ Unused(resume') = Unused(resume) /\ MastersOf(resume') = MastersOf(resume)
  BY <1>1, <1>2, ResumeWritten
<1>5. \A n \in Rows : resume'[n].status = "pending" => resume[n].status = "pending" /\ hand[w].row # n
  BY <1>1
<1>6. ParsesOk(resume, parses, hand) /\ BuildsOk(pack, builds, hand) /\ hand[w].pc # "build"
  BY DEF PackInv
<1>7. ParsesOk(resume', parses, hand')
  BY <1>3, <1>5, <1>6, ParsesPass
<1>8. BuildsOk(pack, builds, hand')
  BY <1>3, <1>6, BuildsPass
<1> QED
  BY <1>2, <1>4, <1>7, <1>8, IdleFits, HandHolds DEF PackInv

LEMMA ParseFailedHolds ==
    ASSUME PackInv, NEW w \in Hands, hand[w].pc \in {"parse", "save"}, hand[w].row \in Kept, ParseFailed(w)
    PROVE  PackInv'
<1>1. PICK r : r = hand[w].row
  OBVIOUS
<1>2. /\ resume' = [resume EXCEPT ![r].status = "failed"] /\ Frees(w)
      /\ UNCHANGED <<kscene, pack, info, parses, builds, tab, asked, crossed>>
  BY <1>1 DEF ParseFailed
<1>3. r \in Rows /\ resume \in [Rows -> ResumeRow]
  BY <1>1 DEF Kept, PackInv, RowsOk
<1>4. /\ resume' \in [Rows -> ResumeRow] /\ \A n \in Rows \ {r} : resume'[n] = resume[n]
      /\ resume'[r].state = resume[r].state /\ resume'[r].version = resume[r].version
      /\ resume'[r].master = resume[r].master /\ resume'[r].status # "pending"
  BY <1>2, <1>3 DEF ResumeRow, Status
<1>5. info' \in {"empty", "typed", "filled"}
  BY <1>2 DEF PackInv
<1> QED
  BY <1>1, <1>2, <1>4, <1>5, RowDone

LEMMA ParseSavesHolds == ASSUME PackInv, NEW w \in Hands, ParseSaves(w) PROVE PackInv'
<1>1. hand[w].pc = "save" /\ UNCHANGED <<kscene, pack, parses, builds, tab, asked, crossed>>
  BY DEF ParseSaves
<1>2. CASE hand[w].row \notin Kept
  <2>1. hand' = [hand EXCEPT ![w] = IdleHand] /\ UNCHANGED <<resume, info>>
    BY <1>2 DEF ParseSaves, Frees
  <2>2. hand'[w] = IdleHand /\ \A v \in Hands \ {w} : hand'[v] = hand[v]
    BY <2>1 DEF PackInv
  <2>3. ParsesOk(resume, parses, hand) /\ BuildsOk(pack, builds, hand) /\ hand[w].pc # "build"
    BY <1>1 DEF PackInv
  <2>4. \A n \in Rows : resume[n].status = "pending" => hand[w].row # n
    BY <1>2 DEF PackInv, RowsOk, Kept
  <2>5. ParsesOk(resume, parses, hand')
    BY <2>2, <2>3, <2>4, ParsesPass
  <2>6. BuildsOk(pack, builds, hand')
    BY <2>2, <2>3, BuildsPass
  <2> QED
    BY <1>1, <2>1, <2>5, <2>6, IdleFits, HandHolds DEF PackInv
<1>3. CASE hand[w].row \in Kept
  <2>1. PICK r, c : r = hand[w].row /\ c = hand[w].content
    OBVIOUS
  <2>2. /\ resume' = [resume EXCEPT ![r].content = c, ![r].status = "parsed"] /\ Frees(w)
        /\ info' = IF hand[w].info = "same" THEN info ELSE hand[w].info
    BY <1>3, <2>1 DEF ParseSaves
  <2>3. r \in Rows /\ resume \in [Rows -> ResumeRow] /\ c \in Contents /\ hand[w].info \in {"same", "filled"}
    <3>1. hand[w] \in HandRow
      BY DEF PackInv
    <3> QED
      BY <1>3, <2>1, <3>1 DEF Kept, PackInv, RowsOk, HandRow
  <2>4. /\ resume' \in [Rows -> ResumeRow] /\ \A n \in Rows \ {r} : resume'[n] = resume[n]
        /\ resume'[r].state = resume[r].state /\ resume'[r].version = resume[r].version
        /\ resume'[r].master = resume[r].master /\ resume'[r].status # "pending"
    BY <2>2, <2>3 DEF ResumeRow, Status
  <2>5. info' \in {"empty", "typed", "filled"}
    BY <2>2, <2>3 DEF PackInv
  <2> QED
    BY <1>1, <1>3, <2>1, <2>2, <2>4, <2>5, RowDone
<1> QED
  BY <1>2, <1>3

\* A task of a pack is taken: what was pending there, a worker is at.
LEMMA BuildsTaken ==
    ASSUME NEW packs, NEW new, NEW tasks, NEW left, NEW hands, NEW more, BuildsOk(packs, tasks, hands),
           left \in BuildTasks,
           \A v \in Hands : hands[v].pc = "build" => more[v] = hands[v],
           \A j \in PackJobs : new[j].status = "pending" =>
               /\ packs[j].status = "pending" /\ new[j].id = packs[j].id
               /\ \/ left[new[j].id] = tasks[new[j].id]
                  \/ \E w \in Hands : more[w].pc = "build" /\ more[w].pack = new[j].id /\ more[w].status = "pending"
    PROVE  BuildsOk(new, left, more)
<1> SUFFICES ASSUME NEW j \in PackJobs, new[j].status = "pending", left[new[j].id] = tasks[new[j].id]
             PROVE  \/ left[new[j].id] > 0
                    \/ \E v \in Hands : more[v].pc = "build" /\ more[v].pack = new[j].id /\ more[v].status = "pending"
  BY DEF BuildsOk
<1>1. \/ tasks[new[j].id] > 0
      \/ \E v \in Hands : hands[v].pc = "build" /\ hands[v].pack = new[j].id /\ hands[v].status = "pending"
  BY DEF BuildsOk
<1> QED
  BY <1>1

\* A pack that is there is written, and stays where it is.
LEMMA PackWritten ==
    ASSUME NEW packs, NEW m, PacksOk(packs, m), NEW new, new \in [PackJobs -> PackRow],
           \A j \in PackJobs : /\ new[j].id = packs[j].id /\ new[j].master = packs[j].master
                               /\ new[j].status = "pending" => packs[j].status = "pending"
    PROVE  PacksOk(new, m)
BY DEF PacksOk

LEMMA TakeBuildHolds == ASSUME PackInv, NEW w \in Hands, TakeBuild(w) PROVE PackInv'
<1>1. hand[w].pc = "idle" /\ UNCHANGED <<kscene, resume, info, parses, tab, asked, crossed>>
  BY DEF TakeBuild
<1>2. PICK p \in 1..MaxPacks :
         /\ builds[p] > 0 /\ builds' = [builds EXCEPT ![p] = @ - 1]
         /\ \/ JobOfPack(p) = {} /\ UNCHANGED <<pack, hand>>
            \/ \E j \in JobOfPack(p) :
                 IF resume[pack[j].master].content = 0
                 THEN pack' = [pack EXCEPT ![j].status = "failed"] /\ UNCHANGED hand
                 ELSE /\ hand' = [hand EXCEPT ![w] = [IdleHand EXCEPT !.pc = "build", !.pack = p, !.row = pack[j].master,
                              !.content = resume[pack[j].master].content, !.old = pack[j].tailored,
                              !.resume = pack[j].resume, !.cover = pack[j].cover, !.status = pack[j].status]]
                      /\ UNCHANGED pack
  BY DEF TakeBuild
<1>3. /\ hand \in [Hands -> HandRow] /\ HandFits(hand[w]) /\ RowsOk(resume) /\ PacksOk(pack, asked.packs)
      /\ ParsesOk(resume, parses, hand) /\ BuildsOk(pack, builds, hand)
      /\ builds \in [1..MaxPacks -> 0..MaxQueued] /\ info \in {"empty", "typed", "filled"}
  BY DEF PackInv, BuildsOk, BuildTasks
<1>4. builds' \in BuildTasks /\ \A n \in 1..MaxPacks \ {p} : builds'[n] = builds[n]
  <2>1. builds[p] \in 0..MaxQueued /\ builds[p] > 0
    BY <1>2, <1>3
  <2>2. builds[p] - 1 \in 0..MaxQueued
    BY <2>1, Numbers
  <2> QED
    BY <1>2, <1>3, <2>2 DEF BuildTasks
<1>5. \A j \in PackJobs : /\ pack[j] \in PackRow
                          /\ pack[j].status = "pending" => pack[j].id \in 1..MaxPacks
  BY <1>3, Numbers DEF PacksOk, PackRow
<1>6. CASE JobOfPack(p) = {} /\ UNCHANGED <<pack, hand>>
  <2>1. \A j \in PackJobs : pack[j].id # p
    BY <1>6 DEF JobOfPack
  <2>15. \A j \in PackJobs : pack[j].status = "pending" =>
            builds'[pack[j].id] = builds[pack[j].id]
    BY <1>4, <1>5, <2>1
  <2>16. BuildsOk(pack, builds, hand)
    BY <1>3
  <2>2. BuildsOk(pack, builds', hand)
    BY <1>4, <2>15, <2>16, BuildsTaken
  <2>3. hand' = [hand EXCEPT ![w] = hand[w]]
    BY <1>3, <1>6
  <2> QED
    BY <1>1, <1>3, <1>6, <2>2, <2>3, HandHolds
<1>7. ASSUME NEW j \in JobOfPack(p), resume[pack[j].master].content = 0,
             pack' = [pack EXCEPT ![j].status = "failed"], UNCHANGED hand
      PROVE  PackInv'
  <2>1. j \in PackJobs /\ pack[j].id = p
    BY DEF JobOfPack
  <2> DEFINE x == [pack[j] EXCEPT !.status = "failed"]
  <2>11. x \in PackRow /\ x.status = "failed" /\ x.id = pack[j].id /\ x.master = pack[j].master
    BY <1>5, <2>1 DEF PackRow, PackStatus
  <2>12. pack' = [pack EXCEPT ![j] = x] /\ pack \in [PackJobs -> PackRow]
    BY <1>3, <1>7 DEF PacksOk
  <2> HIDE DEF x
  <2>13. pack' \in [PackJobs -> PackRow] /\ pack'[j] = x /\ \A k \in PackJobs \ {j} : pack'[k] = pack[k]
    BY <2>1, <2>11, <2>12
  <2>2. /\ pack' \in [PackJobs -> PackRow] /\ pack'[j].status = "failed"
        /\ \A k \in PackJobs : pack'[k].id = pack[k].id /\ pack'[k].master = pack[k].master
        /\ \A k \in PackJobs \ {j} : pack'[k].status = pack[k].status
    BY <2>11, <2>13
  <2>3. PacksOk(pack', asked.packs)
    BY <1>3, <2>1, <2>2, PackWritten
  <2>4. \A k \in PackJobs : pack'[k].status = "pending" =>
            pack[k].status = "pending" /\ pack'[k].id \in 1..MaxPacks /\ pack'[k].id # p
    BY <1>3, <1>5, <2>1, <2>2, Numbers DEF PacksOk
  <2>41. \A k \in PackJobs : pack'[k].status = "pending" =>
            /\ pack[k].status = "pending" /\ pack'[k].id = pack[k].id
            /\ builds'[pack'[k].id] = builds[pack'[k].id]
    BY <1>4, <2>2, <2>4
  <2>42. BuildsOk(pack, builds, hand)
    BY <1>3
  <2>5. BuildsOk(pack', builds', hand)
    BY <1>4, <2>41, <2>42, BuildsTaken
  <2>6. hand' = [hand EXCEPT ![w] = hand[w]]
    BY <1>3, <1>7
  <2> QED
    BY <1>1, <1>3, <1>7, <2>3, <2>5, <2>6, HandHolds
<1>8. ASSUME NEW j \in JobOfPack(p), UNCHANGED pack,
             hand' = [hand EXCEPT ![w] = [IdleHand EXCEPT !.pc = "build", !.pack = p, !.row = pack[j].master,
                          !.content = resume[pack[j].master].content, !.old = pack[j].tailored,
                          !.resume = pack[j].resume, !.cover = pack[j].cover, !.status = pack[j].status]]
      PROVE  PackInv'
  <2> DEFINE h == [IdleHand EXCEPT !.pc = "build", !.pack = p, !.row = pack[j].master,
                       !.content = resume[pack[j].master].content, !.old = pack[j].tailored,
                       !.resume = pack[j].resume, !.cover = pack[j].cover, !.status = pack[j].status]
  <2>1. j \in PackJobs /\ pack[j].id = p /\ p # 0 /\ p \in 0..MaxPacks
    BY Numbers DEF JobOfPack
  <2>2. pack[j].master \in Rows /\ pack[j].master \in 0..MaxRows
    BY <1>3, <2>1, Numbers DEF PacksOk
  <2>3. resume[pack[j].master].content \in Contents
    BY <1>3, <2>2 DEF RowsOk, ResumeRow
  <2>4. /\ pack[j].tailored \in 0..MaxRows /\ pack[j].resume \in BOOLEAN /\ pack[j].cover \in BOOLEAN
        /\ pack[j].status \in PackStatus
    BY <1>5, <2>1 DEF PackRow
  <2>5. h \in HandRow /\ h.pc = "build" /\ h.pack = p /\ h.row = pack[j].master /\ h.status = pack[j].status
    BY <2>1, <2>2, <2>3, <2>4, IdleFits DEF IdleHand, HandRow
  <2>6. hand' = [hand EXCEPT ![w] = h]
    BY <1>8
  <2> HIDE DEF h
  <2>7. HandFits(h)
    BY <2>2, <2>5 DEF HandFits
  <2>8. hand'[w] = h /\ \A v \in Hands \ {w} : hand'[v] = hand[v]
    BY <1>3, <2>6
  <2>9. ParsesOk(resume, parses, hand')
    <3>1. hand[w].pc \notin {"parse", "save"}
      BY <1>1
    <3> QED
      BY <1>3, <2>8, <3>1, ParsesPass
  <2>10. BuildsOk(pack, builds', hand')
    <3>1. \A v \in Hands : hand[v].pc = "build" => hand'[v] = hand[v]
      BY <1>1, <2>8
    <3>2. \A k \in PackJobs : pack[k].status = "pending" =>
            \/ builds'[pack[k].id] = builds[pack[k].id]
            \/ \E v \in Hands : hand'[v].pc = "build" /\ hand'[v].pack = pack[k].id /\ hand'[v].status = "pending"
      <4> SUFFICES ASSUME NEW k \in PackJobs, pack[k].status = "pending"
                   PROVE  \/ builds'[pack[k].id] = builds[pack[k].id]
                          \/ hand'[w].pc = "build" /\ hand'[w].pack = pack[k].id /\ hand'[w].status = "pending"
        OBVIOUS
      <4>1. CASE pack[k].id = p
        <5>1. k = j
          BY <1>3, <2>1, <4>1 DEF PacksOk
        <5> QED
          BY <2>1, <2>5, <2>8, <5>1
      <4>2. CASE pack[k].id # p
        BY <1>4, <1>5, <4>2
      <4> QED
        BY <4>1, <4>2
    <3>3. BuildsOk(pack, builds, hand)
      BY <1>3
    <3> QED
      BY <1>4, <3>1, <3>2, <3>3, BuildsTaken
  <2> QED
    BY <1>1, <1>3, <1>8, <2>6, <2>7, <2>9, <2>10, HandHolds
<1> QED
  BY <1>2, <1>6, <1>7, <1>8

\* The packs a build has ended: the one of the build is pending only when the
\* build was not taken for that.
LEMMA BuildsEnded ==
    ASSUME NEW packs, NEW m, PacksOk(packs, m), NEW new, NEW tasks, NEW hands, BuildsOk(packs, tasks, hands),
           NEW w \in Hands, NEW more, \A v \in Hands \ {w} : more[v] = hands[v],
           \A j \in PackJobs : new[j].status = "pending" =>
               /\ packs[j].status = "pending" /\ new[j].id = packs[j].id
               /\ packs[j].id = hands[w].pack => hands[w].status # "pending"
    PROVE  BuildsOk(new, tasks, more)
<1>1. \A j \in PackJobs : new[j].status = "pending" =>
          /\ packs[j].status = "pending" /\ new[j].id = packs[j].id
          /\ hands[w].pc = "build" /\ hands[w].pack = packs[j].id => hands[w].status # "pending"
  OBVIOUS
<1> QED
  BY <1>1, BuildsPass

LEMMA BuildCrashesHolds == ASSUME PackInv, NEW w \in Hands, BuildCrashes(w) PROVE PackInv'
<1>1. /\ hand[w].pc = "build" /\ UNCHANGED <<kscene, resume, info, parses, builds, tab, asked, crossed>>
      /\ pack' = [j \in PackJobs |-> IF j \in JobOfPack(hand[w].pack) THEN BuildFailed(pack[j]) ELSE pack[j]]
      /\ hand' = [hand EXCEPT ![w] = IdleHand]
  BY DEF BuildCrashes, Frees
<1>2. /\ PacksOk(pack, asked.packs) /\ BuildsOk(pack, builds, hand) /\ ParsesOk(resume, parses, hand)
      /\ hand \in [Hands -> HandRow] /\ RowsOk(resume) /\ info \in {"empty", "typed", "filled"}
  BY DEF PackInv
<1>3. ASSUME NEW j \in PackJobs
      PROVE  /\ pack'[j] \in PackRow /\ pack'[j].id = pack[j].id /\ pack'[j].master = pack[j].master
             /\ pack'[j].status = "pending" => pack[j].status = "pending" /\ pack[j].id # hand[w].pack
  <2>1. pack[j] \in PackRow
    BY <1>2 DEF PacksOk
  <2>2. CASE pack[j].id = hand[w].pack
    <3>1. pack'[j] = [pack[j] EXCEPT !.status = "failed"]
      BY <1>1, <2>2 DEF JobOfPack, BuildFailed
    <3> QED
      BY <2>1, <3>1 DEF PackRow, PackStatus
  <2>3. CASE pack[j].id # hand[w].pack
    <3>1. pack'[j] = pack[j]
      BY <1>1, <2>3 DEF JobOfPack
    <3> QED
      BY <2>1, <2>3, <3>1
  <2> QED
    BY <2>2, <2>3
<1>4. pack' \in [PackJobs -> PackRow]
  BY <1>1, <1>3
<1>5. PacksOk(pack', asked.packs)
  BY <1>2, <1>3, <1>4, PackWritten
<1>6. hand'[w] = IdleHand /\ \A v \in Hands \ {w} : hand'[v] = hand[v]
  BY <1>1, <1>2
<1>7. BuildsOk(pack', builds, hand')
  BY <1>2, <1>3, <1>6, BuildsEnded
<1>8. ParsesOk(resume, parses, hand')
  <2>1. hand[w].pc \notin {"parse", "save"}
    BY <1>1
  <2> QED
    BY <1>2, <1>6, <2>1, ParsesPass
<1> QED
  BY <1>1, <1>2, <1>5, <1>7, <1>8, IdleFits, HandHolds

\* A tailored copy is stored, and the one it replaces deleted.
LEMMA StoredOk ==
    ASSUME PackInv, NEW w \in Hands, hand[w].pc = "build", HasRoom
    PROVE  /\ RowsOk(RowsWithout(Stored(w), Replaced(w))) /\ Fresh \in Rows
           /\ Unused(RowsWithout(Stored(w), Replaced(w))) \subseteq Unused(resume)
           /\ MastersOf(RowsWithout(Stored(w), Replaced(w))) \subseteq MastersOf(resume)
           /\ \A r \in Rows : RowsWithout(Stored(w), Replaced(w))[r].status = "pending" => resume[r].status = "pending"
<1> DEFINE x == [NoResume EXCEPT !.state = "kept", !.version = LastVersion + 1, !.parent = hand[w].row,
                     !.status = "reviewed", !.content = hand[w].content, !.from = hand[w].content]
           rows == Stored(w)
           lost == Replaced(w)
           new == RowsWithout(rows, lost)
<1>1. RowsOk(resume) /\ resume \in [Rows -> ResumeRow] /\ hand[w] \in HandRow
  BY DEF PackInv, RowsOk
<1>2. Fresh \in Unused(resume) /\ Fresh \in Rows /\ \A n \in Unused(resume) : Fresh <= n
  BY FreshIs DEF Unused
<1>3. LastVersion + 1 \in Nat /\ LastVersion + 1 <= Fresh
  BY <1>1, <1>2, NextVersionFits
<1>4. LastVersion + 1 \in 0..MaxRows
  <2>1. Fresh \in Nat /\ Fresh <= MaxRows
    BY <1>2, Numbers
  <2> QED
    BY <1>3, <2>1, Numbers
<1>5. x \in ResumeRow
  <2>1. hand[w].row \in 0..MaxRows /\ hand[w].content \in Contents
    BY <1>1 DEF HandRow
  <2>2. NoResume \in ResumeRow
    BY Numbers DEF NoResume, ResumeRow, Status
  <2> QED
    BY <1>4, <2>1, <2>2 DEF ResumeRow, Status
<1>6. x.state = "kept" /\ x.version = LastVersion + 1 /\ x.status = "reviewed" /\ x.master = FALSE
  BY DEF NoResume
<1>7. rows = [resume EXCEPT ![Fresh] = x]
  BY DEF Stored
<1> HIDE DEF x, rows, lost
<1>8. rows \in [Rows -> ResumeRow] /\ rows[Fresh] = x /\ \A n \in Rows \ {Fresh} : rows[n] = resume[n]
  BY <1>1, <1>2, <1>5, <1>7
<1>9. \A n \in KeptOf(resume) : resume[n].version # x.version
  <2> SUFFICES ASSUME NEW n \in KeptOf(resume), resume[n].version = LastVersion + 1 PROVE FALSE
    BY <1>6
  <2>1. LastVersion \in Nat /\ resume[n].version <= LastVersion
    BY <1>1, LastVersionIs
  <2> QED
    BY <2>1
<1>10. RowsOk(rows) /\ Unused(rows) = Unused(resume) \ {Fresh} /\ KeptOf(rows) = KeptOf(resume) \cup {Fresh}
  <2>1. rows[Fresh].state = "kept" /\ rows[Fresh].version <= Fresh /\ rows[Fresh].version = x.version
    BY <1>3, <1>6, <1>8
  <2> QED
    BY <1>1, <1>2, <1>8, <1>9, <2>1, AddedOk
<1>11. lost \in SUBSET Rows /\ lost \cap Unused(rows) = {}
  <2>1. lost \subseteq KeptOf(resume)
    BY RowSets DEF lost, Replaced
  <2> QED
    BY <1>10, <2>1 DEF KeptOf, Unused
<1>12. /\ RowsOk(new) /\ Unused(new) = Unused(rows) /\ KeptOf(new) = KeptOf(rows) \ lost
       /\ \A r \in Rows \ lost : new[r].master = rows[r].master /\ new[r].status = rows[r].status
       /\ \A r \in lost : new[r] = Gone
  BY <1>10, <1>11, WithoutOk
<1> HIDE DEF new
<1>13. MastersOf(new) \subseteq MastersOf(resume)
  BY <1>6, <1>8, <1>10, <1>12 DEF MastersOf, KeptOf
<1>14. \A r \in Rows : new[r].status = "pending" => resume[r].status = "pending"
  <2>1. Gone.status = "none"
    BY DEF Gone, NoResume
  <2> QED
    BY <1>6, <1>8, <1>12, <2>1
<1> QED
  BY <1>2, <1>10, <1>12, <1>13, <1>14 DEF new, rows, lost

LEMMA BuildEndsHolds == ASSUME PackInv, NEW w \in Hands, BuildEnds(w) PROVE PackInv'
<1>1. hand[w].pc = "build" /\ UNCHANGED <<kscene, info, parses, builds, tab, asked, crossed>>
      /\ hand' = [hand EXCEPT ![w] = IdleHand]
  BY DEF BuildEnds, Frees
<1>2. PICK j \in JobOfPack(hand[w].pack), a \in Outcomes(hand[w].resume), b \in Outcomes(hand[w].cover) :
         /\ a = "done" => HasRoom /\ hand[w].row \in Kept
         /\ resume' = IF a = "done" THEN RowsWithout(Stored(w), IF a = "done" THEN Replaced(w) ELSE {}) ELSE resume
         /\ pack' = [PacksWithout(IF a = "done" THEN Replaced(w) ELSE {}) EXCEPT
                ![j] = IF @.id = 0 THEN @ ELSE Built(@, w, a, b)]
  BY DEF BuildEnds
<1>3. /\ PacksOk(pack, asked.packs) /\ BuildsOk(pack, builds, hand) /\ ParsesOk(resume, parses, hand)
      /\ hand \in [Hands -> HandRow] /\ RowsOk(resume) /\ info \in {"empty", "typed", "filled"}
  BY DEF PackInv
<1>4. /\ RowsOk(resume') /\ Unused(resume') \subseteq Unused(resume) /\ MastersOf(resume') \subseteq MastersOf(resume)
      /\ \A r \in Rows : resume'[r].status = "pending" => resume[r].status = "pending"
      /\ a = "done" => Fresh \in 0..MaxRows
  <2>1. CASE a = "done"
    <3>1. resume' = RowsWithout(Stored(w), Replaced(w)) /\ HasRoom
      BY <1>2, <2>1
    <3> QED
      BY <1>1, <3>1, StoredOk, Numbers
  <2>2. CASE a # "done"
    BY <1>2, <1>3, <2>2
  <2> QED
    BY <2>1, <2>2
<1>5. PICK lost : lost = IF a = "done" THEN Replaced(w) ELSE {}
  OBVIOUS
<1> DEFINE left == PacksWithout(lost)
<1>6. /\ PacksOk(left, asked.packs)
      /\ \A k \in PackJobs : left[k] = NoPack \/ (left[k].id = pack[k].id /\ left[k].status = pack[k].status)
  BY <1>3, PacksWithoutOk
<1>7. pack' = [left EXCEPT ![j] = IF @.id = 0 THEN @ ELSE Built(@, w, a, b)]
  BY <1>2, <1>5
<1> HIDE DEF left
<1>8. j \in PackJobs /\ pack[j].id = hand[w].pack /\ left \in [PackJobs -> PackRow]
  BY <1>6 DEF JobOfPack, PacksOk
<1>9. PICK x : x = IF left[j].id = 0 THEN left[j] ELSE Built(left[j], w, a, b)
  OBVIOUS
<1>10. /\ x \in PackRow /\ x.id = left[j].id /\ x.master = left[j].master
       /\ x.status = "pending" => left[j].status = "pending" /\ (left[j].id # 0 => hand[w].status # "pending")
  <2>1. CASE left[j].id = 0
    BY <1>8, <1>9, <2>1
  <2>2. CASE left[j].id # 0
    <3>1. PICK c, d, e : /\ c = IF a = "done" THEN Fresh ELSE left[j].tailored
                         /\ d = IF b = "done" THEN hand[w].content ELSE left[j].letter
                         /\ e = IF BuiltStatus(a, b) = hand[w].status THEN left[j].status ELSE BuiltStatus(a, b)
      OBVIOUS
    <3>2. x = [left[j] EXCEPT !.tailored = c, !.letter = d, !.status = e]
      BY <1>9, <2>2, <3>1 DEF Built
    <3>3. left[j] \in PackRow /\ hand[w] \in HandRow
      BY <1>3, <1>8
    <3>4. BuiltStatus(a, b) \in {"ready", "failed"}
      BY DEF BuiltStatus
    <3>5. c \in 0..MaxRows /\ d \in Contents /\ e \in PackStatus
      BY <1>4, <3>1, <3>3, <3>4 DEF PackRow, HandRow, PackStatus
    <3>6. e = "pending" => left[j].status = "pending" /\ hand[w].status # "pending"
      BY <3>1, <3>4
    <3>7. x \in PackRow /\ x.id = left[j].id /\ x.master = left[j].master /\ x.status = e
      BY <3>2, <3>3, <3>5 DEF PackRow
    <3> QED
      BY <3>6, <3>7
  <2> QED
    BY <2>1, <2>2
<1>11. pack' \in [PackJobs -> PackRow] /\ pack'[j] = x /\ \A k \in PackJobs \ {j} : pack'[k] = left[k]
  <2>1. pack' = [left EXCEPT ![j] = x]
    BY <1>7, <1>8, <1>9
  <2> QED
    BY <1>8, <1>10, <2>1
<1>12. PacksOk(pack', asked.packs)
  <2>1. \A k \in PackJobs : /\ pack'[k].id = left[k].id /\ pack'[k].master = left[k].master
                            /\ pack'[k].status = "pending" => left[k].status = "pending"
    BY <1>10, <1>11
  <2> QED
    BY <1>6, <1>11, <2>1, PackWritten
<1>13. hand'[w] = IdleHand /\ \A v \in Hands \ {w} : hand'[v] = hand[v]
  BY <1>1, <1>3
<1>14. BuildsOk(pack', builds, hand')
  <2>1. ASSUME NEW k \in PackJobs, pack'[k].status = "pending"
        PROVE  /\ pack[k].status = "pending" /\ pack'[k].id = pack[k].id
               /\ pack[k].id = hand[w].pack => hand[w].status # "pending"
    <3>1. left[k].status = "pending" /\ pack'[k].id = left[k].id
      BY <1>10, <1>11, <2>1
    <3>2. left[k].id = pack[k].id /\ left[k].status = pack[k].status
      BY <1>6, <3>1 DEF NoPack
    <3>3. pack[k].id # 0
      BY <1>3, <3>1, <3>2 DEF PacksOk
    <3>4. CASE k = j
      BY <1>10, <1>11, <2>1, <3>1, <3>2, <3>3, <3>4
    <3>5. CASE k # j
      BY <1>3, <1>8, <3>1, <3>2, <3>3, <3>5 DEF PacksOk
    <3> QED
      BY <3>4, <3>5
  <2> QED
    BY <1>3, <1>13, <2>1, BuildsEnded
<1>15. ParsesOk(resume', parses, hand')
  <2>1. hand[w].pc \notin {"parse", "save"}
    BY <1>1
  <2> QED
    BY <1>3, <1>4, <1>13, <2>1, ParsesPass
<1> QED
  BY <1>1, <1>3, <1>4, <1>12, <1>14, <1>15, IdleFits, HandHolds

----------------------------------------------------------------------------
(* The theorem *)

LEMMA PackStarts == PackInit => PackInv
<1> SUFFICES ASSUME PackInit PROVE PackInv
  OBVIOUS
<1>0. 0 \in 0..MaxRows /\ 0 \in 0..MaxPacks /\ 0 \in 0..MaxQueued /\ 0 \in Contents /\ 0 \in Nat
  BY Numbers
<1>1. NoResume \in ResumeRow /\ NoResume.state = "unused" /\ NoResume.version = 0 /\ NoResume.status = "none"
  BY <1>0 DEF NoResume, ResumeRow, Status
<1>2. NoPack \in PackRow /\ NoPack.id = 0 /\ NoPack.status = "none"
  BY <1>0 DEF NoPack, PackRow, PackStatus
<1>3. KeptOf(resume) = {} /\ Unused(resume) = Rows /\ MastersOf(resume) = {}
  BY <1>1 DEF PackInit, KeptOf, Unused, MastersOf
<1>4. RowsOk(resume)
  <2>1. \A r \in Rows : resume[r] = NoResume /\ NoResume.version <= r
    BY <1>1, Numbers DEF PackInit
  <2>2. resume \in [Rows -> ResumeRow]
    BY <1>1 DEF PackInit
  <2> QED
    BY <1>1, <1>3, <2>1, <2>2 DEF RowsOk
<1>5. PacksOk(pack, asked.packs) /\ asked \in [requests : Nat, packs : 0..MaxPacks]
  BY <1>0, <1>2 DEF PackInit, PacksOk
<1>6. tab \in [Tabs -> TabRow] /\ \A q \in Tabs : tab[q] = IdleTab
  BY IdleFits DEF PackInit
<1>7. hand \in [Hands -> HandRow] /\ \A w \in Hands : HandFits(hand[w])
  BY IdleFits DEF PackInit
<1>8. Alone(resume, tab)
  BY <1>3, <1>6, IdleFits DEF Alone
<1>9. ParsesOk(resume, parses, hand)
  BY <1>0, <1>1 DEF PackInit, ParsesOk
<1>10. BuildsOk(pack, builds, hand)
  BY <1>0, <1>2 DEF PackInit, BuildsOk, BuildTasks
<1>11. kscene \in PackScene /\ info \in {"empty", "typed", "filled"}
  BY Numbers DEF PackInit
<1> QED
  BY <1>4, <1>5, <1>6, <1>7, <1>8, <1>9, <1>10, <1>11, IdleFits DEF PackInv

LEMMA PackStep == PackInv /\ [PackNext]_kvars => PackInv'
<1> SUFFICES ASSUME PackInv, [PackNext]_kvars PROVE PackInv'
  OBVIOUS
<1>1. ASSUME NEW q \in Tabs, TabNext(q) PROVE PackInv'
  BY <1>1, UploadBegins, UploadHolds, MasterBegins, MasterHolds, DeleteBegins, ResumeDeletes, ReviewBegins, ReviewHolds,
     ReparseBegins, ReparseHolds, ProfileHolds, PrepareBegins, PrepareHolds DEF TabNext
<1>2. ASSUME NEW w \in Hands, HandNext(w) PROVE PackInv'
  <2>1. CASE ParseFails(w) \/ ParseCrashes(w)
    BY <2>1, ParseFailedHolds DEF ParseFails, ParseCrashes
  <2> QED
    BY <1>2, <2>1, TakeParseHolds, ModelReadHolds, ParseSavesHolds, TakeBuildHolds, BuildEndsHolds, BuildCrashesHolds
    DEF HandNext
<1>3. CASE UNCHANGED kvars
  BY <1>3 DEF kvars, PackInv
<1> QED
  BY <1>1, <1>2, <1>3 DEF PackNext

LEMMA OneCounted == ASSUME NEW S, \A r, n \in S : r = n PROVE Cardinality(S) <= 1
<1>1. CASE S = {}
  BY <1>1, FS_EmptySet
<1>2. CASE S # {}
  <2>1. PICK x \in S : S = {x}
    BY <1>2
  <2> QED
    BY <2>1, FS_Singleton
<1> QED
  BY <1>1, <1>2

\* However many resumes, packs, tabs and workers there are and whatever fails,
\* a user who sends one request at a time never has two masters, and nothing
\* is pending that no task and no worker will end (resume_store.py,
\* celery_tasks.py).
THEOREM PacksAreServed == PackSpec => []PacksHold
<1>1. PackInv => PacksHold
  <2> SUFFICES ASSUME PackInv PROVE OneMaster /\ PendingHasTask
    BY DEF PacksHold
  <2>1. OneMaster
    BY OneCounted, RowSets DEF PackInv, Alone, OneMaster
  <2>2. PendingHasTask
    BY DEF PackInv, ParsesOk, BuildsOk, PendingHasTask
  <2> QED
    BY <2>1, <2>2
<1> QED
  BY <1>1, PackStarts, PackStep, PTL DEF PackSpec

----------------------------------------------------------------------------
(***************************************************************************)
(* Whatever fails, is edited, deleted or cancelled during a call, the right *)
(* key pays for it, one model answers it and the ledger knows: for any      *)
(* models, providers, calls, slots and pauses.                              *)
(*                                                                          *)
(* The argument: a model of the chain was free for the caller when the call *)
(* began, or the caller's key was there and is there or was taken away      *)
(* since; a call that has shown something is at the model that said it, and *)
(* its failure ends it; and what is under way is one more than is noted.    *)
(***************************************************************************)

Active == {"next", "slot", "enter", "calling", "good", "bad"}
CallRow == [pc : Active \cup {"idle", "done", "dead"}, kind : Kinds, chain : Seq(Models),
            src : {"none", "request", "byok", "platform", "env"}, chunks : Nat, slot : BOOLEAN,
            error : {"none", "rate_limit", "broken", "bad_reply", "transient"}, stale : BOOLEAN]
Log == [edits : Nat, ticks : Nat, entitled : [Calls -> SUBSET Models], lost : [Calls -> SUBSET Providers],
        spoke : [Calls -> SUBSET Models], tried : [Calls -> Nat], ledger : [Calls -> Nat], slips : [Calls -> Nat]]

\* Who pays for the models a call has still to try, and for the one it is at.
PaidFor(t, entitled, lost, own) ==
    /\ t.pc \in Active \ {"next"} => t.chain # <<>>
    /\ t.pc \in Active /\ t.kind # "request" =>
           \A m \in Models : Listed(m, t.chain) => m \in entitled \/ (t.kind # "test" /\ Provider[m] \in own \cup lost)
    /\ t.pc \in {"slot", "enter", "calling"} /\ t.src \in {"platform", "env"} =>
           Head(t.chain) \in entitled \/ Provider[Head(t.chain)] \in lost

\* What a call has shown is of the model it is at.
Spoken(t, spoke) ==
    /\ \A m, n \in spoke : m = n
    /\ t.pc = "idle" \/ (t.pc \in Active /\ t.chunks = 0) => spoke = {}
    /\ t.pc \in Active /\ t.chunks > 0 => /\ t.pc = "calling" /\ t.kind \in {"stream", "capped"}
                                          /\ spoke \subseteq {Head(t.chain)}

\* The attempt under way is not noted yet.
Counted(t, tried, noted) ==
    /\ t.pc \in {"idle", "next", "slot", "enter", "done"} => tried = noted
    /\ t.pc \in {"calling", "good", "bad"} => tried = noted + 1

CallFits(t, log, c, own) ==
    /\ PaidFor(t, log.entitled[c], log.lost[c], own) /\ Spoken(t, log.spoke[c])
    /\ Counted(t, log.tried[c], log.ledger[c] + log.slips[c])

RouterInv ==
    /\ rscene \in RouterScene /\ keys \in [own : SUBSET Providers, platform : SUBSET Providers]
    /\ call \in [Calls -> CallRow] /\ rlog \in Log
    /\ \A c \in Calls : CallFits(call[c], rlog, c, keys.own)

SameLog(new, log, c) ==
    /\ new.entitled[c] = log.entitled[c] /\ new.lost[c] = log.lost[c] /\ new.spoke[c] = log.spoke[c]
    /\ new.tried[c] = log.tried[c] /\ new.ledger[c] = log.ledger[c] /\ new.slips[c] = log.slips[c]

\* One of the history's fields is written for one call.
Tries(new, log, c) == new = [log EXCEPT !.tried[c] = @ + 1]
Notes(new, log, c) == new = [log EXCEPT !.ledger[c] = @ + 1] \/ new = [log EXCEPT !.slips[c] = @ + 1]

LEMMA LogTried ==
    ASSUME NEW log \in Log, NEW c \in Calls, NEW new, Tries(new, log, c)
    PROVE  /\ new \in Log /\ \A d \in Calls \ {c} : SameLog(new, log, d)
           /\ new.tried[c] = log.tried[c] + 1 /\ new.ledger[c] = log.ledger[c] /\ new.slips[c] = log.slips[c]
           /\ new.entitled[c] = log.entitled[c] /\ new.lost[c] = log.lost[c] /\ new.spoke[c] = log.spoke[c]
BY DEF Log, SameLog, Tries

LEMMA LogNoted ==
    ASSUME NEW log \in Log, NEW c \in Calls, NEW new, Notes(new, log, c)
    PROVE  /\ new \in Log /\ \A d \in Calls \ {c} : SameLog(new, log, d)
           /\ new.tried[c] = log.tried[c] /\ new.ledger[c] + new.slips[c] = log.ledger[c] + log.slips[c] + 1
           /\ new.entitled[c] = log.entitled[c] /\ new.lost[c] = log.lost[c] /\ new.spoke[c] = log.spoke[c]
<1>1. CASE new = [log EXCEPT !.ledger[c] = @ + 1]
  <2>1. log.ledger[c] \in Nat /\ log.slips[c] \in Nat
    BY DEF Log
  <2>2. new.ledger[c] = log.ledger[c] + 1 /\ new.slips[c] = log.slips[c]
    BY <1>1 DEF Log
  <2>3. new.ledger[c] + new.slips[c] = log.ledger[c] + log.slips[c] + 1
    BY <2>1, <2>2
  <2> QED
    BY <1>1, <2>3 DEF Log, SameLog
<1>2. CASE new = [log EXCEPT !.slips[c] = @ + 1]
  <2>1. log.ledger[c] \in Nat /\ log.slips[c] \in Nat
    BY DEF Log
  <2>2. new.ledger[c] = log.ledger[c] /\ new.slips[c] = log.slips[c] + 1
    BY <1>2 DEF Log
  <2>3. new.ledger[c] + new.slips[c] = log.ledger[c] + log.slips[c] + 1
    BY <2>1, <2>2
  <2> QED
    BY <1>2, <2>3 DEF Log, SameLog
<1> QED
  BY <1>1, <1>2 DEF Notes

LEMMA CallOf ==
    ASSUME RouterInv, NEW c \in Calls
    PROVE  /\ call[c] \in CallRow /\ CallFits(call[c], rlog, c, keys.own) /\ rlog \in Log
           /\ rlog.tried[c] \in Nat /\ rlog.ledger[c] + rlog.slips[c] \in Nat
<1>1. rlog.tried[c] \in Nat /\ rlog.ledger[c] \in Nat /\ rlog.slips[c] \in Nat
  BY DEF RouterInv, Log
<1> QED
  BY <1>1 DEF RouterInv

\* A call goes on to t.
LEMMA CallGoes ==
    ASSUME RouterInv, NEW c \in Calls, NEW t \in CallRow, Goes(c, t), UNCHANGED <<rscene, keys>>,
           rlog' \in Log, \A d \in Calls \ {c} : SameLog(rlog', rlog, d), CallFits(t, rlog', c, keys.own)
    PROVE  RouterInv'
<1>1. call' \in [Calls -> CallRow] /\ call'[c] = t /\ \A d \in Calls \ {c} : call'[d] = call[d]
  BY DEF RouterInv, Goes
<1>2. ASSUME NEW d \in Calls PROVE CallFits(call'[d], rlog', d, keys.own)
  <2>1. CASE d = c
    BY <1>1, <2>1
  <2>2. CASE d # c
    <3>1. CallFits(call[d], rlog, d, keys.own) /\ SameLog(rlog', rlog, d) /\ call'[d] = call[d]
      BY <1>1, <2>2 DEF RouterInv
    <3> QED
      BY <3>1 DEF CallFits, SameLog
  <2> QED
    BY <2>1, <2>2
<1> QED
  BY <1>1, <1>2 DEF RouterInv

\* A call is over.
LEMMA CallEnds ==
    ASSUME RouterInv, NEW c \in Calls, NEW t \in CallRow, Goes(c, t), t.pc \in {"done", "dead"}, UNCHANGED <<rscene, keys>>,
           rlog' \in Log, \A d \in Calls \ {c} : SameLog(rlog', rlog, d), rlog'.spoke[c] = rlog.spoke[c],
           t.pc = "done" => rlog'.tried[c] = rlog'.ledger[c] + rlog'.slips[c]
    PROVE  RouterInv'
<1>1. CallFits(call[c], rlog, c, keys.own)
  BY CallOf
<1>2. CallFits(t, rlog', c, keys.own)
  BY <1>1 DEF CallFits, PaidFor, Spoken, Counted, Active
<1> QED
  BY <1>2, CallGoes

LEMMA DoneIs ==
    /\ [NotCalled EXCEPT !.pc = "done"] \in CallRow /\ [NotCalled EXCEPT !.pc = "done"].pc = "done"
    /\ \A b \in BOOLEAN : /\ [NotCalled EXCEPT !.pc = "dead", !.slot = b] \in CallRow
                          /\ [NotCalled EXCEPT !.pc = "dead", !.slot = b].pc = "dead"
<1>1. <<>> \in Seq(Models)
  OBVIOUS
<1> QED
  BY <1>1 DEF NotCalled, CallRow, Active, Kinds

LEMMA ChainIs ==
    ASSUME NEW kind, NEW chain \in Chains(kind)
    PROVE  chain \in Seq(Models) /\ \A m \in Models : Listed(m, chain) => MayUse(kind, m)
<1> DEFINE ready == {m \in Models : Serves(m, rscene.task) /\ MayUse(kind, m)}
           up == {m \in ready : pause[m].why = "up"}
           places == 1..Cardinality(up)
<1>1. chain \in [places -> up] \/ chain = <<>> \/ \E m \in ready : chain = <<m>>
  BY DEF Chains
<1>2. Cardinality(up) \in Nat
  <2>1. IsFiniteSet(up)
    BY RouterConstants, FS_Subset
  <2> QED
    BY <2>1, FS_CardinalityType
<1>3. up \subseteq ready /\ ready \subseteq Models /\ \A m \in ready : MayUse(kind, m)
  OBVIOUS
<1> HIDE DEF up, ready
<1>4. CASE chain \in [places -> up]
  <2>1. chain \in Seq(Models) /\ Len(chain) = Cardinality(up)
    BY <1>2, <1>3, <1>4
  <2>2. \A k \in 1..Len(chain) : chain[k] \in ready
    BY <1>3, <1>4, <2>1
  <2> QED
    BY <1>3, <2>1, <2>2 DEF Listed
<1>5. CASE chain = <<>>
  BY <1>5 DEF Listed
<1>6. ASSUME NEW m \in ready, chain = <<m>> PROVE chain \in Seq(Models) /\ \A n \in Models : Listed(n, chain) => MayUse(kind, n)
  BY <1>3, <1>6 DEF Listed
<1> QED
  BY <1>1, <1>4, <1>5, <1>6

LEMMA BeginHolds == ASSUME RouterInv, NEW c \in Calls, NEW kind, Begin(c, kind) PROVE RouterInv'
<1>1. PICK chain \in Chains(kind) : Goes(c, [NotCalled EXCEPT !.pc = "next", !.kind = kind, !.chain = chain])
  BY DEF Begin
<1>2. /\ call[c].pc = "idle" /\ kind \in Kinds \ {"test"} /\ rlog' = [rlog EXCEPT !.entitled[c] = Entitled]
      /\ UNCHANGED <<rscene, keys>>
  BY DEF Begin, Is, RouterInv, RouterScene
<1> DEFINE t == [NotCalled EXCEPT !.pc = "next", !.kind = kind, !.chain = chain]
<1>3. t \in CallRow /\ t.pc = "next" /\ t.kind = kind /\ t.chain = chain /\ t.chunks = 0
  <2>1. chain \in Seq(Models)
    BY ChainIs
  <2> QED
    BY <1>2, <2>1 DEF NotCalled, CallRow, Active
<1> HIDE DEF t
<1>4. call[c] \in CallRow /\ CallFits(call[c], rlog, c, keys.own) /\ rlog \in Log
  BY CallOf
<1>5. /\ rlog' \in Log /\ \A d \in Calls \ {c} : SameLog(rlog', rlog, d)
      /\ rlog'.entitled[c] = Entitled /\ rlog'.lost[c] = rlog.lost[c] /\ rlog'.spoke[c] = rlog.spoke[c] /\ rlog'.tried[c] = rlog.tried[c]
      /\ rlog'.ledger[c] = rlog.ledger[c] /\ rlog'.slips[c] = rlog.slips[c]
  <2>1. Entitled \in SUBSET Models
    BY DEF Entitled
  <2> QED
    BY <1>2, <1>4, <2>1 DEF Log, SameLog
<1>6. PaidFor(t, rlog'.entitled[c], rlog'.lost[c], keys.own)
  <2>1. kind # "test"
    BY <1>2
  <2>2. rlog'.entitled[c] = Entitled
    BY <1>5
  <2> SUFFICES ASSUME kind # "request", NEW m \in Models, Listed(m, chain)
               PROVE  m \in Entitled \/ Provider[m] \in keys.own
    BY <1>3, <2>1, <2>2 DEF PaidFor, Active
  <2>3. MayUse(kind, m)
    BY ChainIs
  <2> QED
    BY <2>3 DEF MayUse, Entitled
<1>7. Spoken(t, rlog'.spoke[c])
  BY <1>2, <1>3, <1>4, <1>5 DEF CallFits, Spoken, CallRow
<1>8. Counted(t, rlog'.tried[c], rlog'.ledger[c] + rlog'.slips[c])
  BY <1>2, <1>3, <1>4, <1>5 DEF CallFits, Counted
<1>9. CallFits(t, rlog', c, keys.own)
  BY <1>6, <1>7, <1>8 DEF CallFits
<1> QED
  BY <1>1, <1>2, <1>3, <1>5, <1>9, CallGoes DEF t

LEMMA TestHolds == ASSUME RouterInv, NEW c \in Calls, NEW m \in Models, TestModel(c, m) PROVE RouterInv'
<1> DEFINE t == [NotCalled EXCEPT !.pc = "next", !.kind = "test", !.chain = <<m>>]
<1>1. /\ Goes(c, t) /\ call[c].pc = "idle" /\ rlog' = [rlog EXCEPT !.entitled[c] = Models]
      /\ UNCHANGED <<rscene, keys>>
  BY DEF TestModel, Is
<1>2. t \in CallRow /\ t.pc = "next" /\ t.kind = "test" /\ t.chain = <<m>> /\ t.chunks = 0
  <2>1. <<m>> \in Seq(Models)
    OBVIOUS
  <2> QED
    BY <2>1 DEF NotCalled, CallRow, Active, Kinds
<1> HIDE DEF t
<1>3. call[c] \in CallRow /\ CallFits(call[c], rlog, c, keys.own) /\ rlog \in Log
  BY CallOf
<1>4. /\ rlog' \in Log /\ \A d \in Calls \ {c} : SameLog(rlog', rlog, d)
      /\ rlog'.entitled[c] = Models
      /\ rlog'.spoke[c] = rlog.spoke[c] /\ rlog'.tried[c] = rlog.tried[c]
      /\ rlog'.ledger[c] = rlog.ledger[c] /\ rlog'.slips[c] = rlog.slips[c]
  BY <1>1, <1>3 DEF Log, SameLog
<1>5. PaidFor(t, rlog'.entitled[c], rlog'.lost[c], keys.own)
  <2>1. t.pc = "next"
    BY <1>2
  <2>2. \A n \in Models : n \in rlog'.entitled[c]
    BY <1>4
  <2> QED
    BY <2>1, <2>2 DEF PaidFor, Active
<1>6. Spoken(t, rlog'.spoke[c])
  BY <1>1, <1>2, <1>3, <1>4 DEF CallFits, Spoken
<1>7. Counted(t, rlog'.tried[c], rlog'.ledger[c] + rlog'.slips[c])
  BY <1>1, <1>2, <1>3, <1>4 DEF CallFits, Counted
<1>8. CallFits(t, rlog', c, keys.own)
  BY <1>5, <1>6, <1>7 DEF CallFits
<1> QED
  BY <1>1, <1>2, <1>4, <1>8, CallGoes

\* The models still to try are among those there were.
LEMMA NextIs ==
    ASSUME NEW c, call[c] \in CallRow, call[c].chain # <<>>
    PROVE  /\ On(c) \in Models /\ Tail(call[c].chain) \in Seq(Models) /\ Listed(On(c), call[c].chain)
           /\ \A m : Listed(m, Tail(call[c].chain)) => Listed(m, call[c].chain)
<1>1. call[c].chain \in Seq(Models)
  BY DEF CallRow
<1>2. PICK s : s = call[c].chain
  OBVIOUS
<1>3. s \in Seq(Models) /\ s # <<>>
  BY <1>1, <1>2
<1>4. Head(s) \in Models /\ Tail(s) \in Seq(Models) /\ Head(s) = s[1] /\ 1 \in 1..Len(s)
  BY <1>3
<1>5. ASSUME NEW m, Listed(m, Tail(s)) PROVE Listed(m, s)
  <2>1. PICK k \in 1..Len(Tail(s)) : Tail(s)[k] = m
    BY <1>5 DEF Listed
  <2>2. k + 1 \in 1..Len(s) /\ s[k + 1] = m
    BY <1>3, <2>1
  <2> QED
    BY <2>2 DEF Listed
<1>6. Listed(Head(s), s)
  BY <1>4 DEF Listed
<1> QED
  BY <1>2, <1>4, <1>5, <1>6 DEF On

LEMMA TakeKeyHolds == ASSUME RouterInv, NEW c \in Calls, TakeKey(c) PROVE RouterInv'
<1>1. call[c].pc = "next" /\ UNCHANGED <<rscene, keys>>
  BY DEF TakeKey, Is
<1>2. /\ call[c] \in CallRow /\ CallFits(call[c], rlog, c, keys.own) /\ rlog \in Log
      /\ call \in [Calls -> CallRow]
  BY CallOf DEF RouterInv
<1>3. CASE call[c].chain = <<>> \/ (call[c].stale /\ ~Present(c))
  <2>1. Goes(c, [NotCalled EXCEPT !.pc = "done"])
    BY <1>3 DEF TakeKey
  <2>2. call'[c].pc = "done"
    BY <1>2, <2>1, DoneIs DEF Goes
  <2>3. rlog' = rlog
    BY <2>2 DEF TakeKey
  <2>4. rlog.tried[c] = rlog.ledger[c] + rlog.slips[c] /\ \A d \in Calls : SameLog(rlog, rlog, d)
    BY <1>1, <1>2 DEF CallFits, Counted, SameLog
  <2> QED
    BY <1>1, <1>2, <2>1, <2>3, <2>4, DoneIs, CallEnds
<1>4. CASE ~(call[c].chain = <<>> \/ (call[c].stale /\ ~Present(c)))
  <2>1. PICK pc, src : /\ pc = IF Streams(c) THEN "calling" ELSE "slot"
                       /\ src = KeyFor(c, Provider[On(c)])
    OBVIOUS
  <2> DEFINE t == [call[c] EXCEPT !.pc = pc, !.src = src, !.chunks = 0]
  <2>2. Goes(c, t)
    BY <1>4, <2>1 DEF TakeKey
  <2>3. src \in {"request", "byok", "platform", "env", "none"} /\ pc \in {"calling", "slot"}
    BY <2>1 DEF KeyFor
  <2>4. /\ t \in CallRow /\ t.pc = pc /\ t.src = src /\ t.chunks = 0 /\ t.kind = call[c].kind
        /\ t.chain = call[c].chain
    BY <1>2, <2>3 DEF CallRow, Active
  <2> HIDE DEF t
  <2>5. call'[c].pc = pc
    BY <1>2, <2>2, <2>4 DEF Goes
  <2>6. rlog' = IF pc = "calling" THEN [rlog EXCEPT !.tried[c] = @ + 1] ELSE rlog
    BY <2>5 DEF TakeKey
  <2>7. /\ rlog' \in Log /\ \A d \in Calls \ {c} : SameLog(rlog', rlog, d)
        /\ rlog'.entitled[c] = rlog.entitled[c] /\ rlog'.lost[c] = rlog.lost[c] /\ rlog'.spoke[c] = rlog.spoke[c]
        /\ rlog'.ledger[c] = rlog.ledger[c] /\ rlog'.slips[c] = rlog.slips[c]
        /\ pc = "calling" => rlog'.tried[c] = rlog.tried[c] + 1
        /\ pc = "slot" => rlog'.tried[c] = rlog.tried[c]
    <3>1. CASE pc = "calling"
      <4>1. Tries(rlog', rlog, c)
        BY <2>6, <3>1 DEF Tries
      <4> QED
        BY <1>2, <3>1, <4>1, LogTried
    <3>2. CASE pc = "slot"
      BY <1>2, <2>6, <3>2 DEF SameLog
    <3> QED
      BY <2>3, <3>1, <3>2
  <2>8. On(c) \in Models /\ Listed(On(c), call[c].chain) /\ call[c].chain # <<>>
    BY <1>2, <1>4, NextIs
  <2>9. src \in {"platform", "env"} =>
            /\ call[c].kind # "request"
            /\ Provider[On(c)] \notin keys.own \/ call[c].kind = "test"
    BY <2>1 DEF KeyFor
  <2>10. PaidFor(t, rlog'.entitled[c], rlog'.lost[c], keys.own)
    <3>1. PaidFor(call[c], rlog.entitled[c], rlog.lost[c], keys.own)
      BY <1>2 DEF CallFits
    <3>2. src \in {"platform", "env"} => On(c) \in rlog.entitled[c] \/ Provider[On(c)] \in rlog.lost[c]
      BY <1>1, <2>8, <2>9, <3>1 DEF PaidFor, Active
    <3> QED
      BY <1>1, <2>3, <2>4, <2>7, <2>8, <3>1, <3>2 DEF PaidFor, Active, On
  <2>11. Spoken(t, rlog'.spoke[c])
    <3>1. call[c].chunks \in Nat /\ Spoken(call[c], rlog.spoke[c])
      BY <1>2 DEF CallRow, CallFits
    <3>2. rlog.spoke[c] = {}
      BY <1>1, <3>1 DEF Spoken, Active
    <3> QED
      BY <2>4, <2>7, <3>2 DEF Spoken
  <2>12. Counted(t, rlog'.tried[c], rlog'.ledger[c] + rlog'.slips[c])
    <3>1. rlog.tried[c] = rlog.ledger[c] + rlog.slips[c]
      BY <1>1, <1>2 DEF CallFits, Counted
    <3>2. CASE pc = "calling"
      BY <2>4, <2>7, <3>1, <3>2 DEF Counted
    <3>3. CASE pc = "slot"
      BY <2>4, <2>7, <3>1, <3>3 DEF Counted
    <3> QED
      BY <2>3, <3>2, <3>3
  <2>13. CallFits(t, rlog', c, keys.own)
    BY <2>10, <2>11, <2>12 DEF CallFits
  <2> QED
    BY <1>1, <2>2, <2>4, <2>7, <2>13, CallGoes
<1> QED
  BY <1>3, <1>4

LEMMA SameLogs == \A log, d : SameLog(log, log, d)
BY DEF SameLog

\* A call that has its slot, or does without, is out.
LEMMA GoesOut ==
    ASSUME RouterInv, NEW c \in Calls, call[c].pc \in {"slot", "enter"}, NEW t \in CallRow, Goes(c, t),
           t.pc = "calling", t.chain = call[c].chain, t.kind = call[c].kind, t.src = call[c].src,
           t.chunks = call[c].chunks, Tries(rlog', rlog, c), UNCHANGED <<rscene, keys>>
    PROVE  RouterInv'
<1>1. call[c] \in CallRow /\ CallFits(call[c], rlog, c, keys.own) /\ rlog \in Log
  BY CallOf
<1>2. /\ rlog' \in Log /\ \A d \in Calls \ {c} : SameLog(rlog', rlog, d)
      /\ rlog'.tried[c] = rlog.tried[c] + 1 /\ rlog'.ledger[c] = rlog.ledger[c] /\ rlog'.slips[c] = rlog.slips[c]
      /\ rlog'.entitled[c] = rlog.entitled[c] /\ rlog'.lost[c] = rlog.lost[c] /\ rlog'.spoke[c] = rlog.spoke[c]
  BY <1>1, LogTried
<1>3. PaidFor(t, rlog'.entitled[c], rlog'.lost[c], keys.own)
  BY <1>1, <1>2 DEF CallFits, PaidFor, Active
<1>4. Spoken(t, rlog'.spoke[c])
  BY <1>1, <1>2 DEF CallFits, Spoken, Active
<1>5. Counted(t, rlog'.tried[c], rlog'.ledger[c] + rlog'.slips[c])
  BY <1>1, <1>2 DEF CallFits, Counted
<1>6. CallFits(t, rlog', c, keys.own)
  BY <1>3, <1>4, <1>5 DEF CallFits
<1> QED
  BY <1>2, <1>6, CallGoes

\* A call goes on without a try, and nothing is noted.
LEMMA MovesOn ==
    ASSUME RouterInv, NEW c \in Calls, NEW t \in CallRow, Goes(c, t),
           \/ call[c].pc = "slot" /\ t.pc = "enter"
           \/ call[c].pc = "calling" /\ call[c].kind \notin {"stream", "capped"} /\ t.pc \in {"good", "bad"},
           t.chain = call[c].chain, t.kind = call[c].kind, t.src = call[c].src, t.chunks = call[c].chunks,
           rlog' = rlog, UNCHANGED <<rscene, keys>>
    PROVE  RouterInv'
<1>1. call[c] \in CallRow /\ CallFits(call[c], rlog, c, keys.own) /\ rlog \in Log
  BY CallOf
<1>2. PaidFor(t, rlog.entitled[c], rlog.lost[c], keys.own)
  BY <1>1 DEF CallFits, PaidFor, Active
<1>3. Spoken(t, rlog.spoke[c])
  BY <1>1 DEF CallFits, Spoken, Active
<1>4. Counted(t, rlog.tried[c], rlog.ledger[c] + rlog.slips[c])
  BY <1>1 DEF CallFits, Counted
<1>5. CallFits(t, rlog', c, keys.own)
  BY <1>2, <1>3, <1>4 DEF CallFits
<1> QED
  BY <1>1, <1>5, SameLogs, CallGoes

LEMMA SlotHolds ==
    ASSUME RouterInv, NEW c \in Calls, FindSlot(c) \/ EnterSlot(c) \/ Answers(c) \/ \E kind \in rscene.errors : Raises(c, kind)
    PROVE  RouterInv'
<1>1. call[c] \in CallRow /\ UNCHANGED <<rscene, keys>>
  BY CallOf DEF FindSlot, EnterSlot, Answers, Raises
<1>2. CASE FindSlot(c)
  <2>1. call[c].pc = "slot"
    BY <1>2 DEF FindSlot, Is
  <2>2. CASE Goes(c, [call[c] EXCEPT !.pc = "enter"]) /\ UNCHANGED rlog
    <3> DEFINE t == [call[c] EXCEPT !.pc = "enter"]
    <3>1. /\ t \in CallRow /\ t.pc = "enter" /\ t.chain = call[c].chain /\ t.kind = call[c].kind
          /\ t.src = call[c].src /\ t.chunks = call[c].chunks
      BY <1>1 DEF CallRow, Active
    <3> HIDE DEF t
    <3> QED
      BY <1>1, <2>1, <2>2, <3>1, MovesOn DEF t
  <2>3. CASE Goes(c, [call[c] EXCEPT !.pc = "calling"]) /\ rlog' = [rlog EXCEPT !.tried[c] = @ + 1]
    <3> DEFINE t == [call[c] EXCEPT !.pc = "calling"]
    <3>1. /\ t \in CallRow /\ t.pc = "calling" /\ t.chain = call[c].chain /\ t.kind = call[c].kind
          /\ t.src = call[c].src /\ t.chunks = call[c].chunks
      BY <1>1 DEF CallRow, Active
    <3>2. Goes(c, t) /\ Tries(rlog', rlog, c)
      BY <2>3 DEF Tries
    <3> HIDE DEF t
    <3> QED
      BY <1>1, <2>1, <3>1, <3>2, GoesOut
  <2> QED
    BY <1>2, <2>2, <2>3 DEF FindSlot
<1>3. CASE EnterSlot(c)
  <2> DEFINE t == [call[c] EXCEPT !.pc = "calling", !.slot = TRUE]
  <2>1. /\ t \in CallRow /\ t.pc = "calling" /\ t.chain = call[c].chain /\ t.kind = call[c].kind
        /\ t.src = call[c].src /\ t.chunks = call[c].chunks
    BY <1>1 DEF CallRow, Active
  <2>2. Goes(c, t) /\ Tries(rlog', rlog, c) /\ call[c].pc = "enter"
    BY <1>3 DEF EnterSlot, Tries, Is
  <2> HIDE DEF t
  <2> QED
    BY <1>1, <2>1, <2>2, GoesOut
<1>4. CASE Answers(c)
  <2> DEFINE t == [call[c] EXCEPT !.pc = "good", !.slot = FALSE]
  <2>1. /\ t \in CallRow /\ t.pc = "good" /\ t.chain = call[c].chain /\ t.kind = call[c].kind
        /\ t.src = call[c].src /\ t.chunks = call[c].chunks
    BY <1>1 DEF CallRow, Active
  <2>2. Goes(c, t) /\ call[c].pc = "calling" /\ call[c].kind \notin {"stream", "capped"} /\ rlog' = rlog
    BY <1>4 DEF Answers, Is, Streams
  <2> HIDE DEF t
  <2> QED
    BY <1>1, <2>1, <2>2, MovesOn
<1>5. ASSUME NEW kind \in rscene.errors, Raises(c, kind) PROVE RouterInv'
  <2>1. PICK error : error = IF kind = "bug" THEN "transient" ELSE kind
    OBVIOUS
  <2> DEFINE t == [call[c] EXCEPT !.pc = "bad", !.error = error]
  <2>2. error \in {"rate_limit", "broken", "bad_reply", "transient"}
    <3>1. kind \in {"rate_limit", "broken", "bad_reply", "transient", "bug"}
      BY <1>5 DEF Raises, RouterInv, RouterScene
    <3> QED
      BY <2>1, <3>1
  <2>3. /\ t \in CallRow /\ t.pc = "bad" /\ t.chain = call[c].chain /\ t.kind = call[c].kind
        /\ t.src = call[c].src /\ t.chunks = call[c].chunks
    BY <1>1, <2>2 DEF CallRow, Active
  <2>4. Goes(c, t) /\ call[c].pc = "calling" /\ call[c].kind \notin {"stream", "capped"} /\ rlog' = rlog
    BY <1>5, <2>1 DEF Raises, Is, Streams
  <2> HIDE DEF t
  <2> QED
    BY <1>1, <2>3, <2>4, MovesOn
<1> QED
  BY <1>2, <1>3, <1>4, <1>5

LEMMA OverHolds ==
    ASSUME RouterInv, NEW c \in Calls,
           \/ Settle(c) \/ RowGone(c) \/ Dies(c)
           \/ \E cancelled \in BOOLEAN : StreamEnds(c, cancelled)
    PROVE  RouterInv'
<1>1. /\ call[c] \in CallRow /\ CallFits(call[c], rlog, c, keys.own) /\ rlog \in Log
      /\ UNCHANGED <<rscene, keys>>
  BY CallOf DEF Settle, RowGone, Dies, StreamEnds
<1>2. CASE Dies(c)
  <2>1. rlog' = rlog /\ Goes(c, [NotCalled EXCEPT !.pc = "dead", !.slot = call[c].slot]) /\ call[c].slot \in BOOLEAN
    BY <1>1, <1>2 DEF Dies, CallRow
  <2>2. PICK t \in CallRow : t.pc = "dead" /\ Goes(c, t)
    BY <2>1, DoneIs
  <2> QED
    BY <1>1, <2>1, <2>2, SameLogs, CallEnds
<1>3. CASE Settle(c) \/ RowGone(c) \/ \E cancelled \in BOOLEAN : StreamEnds(c, cancelled)
  <2>1. call[c].pc \in {"calling", "good", "bad"} /\ Notes(rlog', rlog, c) /\ Goes(c, [NotCalled EXCEPT !.pc = "done"])
    BY <1>3 DEF Settle, RowGone, StreamEnds, Is, Ledger, Notes
  <2>2. PICK t \in CallRow : t.pc = "done" /\ Goes(c, t)
    BY <2>1, DoneIs
  <2>3. /\ rlog' \in Log /\ \A d \in Calls \ {c} : SameLog(rlog', rlog, d)
        /\ rlog'.tried[c] = rlog.tried[c] /\ rlog'.spoke[c] = rlog.spoke[c]
        /\ rlog'.ledger[c] + rlog'.slips[c] = rlog.ledger[c] + rlog.slips[c] + 1
    BY <1>1, <2>1, LogNoted
  <2>4. rlog.tried[c] = rlog.ledger[c] + rlog.slips[c] + 1
    BY <1>1, <2>1 DEF CallFits, Counted
  <2> QED
    BY <1>1, <2>2, <2>3, <2>4, CallEnds
<1> QED
  BY <1>2, <1>3

\* The model failed, it is noted, and the next one is tried.
LEMMA TriesNext ==
    ASSUME RouterInv, NEW c \in Calls, NEW t \in CallRow, Goes(c, t), call[c].pc \in {"calling", "bad"},
           call[c].chunks = 0, t.pc = "next", t.chain = Tail(call[c].chain), t.kind = call[c].kind, t.chunks = 0,
           Notes(rlog', rlog, c), UNCHANGED <<rscene, keys>>
    PROVE  RouterInv'
<1>1. call[c] \in CallRow /\ CallFits(call[c], rlog, c, keys.own) /\ rlog \in Log
  BY CallOf
<1>2. /\ rlog' \in Log /\ \A d \in Calls \ {c} : SameLog(rlog', rlog, d)
      /\ rlog'.tried[c] = rlog.tried[c] /\ rlog'.spoke[c] = rlog.spoke[c]
      /\ rlog'.ledger[c] + rlog'.slips[c] = rlog.ledger[c] + rlog.slips[c] + 1
      /\ rlog'.entitled[c] = rlog.entitled[c] /\ rlog'.lost[c] = rlog.lost[c]
  BY <1>1, LogNoted
<1>3. PaidFor(call[c], rlog.entitled[c], rlog.lost[c], keys.own) /\ call[c].chain # <<>>
  BY <1>1 DEF CallFits, PaidFor, Active
<1>4. \A m : Listed(m, Tail(call[c].chain)) => Listed(m, call[c].chain)
  BY <1>1, <1>3, NextIs
<1>5. PaidFor(t, rlog'.entitled[c], rlog'.lost[c], keys.own)
  BY <1>2, <1>3, <1>4 DEF PaidFor, Active
<1>6. Spoken(t, rlog'.spoke[c])
  BY <1>1, <1>2 DEF CallFits, Spoken, Active
<1>7. Counted(t, rlog'.tried[c], rlog'.ledger[c] + rlog'.slips[c])
  BY <1>1, <1>2 DEF CallFits, Counted
<1>8. CallFits(t, rlog', c, keys.own)
  BY <1>5, <1>6, <1>7 DEF CallFits
<1> QED
  BY <1>2, <1>8, CallGoes

LEMMA NextModelHolds == ASSUME RouterInv, NEW c \in Calls, NextModel(c) PROVE RouterInv'
<1> DEFINE t == [call[c] EXCEPT !.pc = "next", !.chain = Tail(@), !.slot = FALSE, !.stale = TRUE]
<1>1. call[c].pc = "bad" /\ Goes(c, t) /\ Notes(rlog', rlog, c) /\ UNCHANGED <<rscene, keys>>
  BY DEF NextModel, Is, Ledger, Notes
<1>2. call[c] \in CallRow /\ CallFits(call[c], rlog, c, keys.own)
  BY CallOf
<1>3. call[c].chain # <<>> /\ call[c].chunks = 0
  BY <1>1, <1>2 DEF CallFits, PaidFor, Spoken, Active, CallRow
<1>4. Tail(call[c].chain) \in Seq(Models)
  BY <1>2, <1>3, NextIs
<1>5. t \in CallRow /\ t.pc = "next" /\ t.chain = Tail(call[c].chain) /\ t.kind = call[c].kind /\ t.chunks = 0
  BY <1>2, <1>3, <1>4 DEF CallRow, Active
<1> HIDE DEF t
<1> QED
  BY <1>1, <1>3, <1>5, TriesNext

LEMMA StreamSkips ==
    ASSUME RouterInv, NEW c \in Calls, call[c].pc = "calling", NEW stale \in BOOLEAN, Goes(c, Skipped(c, stale)),
           Notes(rlog', rlog, c), UNCHANGED <<rscene, keys>>
    PROVE  RouterInv'
<1>1. call[c] \in CallRow /\ CallFits(call[c], rlog, c, keys.own) /\ rlog \in Log
  BY CallOf
<1>2. PICK late : late = (AfterFailure(c).stale \/ stale)
  OBVIOUS
<1>3. Goes(c, [AfterFailure(c) EXCEPT !.stale = late]) /\ late \in BOOLEAN
  BY <1>2 DEF Skipped
<1>4. CASE call[c].chunks > 0
  <2> DEFINE t == [[NotCalled EXCEPT !.pc = "done"] EXCEPT !.stale = late]
  <2>1. t \in CallRow /\ t.pc = "done"
    BY <1>3, DoneIs DEF CallRow, NotCalled
  <2>2. Goes(c, t)
    BY <1>3, <1>4 DEF AfterFailure
  <2> HIDE DEF t
  <2>3. /\ rlog' \in Log /\ \A d \in Calls \ {c} : SameLog(rlog', rlog, d)
        /\ rlog'.tried[c] = rlog.tried[c] /\ rlog'.spoke[c] = rlog.spoke[c]
        /\ rlog'.ledger[c] + rlog'.slips[c] = rlog.ledger[c] + rlog.slips[c] + 1
    BY <1>1, LogNoted
  <2>4. rlog.tried[c] = rlog.ledger[c] + rlog.slips[c] + 1
    BY <1>1 DEF CallFits, Counted
  <2> QED
    BY <2>1, <2>2, <2>3, <2>4, CallEnds
<1>5. CASE ~(call[c].chunks > 0)
  <2> DEFINE t == [[call[c] EXCEPT !.pc = "next", !.chain = Tail(@)] EXCEPT !.stale = late]
  <2>1. call[c].chain # <<>> /\ call[c].chunks = 0
    BY <1>1, <1>5 DEF CallFits, PaidFor, Active, CallRow
  <2>2. Tail(call[c].chain) \in Seq(Models)
    BY <1>1, <2>1, NextIs
  <2>3. t \in CallRow /\ t.pc = "next" /\ t.chain = Tail(call[c].chain) /\ t.kind = call[c].kind /\ t.chunks = 0
    BY <1>1, <1>3, <2>1, <2>2 DEF CallRow, Active
  <2>4. Goes(c, t)
    BY <1>3, <1>5 DEF AfterFailure
  <2> HIDE DEF t
  <2> QED
    BY <2>1, <2>3, <2>4, TriesNext
<1> QED
  BY <1>4, <1>5

LEMMA StreamHolds ==
    ASSUME RouterInv, NEW c \in Calls, StreamBreaks(c) \/ StreamEmpty(c) \/ \E kind \in rscene.errors : StreamFails(c, kind)
    PROVE  RouterInv'
<1>1. PICK stale \in BOOLEAN : Goes(c, Skipped(c, stale))
  BY DEF StreamBreaks, StreamEmpty, StreamFails
<1>2. call[c].pc = "calling" /\ Notes(rlog', rlog, c) /\ UNCHANGED <<rscene, keys>>
  BY DEF StreamBreaks, StreamEmpty, StreamFails, Is, Ledger, Notes
<1> QED
  BY <1>1, <1>2, StreamSkips

LEMMA ChunkHolds == ASSUME RouterInv, NEW c \in Calls, Chunk(c) PROVE RouterInv'
<1> DEFINE t == [call[c] EXCEPT !.chunks = @ + 1]
<1>1. /\ call[c].pc = "calling" /\ call[c].kind \in {"stream", "capped"} /\ Goes(c, t)
      /\ rlog' = [rlog EXCEPT !.spoke[c] = @ \cup {On(c)}] /\ UNCHANGED <<rscene, keys>>
  BY DEF Chunk, Is, Streams
<1>2. call[c] \in CallRow /\ CallFits(call[c], rlog, c, keys.own) /\ rlog \in Log
  BY CallOf
<1>3. /\ t \in CallRow /\ t.pc = "calling" /\ t.chain = call[c].chain /\ t.kind = call[c].kind
      /\ t.src = call[c].src /\ t.chunks > 0
  BY <1>1, <1>2 DEF CallRow
<1> HIDE DEF t
<1>4. On(c) \in Models
  BY <1>1, <1>2, NextIs DEF CallFits, PaidFor, Active
<1>5. /\ rlog' \in Log /\ \A d \in Calls \ {c} : SameLog(rlog', rlog, d)
      /\ rlog'.tried[c] = rlog.tried[c] /\ rlog'.ledger[c] = rlog.ledger[c] /\ rlog'.slips[c] = rlog.slips[c]
      /\ rlog'.entitled[c] = rlog.entitled[c] /\ rlog'.lost[c] = rlog.lost[c]
      /\ rlog'.spoke[c] = rlog.spoke[c] \cup {On(c)}
  BY <1>1, <1>2, <1>4 DEF Log, SameLog
<1>6. PaidFor(t, rlog'.entitled[c], rlog'.lost[c], keys.own)
  BY <1>1, <1>2, <1>3, <1>5 DEF CallFits, PaidFor, Active
<1>7. Spoken(t, rlog'.spoke[c])
  <2>1. rlog.spoke[c] \subseteq {On(c)}
    <3>1. call[c].chunks \in Nat /\ Spoken(call[c], rlog.spoke[c])
      BY <1>2 DEF CallRow, CallFits
    <3> QED
      BY <1>1, <3>1 DEF Spoken, Active, On
  <2>2. rlog'.spoke[c] \subseteq {On(c)} /\ On(c) = Head(t.chain)
    BY <1>3, <1>5, <2>1 DEF On
  <2>3. ~(t.chunks = 0)
    BY <1>3
  <2> QED
    BY <1>1, <1>3, <2>2, <2>3 DEF Spoken
<1>8. Counted(t, rlog'.tried[c], rlog'.ledger[c] + rlog'.slips[c])
  BY <1>1, <1>2, <1>3, <1>5 DEF CallFits, Counted
<1>9. CallFits(t, rlog', c, keys.own)
  BY <1>6, <1>7, <1>8 DEF CallFits
<1> QED
  BY <1>1, <1>3, <1>5, <1>9, CallGoes

\* What is done elsewhere, a call finds as it was, but for the caller's keys.
LEMMA Elsewhere ==
    ASSUME RouterInv, UNCHANGED <<rscene, call>>, keys' \in [own : SUBSET Providers, platform : SUBSET Providers],
           keys'.own = keys.own, rlog' \in Log, \A d \in Calls : SameLog(rlog', rlog, d)
    PROVE  RouterInv'
<1>1. \A d \in Calls : CallFits(call[d], rlog', d, keys.own)
  BY DEF RouterInv, CallFits, SameLog
<1> QED
  BY <1>1 DEF RouterInv

LEMMA RouterEdits == ASSUME RouterInv, Tick \/ Editing PROVE RouterInv'
<1>1. rlog \in Log /\ keys \in [own : SUBSET Providers, platform : SUBSET Providers]
  BY DEF RouterInv
<1>2. ASSUME UNCHANGED <<rscene, call, keys>>,
             rlog' = [rlog EXCEPT !.edits = @ + 1] \/ rlog' = [rlog EXCEPT !.ticks = @ + 1]
      PROVE  RouterInv'
  <2>1. rlog' \in Log /\ \A d \in Calls : SameLog(rlog', rlog, d)
    BY <1>1, <1>2 DEF Log, SameLog
  <2> QED
    BY <1>1, <1>2, <2>1, Elsewhere
<1>3. ASSUME NEW p \in Providers, EditPlatformKey(p) PROVE RouterInv'
  <2>1. /\ rlog' = [rlog EXCEPT !.edits = @ + 1] /\ UNCHANGED <<rscene, call>>
        /\ keys' = [keys EXCEPT !.platform = IF p \in @ THEN @ \ {p} ELSE @ \cup {p}]
    BY <1>3 DEF EditPlatformKey, Edited
  <2>2. rlog' \in Log /\ \A d \in Calls : SameLog(rlog', rlog, d)
    BY <1>1, <2>1 DEF Log, SameLog
  <2>3. keys' \in [own : SUBSET Providers, platform : SUBSET Providers] /\ keys'.own = keys.own
    BY <1>1, <2>1
  <2> QED
    BY <2>1, <2>2, <2>3, Elsewhere
<1>4. ASSUME NEW p \in Providers, EditOwnKey(p) PROVE RouterInv'
  <2> DEFINE lost == [c \in Calls |-> IF p \in keys.own /\ call[c].pc \notin {"idle", "done"}
                                      THEN rlog.lost[c] \cup {p} ELSE rlog.lost[c]]
  <2>1. /\ rlog' = [rlog EXCEPT !.edits = @ + 1, !.lost = lost] /\ UNCHANGED <<rscene, call>>
        /\ keys' = [keys EXCEPT !.own = IF p \in @ THEN @ \ {p} ELSE @ \cup {p}]
    BY <1>4 DEF EditOwnKey
  <2>2. \A c \in Calls : /\ rlog.lost[c] \subseteq lost[c]
                         /\ call[c].pc \in Active /\ p \in keys.own => p \in lost[c]
    BY DEF Active
  <2>3. lost \in [Calls -> SUBSET Providers]
    BY <1>1 DEF Log
  <2> HIDE DEF lost
  <2>4. /\ rlog' \in Log /\ rlog'.lost = lost /\ rlog'.entitled = rlog.entitled /\ rlog'.spoke = rlog.spoke
        /\ rlog'.tried = rlog.tried /\ rlog'.ledger = rlog.ledger /\ rlog'.slips = rlog.slips
    <3>1. rlog' = [rlog EXCEPT !.edits = @ + 1, !.lost = lost]
      BY <2>1
    <3>2. rlog.edits + 1 \in Nat
      BY <1>1 DEF Log
    <3> QED
      BY <1>1, <2>3, <3>1, <3>2 DEF Log
  <2>5. /\ keys' \in [own : SUBSET Providers, platform : SUBSET Providers]
        /\ \A n \in keys.own : n \in keys'.own \/ (n = p /\ p \in keys.own)
    BY <1>1, <2>1
  <2>6. ASSUME NEW c \in Calls PROVE CallFits(call[c], rlog', c, keys'.own)
    <3>1. PaidFor(call[c], rlog.entitled[c], rlog.lost[c], keys.own)
      BY DEF RouterInv, CallFits
    <3>2. /\ rlog.lost[c] \subseteq lost[c]
          /\ call[c].pc \in Active => \A n \in keys.own \cup rlog.lost[c] : n \in keys'.own \cup lost[c]
      BY <2>2, <2>5
    <3>3. PaidFor(call[c], rlog.entitled[c], lost[c], keys'.own)
      BY <3>1, <3>2 DEF PaidFor
    <3> QED
      BY <2>4, <3>3 DEF RouterInv, CallFits
  <2> QED
    BY <2>1, <2>4, <2>5, <2>6 DEF RouterInv
<1>5. CASE Tick
  BY <1>2, <1>5 DEF Tick
<1>6. CASE Editing
  BY <1>2, <1>3, <1>4, <1>6
  DEF Editing, Edited, CreateModel, EditModel, DeleteModel, SetDefault, SetPreference, SetRights
<1> QED
  BY <1>5, <1>6

LEMMA RouterStarts == RInit => RouterInv
<1> SUFFICES ASSUME RInit PROVE RouterInv
  OBVIOUS
<1>1. NotCalled \in CallRow /\ NotCalled.pc = "idle" /\ NotCalled.chunks = 0
  <2>1. <<>> \in Seq(Models)
    OBVIOUS
  <2> QED
    BY <2>1 DEF NotCalled, CallRow, Active, Kinds
<1>2. rscene \in RouterScene /\ keys \in [own : SUBSET Providers, platform : SUBSET Providers]
  BY RouterConstants DEF RInit, RouterScene
<1>3. /\ rlog \in Log
      /\ \A c \in Calls : rlog.spoke[c] = {} /\ rlog.tried[c] = 0 /\ rlog.ledger[c] = 0 /\ rlog.slips[c] = 0
  BY DEF RInit, Log
<1>4. call \in [Calls -> CallRow] /\ \A c \in Calls : call[c] = NotCalled
  BY <1>1 DEF RInit
<1>5. ASSUME NEW c \in Calls PROVE CallFits(call[c], rlog, c, keys.own)
  <2>1. call[c].pc = "idle" /\ call[c].chunks = 0
    BY <1>1, <1>4
  <2>2. rlog.spoke[c] = {} /\ rlog.tried[c] = rlog.ledger[c] + rlog.slips[c]
    BY <1>3
  <2> QED
    BY <2>1, <2>2 DEF CallFits, PaidFor, Spoken, Counted, Active
<1> QED
  BY <1>2, <1>3, <1>4, <1>5 DEF RouterInv

LEMMA RouterStep == RouterInv /\ [RNext]_rvars => RouterInv'
<1> SUFFICES ASSUME RouterInv, [RNext]_rvars PROVE RouterInv'
  OBVIOUS
<1>1. ASSUME NEW c \in Calls, CallMoves(c) PROVE RouterInv'
  BY <1>1, TakeKeyHolds, SlotHolds, OverHolds, NextModelHolds, ChunkHolds, StreamHolds DEF CallMoves
<1>2. ASSUME NEW c \in Calls, \E kind \in Kinds : Begin(c, kind) PROVE RouterInv'
  BY <1>2, BeginHolds
<1>3. ASSUME NEW c \in Calls, \E m \in Models : TestModel(c, m) PROVE RouterInv'
  BY <1>3, TestHolds
<1>4. CASE UNCHANGED <<rscene, keys, call, rlog>>
  BY <1>4 DEF RouterInv
<1>5. ASSUME NEW c \in Calls, \E p \in Providers : SlotStale(c, p) PROVE RouterInv'
  BY <1>4, <1>5 DEF SlotStale
<1>6. ASSUME NEW m \in Models, CountersExpire(m) PROVE RouterInv'
  BY <1>4, <1>6 DEF CountersExpire
<1>7. CASE Tick \/ Editing
  BY <1>7, RouterEdits
<1>8. CASE UNCHANGED rvars
  BY <1>4, <1>8 DEF rvars
<1> QED
  BY <1>1, <1>2, <1>3, <1>5, <1>6, <1>7, <1>8 DEF RNext

\* CallsAccounted, for any models, providers, keys, calls and edits
\* (ai_router.py, key_store.py): the key of the platform pays only for what
\* the caller was entitled to, a stream is of one model, and each attempt is
\* ledgered once or is one of the slips.
THEOREM CallsAreAccounted == RSpec => []CallsAccounted
<1>1. RouterInv => CallsAccounted
  <2> SUFFICES ASSUME RouterInv PROVE PlatformPays /\ OneVoice /\ Ledgered
    BY DEF CallsAccounted
  <2>1. PlatformPays
    BY DEF RouterInv, CallFits, PaidFor, PlatformPays, On
  <2>2. OneVoice
    BY OneCounted DEF RouterInv, CallFits, Spoken, OneVoice
  <2>3. Ledgered
    BY DEF RouterInv, CallFits, Counted, Ledgered
  <2> QED
    BY <2>1, <2>2, <2>3
<1> QED
  BY <1>1, RouterStarts, RouterStep, PTL DEF RSpec

----------------------------------------------------------------------------
(***************************************************************************)
(* Types, of each service and then of all of them together.                 *)
(***************************************************************************)

\* The pauses.
BlockRow == [hours : 0..MaxHours, at : Nat, until : Nat]
BlocksWell ==
    /\ BlocksTypeOK
    /\ copy \in [Processes -> [read : BOOLEAN, row : BlockRow]]

LEMMA BlocksAreTyped == BlocksSpec => []BlocksTypeOK
<1>1. BlocksInit => BlocksWell
  BY BlockConstants DEF BlocksInit, BlocksWell, BlocksTypeOK, NoBlock, NoCopy, BlockRow
<1>2. BlocksWell /\ [BlocksNext]_xvars => BlocksWell'
  <2> SUFFICES ASSUME BlocksWell, [BlocksNext]_xvars PROVE BlocksWell'
    OBVIOUS
  <2>1. /\ xscene \in BlockScenes /\ today \in Nat /\ block \in BlockRow
        /\ page \in [Processes -> {"none", "opening"}] /\ copy \in [Processes -> [read : BOOLEAN, row : BlockRow]]
    BY DEF BlocksWell, BlocksTypeOK, BlockRow
  <2>2. MaxHours \in Nat \ {0} /\ NoBlock \in BlockRow /\ NoCopy \in [read : BOOLEAN, row : BlockRow]
    BY BlockConstants DEF NoBlock, NoCopy, BlockRow
  <2>3. Longer \in 0..MaxHours
    <3>1. block.hours \in 0..MaxHours
      BY <2>1 DEF BlockRow
    <3> QED
      BY <2>2, <3>1 DEF Longer, AtMost
  <2>4. ASSUME NEW p \in Processes PROVE Read(p) \in [read : BOOLEAN, row : BlockRow]
    BY <2>1 DEF Read
  <2>5. xscene' = xscene /\ today' \in Nat
    BY <2>1 DEF BlocksNext, DayPasses, StartRun, Record, PageEnds, NoteOk, GivesUp, Clear, CopyExpires, xvars
  <2>6. page' \in [Processes -> {"none", "opening"}]
    BY <2>1 DEF BlocksNext, DayPasses, StartRun, Record, PageEnds, NoteOk, GivesUp, Clear, CopyExpires, xvars
  <2>7. block' \in BlockRow
    <3>1. block' = block \/ block' = NoBlock \/ block' = [hours |-> Longer, at |-> today, until |-> today + Longer]
      BY DEF BlocksNext, DayPasses, StartRun, Record, PageEnds, NoteOk, GivesUp, Clear, CopyExpires, xvars
    <3>2. [hours |-> Longer, at |-> today, until |-> today + Longer] \in BlockRow
      BY <2>1, <2>2, <2>3 DEF BlockRow
    <3> QED
      BY <2>1, <2>2, <3>1, <3>2
  <2>8. copy' \in [Processes -> [read : BOOLEAN, row : BlockRow]]
    <3>1. \/ copy' = copy \/ copy' = [p \in Processes |-> NoCopy]
          \/ \E p \in Processes : copy' = [copy EXCEPT ![p] = NoCopy] \/ copy' = [copy EXCEPT ![p] = Read(p)]
      BY DEF BlocksNext, DayPasses, StartRun, Record, PageEnds, NoteOk, GivesUp, Clear, CopyExpires, Forgotten, xvars
    <3> QED
      BY <2>1, <2>2, <2>4, <3>1
  <2> QED
    BY <2>1, <2>5, <2>6, <2>7, <2>8 DEF BlocksWell, BlocksTypeOK, BlockRow
<1>3. BlocksWell => BlocksTypeOK
  BY DEF BlocksWell
<1> QED
  BY <1>1, <1>2, <1>3, PTL DEF BlocksSpec

\* The bank, with what each filler has read.
Answer == [text : PlanTexts, approved : BOOLEAN, source : {"none", "eeo", "profile", "answer_bank", "ai", "user"}]
Filling(t) == t.ask \subseteq Questions /\ t.base \in [Questions -> Answer]
BankWell ==
    /\ KInv /\ bscene \in BankScenes
    /\ plan \in [Forms -> [Questions -> Answer]] /\ told \subseteq Questions
    /\ \A f \in Fillers : Filling(filler[f])

LEMMA UnplannedIs == Unplanned \in Answer /\ Filling(IdleFiller)
<1>1. Unplanned \in Answer
  BY DEF Unplanned, Answer, PlanTexts
<1> QED
  BY <1>1 DEF IdleFiller, Filling

LEMMA PlannedIs ==
    ASSUME NEW text \in PlanTexts, NEW source \in {"none", "eeo", "profile", "answer_bank", "ai", "user"}, NEW settled \in BOOLEAN
    PROVE  Planned(text, source, settled) \in Answer
<1> DEFINE a == settled /\ text # ""
           from == IF text = "" THEN "none" ELSE source
<1>1. a \in BOOLEAN
  OBVIOUS
<1>2. from \in {"none", "eeo", "profile", "answer_bank", "ai", "user"}
  OBVIOUS
<1>3. Planned(text, source, settled) = [text |-> text, source |-> from, approved |-> a]
  BY DEF Planned
<1> HIDE DEF a, from
<1> QED
  BY <1>1, <1>2, <1>3 DEF Answer

LEMMA KnownAnswerIs ==
    ASSUME BankWell, NEW q \in Questions, NEW fits
    PROVE  KnownAnswer(q, fits) \in Answer
<1>1. "profile" \in PlanTexts /\ TRUE \in BOOLEAN
  BY DEF PlanTexts
<1>2. CASE q \in PrivateQuestions
  BY <1>1, <1>2, PlannedIs DEF KnownAnswer
<1>3. CASE q \notin PrivateQuestions /\ q \in ProfileQuestions
  BY <1>1, <1>3, PlannedIs DEF KnownAnswer
<1>4. CASE q \notin PrivateQuestions \cup ProfileQuestions /\ (Matches(q) = {} \/ ~fits)
  BY <1>4, UnplannedIs DEF KnownAnswer
<1>5. CASE q \notin PrivateQuestions \cup ProfileQuestions /\ ~(Matches(q) = {} \/ ~fits)
  <2> DEFINE n == CHOOSE x \in Matches(q) : TRUE
  <2>1. n \in Matches(q)
    BY <1>5
  <2>2. Matches(q) \subseteq Questions
    BY DEF Matches
  <2>3. bank[n] \in Entry
    BY <2>1, <2>2 DEF BankWell, KInv
  <2>4. bank[n].text \in PlanTexts /\ bank[n].approved \in BOOLEAN
    BY <2>3 DEF Entry, PlanTexts
  <2>5. KnownAnswer(q, fits) = Planned(bank[n].text, "answer_bank", bank[n].approved)
    BY <1>5 DEF KnownAnswer
  <2> HIDE DEF n
  <2> QED
    BY <2>4, <2>5, PlannedIs
<1> QED
  BY <1>2, <1>3, <1>4, <1>5

LEMMA FormRead == ASSUME BankWell, NEW f \in Fillers, ReadForm(f) PROVE BankWell'
<1>1. KInv' /\ UNCHANGED <<bscene, plan>>
  BY ReadFormHolds DEF BankWell, ReadForm
<1>2. PICK form \in bscene.forms, fields \in SUBSET Questions \ {{}}, fits \in {TRUE} \cup (IF "picky" \in bscene.does THEN {FALSE} ELSE {}) :
        LET old == IF form = "page" THEN IdleFiller.base ELSE plan[form]
            fresh == {q \in fields : old[q].source = "none"}
            base == [q \in Questions |-> IF q \in fresh THEN KnownAnswer(q, fits) ELSE old[q]]
        IN /\ form \in Forms \ BrowserForms => \A g \in Fillers : filler[g].form # form
           /\ fresh # {}
           /\ filler' = [filler EXCEPT ![f] = [pc |-> "ask", form |-> form, ask |-> ForAI(fresh, base), base |-> base]]
           /\ told' = told \cup ForAI(fresh, base)
  BY Zenon DEF ReadForm
<1> DEFINE old == IF form = "page" THEN IdleFiller.base ELSE plan[form]
           fresh == {q \in fields : old[q].source = "none"}
           base == [q \in Questions |-> IF q \in fresh THEN KnownAnswer(q, fits) ELSE old[q]]
           t == [pc |-> "ask", form |-> form, ask |-> ForAI(fresh, base), base |-> base]
<1>3. form \in Forms \cup {"page"}
  BY BankConstants DEF BankWell, BankScene
<1>4. old \in [Questions -> Answer]
  BY <1>3, UnplannedIs DEF BankWell, Filling
<1>5. \A q \in Questions : KnownAnswer(q, fits) \in Answer
  BY KnownAnswerIs
<1>6. ForAI(fresh, base) \subseteq Questions
  BY DEF ForAI
<1> HIDE DEF old
<1>7. base \in [Questions -> Answer]
  BY <1>4, <1>5
<1> HIDE DEF base, fresh
<1>8. filler' = [filler EXCEPT ![f] = t] /\ told' = told \cup ForAI(fresh, base)
  BY <1>2 DEF old, fresh, base
<1>9. Filling(t)
  BY <1>6, <1>7 DEF Filling
<1>10. DOMAIN filler = Fillers
  BY DEF BankWell, KInv
<1> HIDE DEF t
<1>11. \A g \in Fillers : Filling(filler'[g])
  <2>1. \A g \in Fillers : filler'[g] = filler[g] \/ filler'[g] = t
    BY <1>8, <1>10
  <2> QED
    BY <1>9, <2>1 DEF BankWell
<1>12. told' \subseteq Questions
  BY <1>6, <1>8 DEF BankWell
<1> QED
  BY <1>1, <1>11, <1>12 DEF BankWell, Filling

LEMMA FormFilled == ASSUME BankWell, NEW f \in Fillers, FillForm(f) PROVE BankWell'
<1>1. KInv' /\ UNCHANGED <<bscene, told>> /\ filler' = [filler EXCEPT ![f] = IdleFiller]
  BY FillFormHolds DEF BankWell, FillForm
<1>2. PICK answered \in SUBSET filler[f].ask : \E text \in DraftTexts :
        plan' = IF filler[f].form = "page" THEN plan
                ELSE [plan EXCEPT ![filler[f].form] = [q \in Questions |->
                         IF q \in answered THEN Planned(text, "ai", FALSE) ELSE filler[f].base[q]]]
  BY DEF FillForm
<1>3. PICK text \in DraftTexts :
        plan' = IF filler[f].form = "page" THEN plan
                ELSE [plan EXCEPT ![filler[f].form] = [q \in Questions |->
                         IF q \in answered THEN Planned(text, "ai", FALSE) ELSE filler[f].base[q]]]
  BY <1>2
<1>4. Planned(text, "ai", FALSE) \in Answer
  <2>1. text \in PlanTexts
    BY DEF PlanTexts, Texts
  <2> QED
    BY <2>1, PlannedIs
<1>5. filler[f].base \in [Questions -> Answer]
  BY DEF BankWell, Filling
<1>6. [q \in Questions |-> IF q \in answered THEN Planned(text, "ai", FALSE) ELSE filler[f].base[q]] \in [Questions -> Answer]
  BY <1>4, <1>5
<1>7. plan' \in [Forms -> [Questions -> Answer]]
  BY <1>3, <1>6 DEF BankWell
<1>8. \A g \in Fillers : Filling(filler'[g])
  <2>1. DOMAIN filler = Fillers
    BY DEF BankWell, KInv
  <2>2. \A g \in Fillers : filler'[g] = filler[g] \/ filler'[g] = IdleFiller
    BY <1>1, <2>1
  <2> QED
    BY <2>2, UnplannedIs DEF BankWell
<1> QED
  BY <1>1, <1>7, <1>8 DEF BankWell, Filling

LEMMA BankStaysTyped == ASSUME BankWell, [BankNext]_bvars PROVE BankWell'
<1>1. ASSUME KInv', UNCHANGED <<bscene, plan, filler, told>> PROVE BankWell'
  BY <1>1 DEF BankWell, Filling
<1>2. KInv'
  <2>1. CASE UNCHANGED bvars
    BY <2>1 DEF bvars, BankWell, KInv, AsksNothingPrivate, SavesWhatWasTyped, TypedStays, PrivateStays, Has
  <2> QED
    BY <2>1, BankStepHolds DEF BankWell
<1>3. ASSUME NEW r \in Forms, NEW q \in Questions, NEW text \in TypedTexts, AnswerQuestion(r, q, text) PROVE BankWell'
  <2>1. UNCHANGED <<bscene, filler, told>> /\ plan' = [plan EXCEPT ![r][q] = Planned(text, "user", TRUE)]
    BY <1>3 DEF AnswerQuestion
  <2>2. Planned(text, "user", TRUE) \in Answer
    <3>1. text \in PlanTexts
      BY DEF PlanTexts, Texts
    <3> QED
      BY <3>1, PlannedIs
  <2>3. plan[r] \in [Questions -> Answer]
    BY DEF BankWell
  <2> DEFINE answered == [plan[r] EXCEPT ![q] = Planned(text, "user", TRUE)]
  <2>4. answered \in [Questions -> Answer]
    BY <2>2, <2>3
  <2>5. plan' = [plan EXCEPT ![r] = answered]
    BY <2>1
  <2> HIDE DEF answered
  <2>6. plan' \in [Forms -> [Questions -> Answer]]
    BY <2>4, <2>5 DEF BankWell
  <2> QED
    BY <1>2, <2>1, <2>6 DEF BankWell, Filling
<1>4. CASE \E f \in Fillers : ReadForm(f) \/ FillForm(f)
  BY <1>4, FormRead, FormFilled
<1>5. CASE \E r \in Forms : ApproveRun(r) \/ \E q \in Questions, text \in TypedTexts : AnswerQuestion(r, q, text)
  BY <1>1, <1>2, <1>3, <1>5 DEF ApproveRun
<1>6. CASE \/ \E q \in Questions, text \in TypedTexts : SaveAnswer(q, text)
           \/ \E q \in Questions : DeleteEntry(q)
           \/ \E q \in Questions, keep \in BOOLEAN :
                 ApproveEntry(q, keep) \/ \E text \in TypedTexts : EditEntry(q, text, keep)
           \/ SaveCommits
           \/ UNCHANGED bvars
  <2>1. UNCHANGED <<bscene, plan, filler, told>>
    BY <1>6 DEF SaveAnswer, DeleteEntry, ApproveEntry, EditEntry, SaveCommits, bvars
  <2> QED
    BY <1>1, <1>2, <2>1
<1> QED
  BY <1>4, <1>5, <1>6 DEF BankNext

LEMMA BankIsTyped == BankSpec => []BankTypeOK
<1>1. BankInit => BankWell
  <2> SUFFICES ASSUME BankInit PROVE BankWell
    OBVIOUS
  <2>1. KInv
    BY InitKept
  <2>2. bscene \in BankScenes /\ told = {} /\ plan = [r \in Forms |-> [q \in Questions |-> Unplanned]]
        /\ filler = [f \in Fillers |-> IdleFiller]
    BY DEF BankInit
  <2> QED
    BY <2>1, <2>2, UnplannedIs DEF BankWell
<1>2. BankWell => BankTypeOK
  BY DEF BankWell, BankTypeOK, KInv, Entry, Answer
<1> QED
  BY <1>1, <1>2, BankStaysTyped, PTL DEF BankSpec

\* The packs: PackInv has it all but the situation.
LEMMA PacksAreTyped == PackSpec => []PackTypeOK
<1>1. PackInit => kscene \in PackScenes
  BY DEF PackInit
<1>2. [PackNext]_kvars => kscene' = kscene
  <2>1. ASSUME NEW q \in Tabs, TabNext(q) PROVE kscene' = kscene
    BY <2>1 DEF TabNext, Upload, UploadCommits, SetMaster, SetMasterCommits, Delete, DeleteCommits,
       Review, ReviewCommits, Reparse, ReparseCommits, SaveProfile, Prepare, PrepareCommits, Asks
  <2>2. ASSUME NEW w \in Hands, HandNext(w) PROVE kscene' = kscene
    BY <2>2 DEF HandNext, TakeParse, ModelRead, ParseSaves, ParseFails, ParseCrashes, ParseFailed, TakeBuild, BuildEnds, BuildCrashes
  <2> QED
    BY <2>1, <2>2 DEF PackNext, kvars
<1>3. kscene \in PackScenes /\ [PackNext]_kvars => (kscene \in PackScenes)'
  BY <1>2
<1>4. kscene \in PackScenes /\ PackInv => PackTypeOK
  BY DEF PackInv, PackTypeOK, RowsOk, ResumeRow, PacksOk, PackRow, PackStatus, ParsesOk, BuildsOk, BuildTasks
<1> QED
  BY <1>1, <1>3, <1>4, PackStarts, PackStep, PTL DEF PackSpec

\* The link: the rows of a save are LinkInv's; a browser at the commit of its
\* exchange has read connections that were made before.
Exchange == [pc : {"idle", "commit"}, live : SUBSET (1..MaxPaired)]
LinkWell ==
    /\ LinkInv
    /\ DOMAIN pairing = {"codes", "of"} /\ pairing.codes \in Nat /\ pairing.of \in [Browsers -> Exchange]
    /\ token \in Seq({"live", "revoked"}) /\ Len(token) <= MaxPaired

LEMMA LinkStaysTyped == ASSUME LinkWell, [LinkNext]_lvars PROVE LinkWell'
<1> USE LinkConstants
<1>1. LinkInv'
  <2>1. CASE UNCHANGED lvars
    BY <2>1 DEF lvars, LinkWell, LinkInv, SavesTyped, InTurn, Placed, Apart
  <2> QED
    BY <2>1, LinkStepHolds DEF LinkWell
<1>2. ASSUME UNCHANGED <<pairing, token>> PROVE LinkWell'
  BY <1>1, <1>2 DEF LinkWell
<1>3. /\ pairing.codes \in Nat /\ pairing.of \in [Browsers -> Exchange] /\ DOMAIN pairing = {"codes", "of"}
      /\ token \in Seq({"live", "revoked"}) /\ Len(token) <= MaxPaired /\ Len(token) \in Nat
  BY DEF LinkWell
<1>4. ASSUME token' = token, DOMAIN pairing' = {"codes", "of"}, pairing'.codes \in Nat, pairing'.of \in [Browsers -> Exchange]
      PROVE  LinkWell'
  BY <1>1, <1>3, <1>4 DEF LinkWell
<1>5. CASE PairCode \/ PairCodeExpires
  <2>1. token' = token /\ DOMAIN pairing' = {"codes", "of"} /\ pairing'.of = pairing.of /\ pairing'.codes \in Nat
    BY <1>3, <1>5 DEF PairCode, PairCodeExpires
  <2> QED
    BY <1>3, <1>4, <2>1
<1>6. ASSUME NEW b \in Browsers, Redeem(b) PROVE LinkWell'
  <2>1. token' = token /\ DOMAIN pairing' = {"codes", "of"} /\ pairing'.codes \in Nat
    BY <1>3, <1>6 DEF Redeem
  <2>2. Live \in SUBSET (1..MaxPaired)
    BY <1>3 DEF Live
  <2>3. [pc |-> "commit", live |-> Live] \in Exchange
    BY <2>2 DEF Exchange
  <2>4. pairing'.of \in [Browsers -> Exchange]
    BY <1>3, <1>6, <2>3 DEF Redeem
  <2> QED
    BY <1>4, <2>1, <2>4
<1>7. ASSUME NEW b \in Browsers, RedeemCommits(b) PROVE LinkWell'
  <2>1. Len(token) < MaxPaired /\ pairing' = [pairing EXCEPT !.of[b] = NotPairing]
    BY <1>7 DEF RedeemCommits
  <2>2. NotPairing \in Exchange
    BY DEF NotPairing, Exchange
  <2>3. DOMAIN pairing' = {"codes", "of"} /\ pairing'.codes = pairing.codes /\ pairing'.of \in [Browsers -> Exchange]
    BY <1>3, <2>1, <2>2
  <2> DEFINE kept == [i \in 1..Len(token) |-> IF i \in Oldest(pairing.of[b].live) THEN "revoked" ELSE token[i]]
  <2>4. \A i \in 1..Len(token) : token[i] \in {"live", "revoked"}
    BY <1>3
  <2>5. kept \in Seq({"live", "revoked"}) /\ Len(kept) = Len(token)
    BY <1>3, <2>4
  <2>6. token' = Append(kept, "live")
    BY <1>7 DEF RedeemCommits
  <2> HIDE DEF kept
  <2>7. token' \in Seq({"live", "revoked"}) /\ Len(token') = Len(token) + 1
    BY <2>5, <2>6
  <2>8. Len(token') <= MaxPaired
    BY <1>3, <2>1, <2>7
  <2> QED
    BY <1>1, <1>3, <2>3, <2>7, <2>8 DEF LinkWell
<1>8. ASSUME NEW i \in 1..Len(token), Revoke(i) PROVE LinkWell'
  <2>1. UNCHANGED pairing /\ token' = [token EXCEPT ![i] = "revoked"]
    BY <1>8 DEF Revoke
  <2>2. token' \in Seq({"live", "revoked"}) /\ Len(token') = Len(token)
    BY <1>3, <2>1
  <2> QED
    BY <1>1, <1>3, <2>1, <2>2 DEF LinkWell
<1>9. CASE \/ ChangeAccount \/ MonthPasses \/ UNCHANGED lvars
           \/ \E s \in Saves : SaveStarts(s) \/ LookUp(s) \/ Insert(s) \/ Purge(s) \/ Commit(s) \/ DeadlockEnds(s)
  <2>1. UNCHANGED <<pairing, token>>
    BY <1>9 DEF ChangeAccount, MonthPasses, SaveStarts, LookUp, Insert, Purge, Commit, DeadlockEnds, lvars
  <2> QED
    BY <1>2, <2>1
<1> QED
  BY <1>5, <1>6, <1>7, <1>8, <1>9 DEF LinkNext

LEMMA LinkIsTyped == LinkSpec => []LinkTypeOK
<1>1. LinkInit => LinkWell
  <2> SUFFICES ASSUME LinkInit PROVE LinkWell
    OBVIOUS
  <2>1. LinkInv
    BY LinkInitHolds
  <2>2. pairing = [codes |-> 0, of |-> [b \in Browsers |-> NotPairing]] /\ token = <<>>
    BY DEF LinkInit
  <2>3. NotPairing \in Exchange
    BY DEF NotPairing, Exchange
  <2>4. <<>> \in Seq({"live", "revoked"}) /\ Len(<<>>) = 0
    OBVIOUS
  <2> QED
    BY <2>1, <2>2, <2>3, <2>4, LinkConstants DEF LinkWell
<1>2. ASSUME LinkWell PROVE LinkTypeOK
  <2>1. \A s \in Saves : save[s].dirty \cup save[s].held \cup save[s].purged \subseteq Links
    BY <1>2 DEF LinkWell, LinkInv, SavesTyped, SaveRow
  <2> QED
    BY <1>2, <2>1 DEF LinkWell, LinkInv, SavesTyped, Ages, LinkTypeOK, Exchange
<1> QED
  BY <1>1, <1>2, LinkStaysTyped, PTL DEF LinkSpec

\* The router: what a pause holds, and who is in a slot.
Pauses == [why : {"up", "rate_limit", "broken", "breaker"}, left : Nat, fails : 0..(BreakerFailures - 1), rate : 1..MaxPause]
PauseRow == {x \in Pauses : x.left > 0 <=> x.why # "up"}
Seated(t, p) ==
    /\ t.slot
    /\ t.pc = "dead" \/ (t.pc \in {"calling", "bad"} /\ t.kind \notin {"stream", "capped"} /\ Provider[Head(t.chain)] = p)
\* Only what takes no stream waits for a slot or comes from one.
Plain(t) == t.pc \in {"slot", "enter", "good", "bad"} => t.kind \notin {"stream", "capped"}

SlotsWell ==
    /\ DOMAIN slots = Providers
    /\ \A p \in Providers : \A c \in slots[p] : c \in Calls /\ Seated(call[c], p)
    /\ \A c \in Calls : Plain(call[c])
RouterWell == RouterInv /\ pause \in [Models -> PauseRow] /\ SlotsWell

LEMMA RunningIs == Running \in PauseRow /\ \A n \in Nat \ {0} : RateCapped(n) \in 1..MaxPause
<1>1. MaxPause \in Nat \ {0} /\ RatePause \in Nat \ {0} /\ BreakerFailures \in Nat \ {0}
  BY RouterConstants
<1>2. \A n \in Nat \ {0} : RateCapped(n) \in 1..MaxPause
  BY <1>1 DEF RateCapped
<1>3. RateCapped(RatePause) \in 1..MaxPause /\ 0 \in 0..(BreakerFailures - 1)
  BY <1>1, <1>2
<1> QED
  BY <1>2, <1>3 DEF Running, PauseRow, Pauses

LEMMA FailedIs == ASSUME NEW m \in Models, pause[m] \in PauseRow, NEW kind PROVE Failed(m, kind) \in PauseRow
<1> DEFINE b == pause[m]
<1>1. /\ b \in PauseRow /\ b.left \in Nat /\ b.fails \in 0..(BreakerFailures - 1) /\ b.rate \in 1..MaxPause
      /\ BreakerFailures \in Nat \ {0} /\ BreakerPause \in Nat \ {0} /\ BrokenPause \in Nat \ {0} /\ MaxPause \in Nat \ {0}
  BY RouterConstants DEF PauseRow, Pauses
<1>2. RateCapped(2 * b.rate) \in 1..MaxPause /\ 0 \in 0..(BreakerFailures - 1)
  BY <1>1, RunningIs
<1>8. b \in Pauses /\ b.rate \in Nat /\ b.rate > 0
  BY <1>1 DEF PauseRow, Pauses
<1>9. BrokenPause \in Nat /\ BrokenPause > 0 /\ BreakerPause \in Nat /\ BreakerPause > 0
  BY <1>1
<1> HIDE DEF b
<1>3. [b EXCEPT !.why = "rate_limit", !.left = b.rate, !.rate = RateCapped(2 * @)] \in PauseRow
  <2> DEFINE x == [b EXCEPT !.why = "rate_limit", !.left = b.rate, !.rate = RateCapped(2 * @)]
  <2>1. x \in Pauses /\ x.left = b.rate /\ x.why = "rate_limit"
    BY <1>2, <1>8 DEF Pauses
  <2> QED
    BY <1>8, <2>1 DEF PauseRow
<1>4. [b EXCEPT !.why = "broken", !.left = BrokenPause, !.fails = 0] \in PauseRow
  <2> DEFINE x == [b EXCEPT !.why = "broken", !.left = BrokenPause, !.fails = 0]
  <2>1. x \in Pauses /\ x.left = BrokenPause /\ x.why = "broken"
    BY <1>2, <1>8, <1>9 DEF Pauses
  <2> QED
    BY <1>9, <2>1 DEF PauseRow
<1>5. [b EXCEPT !.why = "breaker", !.left = BreakerPause, !.fails = 0] \in PauseRow
  <2> DEFINE x == [b EXCEPT !.why = "breaker", !.left = BreakerPause, !.fails = 0]
  <2>1. x \in Pauses /\ x.left = BreakerPause /\ x.why = "breaker"
    BY <1>2, <1>8, <1>9 DEF Pauses
  <2> QED
    BY <1>9, <2>1 DEF PauseRow
<1>6. ASSUME ~(b.fails + 1 >= BreakerFailures) PROVE [b EXCEPT !.fails = @ + 1] \in PauseRow
  <2> DEFINE x == [b EXCEPT !.fails = @ + 1]
  <2>1. b.fails + 1 \in 0..(BreakerFailures - 1)
    BY <1>1, <1>6
  <2>2. x \in Pauses /\ x.left = b.left /\ x.why = b.why
    BY <1>8, <2>1 DEF Pauses
  <2> QED
    BY <1>1, <2>2 DEF PauseRow
<1>7. \/ Failed(m, kind) = b
      \/ Failed(m, kind) = [b EXCEPT !.why = "rate_limit", !.left = b.rate, !.rate = RateCapped(2 * @)]
      \/ Failed(m, kind) = [b EXCEPT !.why = "broken", !.left = BrokenPause, !.fails = 0]
      \/ Failed(m, kind) = [b EXCEPT !.why = "breaker", !.left = BreakerPause, !.fails = 0]
      \/ ~(b.fails + 1 >= BreakerFailures) /\ Failed(m, kind) = [b EXCEPT !.fails = @ + 1]
  BY DEF Failed, b
<1> QED
  BY <1>1, <1>3, <1>4, <1>5, <1>6, <1>7

LEMMA SucceededIs == ASSUME NEW c \in Calls, pause[On(c)] \in PauseRow PROVE Succeeded(c) \in PauseRow
<1>1. Running.rate \in 1..MaxPause /\ 0 \in 0..(BreakerFailures - 1)
  BY RunningIs, RouterConstants DEF PauseRow, Pauses
<1> DEFINE b == pause[On(c)]
           x == [b EXCEPT !.fails = 0, !.rate = Running.rate]
<1>2. b \in Pauses /\ (b.left > 0 <=> b.why # "up")
  BY DEF PauseRow
<1> HIDE DEF b
<1>3. x \in Pauses /\ x.left = b.left /\ x.why = b.why
  BY <1>1, <1>2 DEF Pauses
<1>4. x \in PauseRow
  BY <1>2, <1>3 DEF PauseRow
<1> QED
  BY <1>4, RunningIs DEF Succeeded, b

\* What any step does to the pauses.
LEMMA PausesStay == ASSUME RouterWell, [RNext]_rvars PROVE pause' \in [Models -> PauseRow]
<1>1. pause \in [Models -> PauseRow]
  BY DEF RouterWell
<1>2. ASSUME NEW m, NEW row, m \in Models => row \in PauseRow, pause' = [pause EXCEPT ![m] = row]
      PROVE  pause' \in [Models -> PauseRow]
  BY <1>1, <1>2
<1>3. ASSUME NEW c \in Calls, NEW kind, pause' = [pause EXCEPT ![On(c)] = Failed(On(c), kind)]
      PROVE  pause' \in [Models -> PauseRow]
  <2>1. On(c) \in Models => Failed(On(c), kind) \in PauseRow
    BY <1>1, FailedIs
  <2> QED
    BY <1>1, <1>3, <2>1
<1>4. ASSUME NEW c \in Calls, pause' = [pause EXCEPT ![On(c)] = Succeeded(c)]
      PROVE  pause' \in [Models -> PauseRow]
  <2>1. On(c) \in Models => Succeeded(c) \in PauseRow
    BY <1>1, SucceededIs
  <2> QED
    BY <1>1, <1>4, <2>1
<1>5. CASE Tick
  <2>1. ASSUME NEW m \in Models
        PROVE [pause[m] EXCEPT !.left = IF @ > 0 THEN @ - 1 ELSE 0, !.why = IF pause[m].left > 1 THEN @ ELSE "up"] \in PauseRow
    <3> DEFINE b == pause[m]
               left == IF b.left > 0 THEN b.left - 1 ELSE 0
               why == IF b.left > 1 THEN b.why ELSE "up"
    <3>1. b \in PauseRow /\ b.left \in Nat
      BY <1>1 DEF PauseRow, Pauses
    <3>2. left \in Nat /\ why \in {"up", "rate_limit", "broken", "breaker"} /\ (left > 0 <=> why # "up")
      BY <3>1 DEF PauseRow, Pauses
    <3> HIDE DEF b, left, why
    <3>3. [b EXCEPT !.left = left, !.why = why] \in PauseRow
      <4> DEFINE x == [b EXCEPT !.left = left, !.why = why]
      <4>1. x \in Pauses /\ x.left = left /\ x.why = why
        BY <3>1, <3>2 DEF PauseRow, Pauses
      <4> QED
        BY <3>2, <4>1 DEF PauseRow
    <3> QED
      BY <3>3 DEF b, left, why
  <2>2. pause' = [m \in Models |-> [pause[m] EXCEPT !.left = IF @ > 0 THEN @ - 1 ELSE 0,
                                                    !.why = IF pause[m].left > 1 THEN @ ELSE "up"]]
    BY <1>5 DEF Tick
  <2> QED
    BY <2>1, <2>2
<1>6. ASSUME NEW m \in Models, CountersExpire(m) PROVE pause' \in [Models -> PauseRow]
  BY <1>1, <1>6, RunningIs DEF CountersExpire
<1>7. CASE UNCHANGED pause
  BY <1>1, <1>7
<1>8. ASSUME NEW c \in Calls, CallMoves(c) PROVE pause' \in [Models -> PauseRow]
  <2>1. CASE Settle(c) \/ \E cancelled \in BOOLEAN : StreamEnds(c, cancelled)
    BY <1>4, <2>1 DEF Settle, StreamEnds
  <2>2. CASE NextModel(c)
    BY <1>3, <2>2 DEF NextModel
  <2>3. CASE StreamBreaks(c)
    BY <1>3, <2>3 DEF StreamBreaks
  <2>4. ASSUME NEW kind, StreamFails(c, kind) PROVE pause' \in [Models -> PauseRow]
    BY <1>3, <2>4 DEF StreamFails
  <2>5. ASSUME NEW kind, Raises(c, kind) PROVE pause' \in [Models -> PauseRow]
    BY <1>7, <2>5 DEF Raises
  <2>6. CASE TakeKey(c) \/ FindSlot(c) \/ EnterSlot(c) \/ Answers(c) \/ RowGone(c) \/ Chunk(c) \/ StreamEmpty(c) \/ Dies(c)
    BY <1>7, <2>6 DEF TakeKey, FindSlot, EnterSlot, Answers, RowGone, Chunk, StreamEmpty, Dies
  <2> QED
    BY <1>8, <2>1, <2>2, <2>3, <2>4, <2>5, <2>6 DEF CallMoves
<1>9. ASSUME NEW c \in Calls, \/ \E kind \in Kinds : Begin(c, kind)
                              \/ \E m \in Models : TestModel(c, m)
                              \/ \E p \in Providers : SlotStale(c, p)
      PROVE  UNCHANGED pause
  BY <1>9 DEF Begin, TestModel, SlotStale
<1>10. CASE Editing
  BY <1>7, <1>10 DEF Editing, CreateModel, EditModel, DeleteModel, SetDefault, SetPreference, EditPlatformKey, EditOwnKey, SetRights, Edited
<1>11. CASE UNCHANGED rvars
  BY <1>7, <1>11 DEF rvars
<1> QED
  BY <1>5, <1>6, <1>7, <1>8, <1>9, <1>10, <1>11 DEF RNext

\* One call goes on to t: of the slots it is in at most those it may be in.
LEMMA SlotsStay ==
    ASSUME RouterWell, NEW c \in Calls, NEW t, Goes(c, t), DOMAIN slots' = Providers, Plain(t),
           \A p \in Providers : \A d : d # c /\ d \in slots'[p] => d \in slots[p],
           \A p \in Providers : c \in slots'[p] => Seated(t, p)
    PROVE  SlotsWell'
<1>1. DOMAIN call = Calls /\ SlotsWell
  BY DEF RouterWell, RouterInv
<1>2. call'[c] = t /\ \A d \in Calls \ {c} : call'[d] = call[d]
  BY <1>1 DEF Goes
<1>3. ASSUME NEW p \in Providers, NEW d, d \in slots'[p] PROVE d \in Calls /\ Seated(call'[d], p)
  BY <1>1, <1>2, <1>3 DEF SlotsWell
<1>4. ASSUME NEW d \in Calls PROVE Plain(call'[d])
  BY <1>1, <1>2 DEF SlotsWell
<1> QED
  BY <1>3, <1>4 DEF SlotsWell

\* A call that may be in no slot is in none, and one that gives its slot back.
LEMMA NoSlot ==
    ASSUME RouterWell, NEW c \in Calls,
           call[c].pc \notin {"calling", "bad", "dead"} \/ (call[c].pc = "calling" /\ call[c].kind \in {"stream", "capped"})
    PROVE  \A p \in Providers : c \notin slots[p]
BY DEF RouterWell, SlotsWell, Seated

LEMMA SlotGiven ==
    ASSUME RouterWell, NEW c \in Calls, call[c].pc # "dead", GiveSlot(c)
    PROVE  /\ DOMAIN slots' = Providers /\ \A p \in Providers : c \notin slots'[p]
           /\ \A p \in Providers : \A d : d # c /\ d \in slots'[p] => d \in slots[p]
<1>1. DOMAIN slots = Providers /\ \A p \in Providers : c \in slots[p] => Provider[On(c)] = p
  BY DEF RouterWell, SlotsWell, Seated, On
<1> QED
  BY <1>1 DEF GiveSlot

\* A call that is in no slot goes on to t.
LEMMA SlotsSame ==
    ASSUME RouterWell, NEW c \in Calls, NEW t, Goes(c, t), UNCHANGED slots, Plain(t), \A p \in Providers : c \notin slots[p]
    PROVE  SlotsWell'
<1>1. DOMAIN slots = Providers
  BY DEF RouterWell, SlotsWell
<1> QED
  BY <1>1, SlotsStay

LEMMA CallSlots == ASSUME RouterWell, NEW c \in Calls, CallMoves(c) PROVE SlotsWell'
<1>1. call[c] \in CallRow /\ call[c].kind \in Kinds /\ DOMAIN slots = Providers /\ Plain(call[c])
  BY DEF RouterWell, RouterInv, SlotsWell, CallRow
<1>2. Plain([NotCalled EXCEPT !.pc = "done"])
  BY DEF Plain, NotCalled
<1>3. ASSUME NEW t, t \in CallRow, t.pc = "next" PROVE Plain(t)
  BY <1>3 DEF Plain
<1>4. CASE TakeKey(c)
  <2>1. \A p \in Providers : c \notin slots[p]
    BY <1>4, NoSlot DEF TakeKey, Is
  <2>2. CASE Goes(c, [NotCalled EXCEPT !.pc = "done"])
    BY <1>2, <1>4, <2>1, <2>2, SlotsSame DEF TakeKey
  <2>3. CASE Goes(c, [call[c] EXCEPT !.pc = IF Streams(c) THEN "calling" ELSE "slot", !.src = KeyFor(c, Provider[On(c)]), !.chunks = 0])
    <3> DEFINE t == [call[c] EXCEPT !.pc = IF Streams(c) THEN "calling" ELSE "slot", !.src = KeyFor(c, Provider[On(c)]), !.chunks = 0]
    <3>1. Plain(t)
      BY <1>1 DEF Plain, Streams, CallRow
    <3>2. Goes(c, t) /\ UNCHANGED slots
      BY <1>4, <2>3 DEF TakeKey
    <3> HIDE DEF t
    <3> QED
      BY <2>1, <3>1, <3>2, SlotsSame
  <2> QED
    BY <1>4, <2>2, <2>3 DEF TakeKey
<1>5. CASE FindSlot(c)
  <2>1. call[c].pc = "slot" /\ \A p \in Providers : c \notin slots[p]
    BY <1>5, NoSlot DEF FindSlot, Is
  <2>2. PICK pc \in {"enter", "calling"} : Goes(c, [call[c] EXCEPT !.pc = pc])
    BY <1>5 DEF FindSlot
  <2> DEFINE t == [call[c] EXCEPT !.pc = pc]
  <2>3. Plain(t)
    BY <1>1, <2>1 DEF Plain, CallRow
  <2>4. Goes(c, t) /\ UNCHANGED slots
    BY <1>5, <2>2 DEF FindSlot
  <2> HIDE DEF t
  <2> QED
    BY <2>1, <2>3, <2>4, SlotsSame
<1>6. CASE EnterSlot(c)
  <2>1. call[c].pc = "enter" /\ \A p \in Providers : c \notin slots[p]
    BY <1>6, NoSlot DEF EnterSlot, Is
  <2> DEFINE t == [call[c] EXCEPT !.pc = "calling", !.slot = TRUE]
  <2>2. /\ Plain(t) /\ t.slot /\ t.pc = "calling" /\ t.kind = call[c].kind /\ t.chain = call[c].chain
        /\ t.kind \notin {"stream", "capped"}
    BY <1>1, <2>1 DEF Plain, CallRow
  <2>3. Goes(c, t) /\ slots' = [slots EXCEPT ![Provider[On(c)]] = @ \cup {c}]
    BY <1>6 DEF EnterSlot
  <2> HIDE DEF t
  <2>4. DOMAIN slots' = Providers /\ \A p \in Providers : \A d : d # c /\ d \in slots'[p] => d \in slots[p]
    BY <1>1, <2>3
  <2>5. \A p \in Providers : c \in slots'[p] => p = Provider[Head(call[c].chain)]
    BY <1>1, <2>1, <2>3 DEF On
  <2>6. \A p \in Providers : c \in slots'[p] => Seated(t, p)
    BY <2>2, <2>5 DEF Seated
  <2> QED
    BY <2>2, <2>3, <2>4, <2>6, SlotsStay
<1>7. CASE Answers(c)
  <2>1. call[c].pc = "calling" /\ call[c].kind \notin {"stream", "capped"} /\ GiveSlot(c)
    BY <1>7 DEF Answers, Is, Streams
  <2> DEFINE t == [call[c] EXCEPT !.pc = "good", !.slot = FALSE]
  <2>2. Plain(t)
    BY <1>1, <2>1 DEF Plain, CallRow
  <2>3. Goes(c, t)
    BY <1>7 DEF Answers
  <2> HIDE DEF t
  <2> QED
    BY <2>1, <2>2, <2>3, SlotGiven, SlotsStay
<1>8. ASSUME NEW kind, Raises(c, kind) PROVE SlotsWell'
  <2>1. call[c].pc = "calling" /\ call[c].kind \notin {"stream", "capped"} /\ UNCHANGED slots
    BY <1>8 DEF Raises, Is, Streams
  <2> DEFINE t == [call[c] EXCEPT !.pc = "bad", !.error = IF kind = "bug" THEN "transient" ELSE kind]
  <2>2. t.pc = "bad" /\ t.slot = call[c].slot /\ t.chain = call[c].chain /\ t.kind = call[c].kind
    BY <1>1 DEF CallRow
  <2>3. Goes(c, t)
    BY <1>8 DEF Raises
  <2> HIDE DEF t
  <2>4. \A p \in Providers : c \in slots[p] => Seated(call[c], p)
    BY DEF RouterWell, SlotsWell
  <2>5. Plain(t) /\ \A p \in Providers : c \in slots'[p] => Seated(t, p)
    BY <2>1, <2>2, <2>4 DEF Plain, Seated
  <2> QED
    BY <1>1, <2>1, <2>3, <2>5, SlotsStay
<1>9. CASE Dies(c)
  <2>1. UNCHANGED slots
    BY <1>9 DEF Dies
  <2> DEFINE t == [NotCalled EXCEPT !.pc = "dead", !.slot = call[c].slot]
  <2>2. t.pc = "dead" /\ t.slot = call[c].slot
    BY DEF NotCalled
  <2>3. Goes(c, t)
    BY <1>9 DEF Dies
  <2> HIDE DEF t
  <2>4. \A p \in Providers : c \in slots[p] => Seated(call[c], p)
    BY DEF RouterWell, SlotsWell
  <2>5. Plain(t) /\ \A p \in Providers : c \in slots'[p] => Seated(t, p)
    BY <2>1, <2>2, <2>4 DEF Plain, Seated
  <2> QED
    BY <1>1, <2>1, <2>3, <2>5, SlotsStay
<1>10. CASE Settle(c)
  <2>1. \A p \in Providers : c \notin slots[p]
    BY <1>10, NoSlot DEF Settle, Is
  <2> QED
    BY <1>2, <1>10, <2>1, SlotsSame DEF Settle
<1>11. CASE NextModel(c)
  <2>1. call[c].pc = "bad" /\ GiveSlot(c)
    BY <1>11 DEF NextModel, Is
  <2> DEFINE t == [call[c] EXCEPT !.pc = "next", !.chain = Tail(@), !.slot = FALSE, !.stale = TRUE]
  <2>2. Plain(t)
    BY <1>1 DEF Plain, CallRow
  <2>3. Goes(c, t)
    BY <1>11 DEF NextModel
  <2> HIDE DEF t
  <2> QED
    BY <2>1, <2>2, <2>3, SlotGiven, SlotsStay
<1>12. CASE RowGone(c)
  <2>1. call[c].pc # "dead" /\ GiveSlot(c)
    BY <1>12 DEF RowGone, Is
  <2> DEFINE t == [NotCalled EXCEPT !.pc = "done"]
  <2>2. Goes(c, t)
    BY <1>12 DEF RowGone
  <2> HIDE DEF t
  <2>3. Plain(t)
    BY <1>2 DEF t
  <2> QED
    BY <2>1, <2>2, <2>3, SlotGiven, SlotsStay
<1>13. CASE Chunk(c)
  <2>1. call[c].pc = "calling" /\ call[c].kind \in {"stream", "capped"}
    BY <1>13 DEF Chunk, Is, Streams
  <2> DEFINE t == [call[c] EXCEPT !.chunks = @ + 1]
  <2>2. Plain(t)
    BY <1>1, <2>1 DEF Plain, CallRow
  <2>3. Goes(c, t) /\ UNCHANGED slots
    BY <1>13 DEF Chunk
  <2> HIDE DEF t
  <2> QED
    BY <2>1, <2>2, <2>3, NoSlot, SlotsSame
<1>14. ASSUME NEW stale, call[c].pc = "calling", Streams(c), UNCHANGED slots, Goes(c, Skipped(c, stale)) PROVE SlotsWell'
  <2>1. AfterFailure(c).pc \in {"done", "next"} /\ DOMAIN AfterFailure(c) = DOMAIN call[c]
    BY <1>1 DEF AfterFailure, NotCalled, CallRow
  <2>2. Skipped(c, stale).pc \in {"done", "next"}
    BY <1>1, <2>1 DEF Skipped, CallRow
  <2>3. Plain(Skipped(c, stale))
    BY <2>2 DEF Plain
  <2>4. \A p \in Providers : c \notin slots[p]
    BY <1>14, NoSlot DEF Streams
  <2> QED
    BY <1>14, <2>3, <2>4, SlotsSame
<1>15. ASSUME NEW kind, StreamFails(c, kind) PROVE SlotsWell'
  BY <1>14, <1>15 DEF StreamFails, Is
<1>16. CASE StreamBreaks(c) \/ StreamEmpty(c)
  BY <1>14, <1>16 DEF StreamBreaks, StreamEmpty, Is
<1>17. CASE \E cancelled \in BOOLEAN : StreamEnds(c, cancelled)
  <2>1. call[c].pc = "calling" /\ Streams(c) /\ UNCHANGED slots /\ Goes(c, [NotCalled EXCEPT !.pc = "done"])
    BY <1>17 DEF StreamEnds, Is
  <2>2. \A p \in Providers : c \notin slots[p]
    BY <2>1, NoSlot DEF Streams
  <2> QED
    BY <1>2, <2>1, <2>2, SlotsSame
<1> QED
  BY <1>4, <1>5, <1>6, <1>7, <1>8, <1>9, <1>10, <1>11, <1>12, <1>13, <1>15, <1>16, <1>17 DEF CallMoves

LEMMA RouterStaysTyped == ASSUME RouterWell, [RNext]_rvars PROVE RouterWell'
<1>1. RouterInv' /\ pause' \in [Models -> PauseRow]
  BY RouterStep, PausesStay DEF RouterWell
<1>2. ASSUME slots' = slots, call' = call PROVE SlotsWell'
  BY <1>2 DEF RouterWell, SlotsWell, Seated, Plain
<1>3. ASSUME NEW c \in Calls, NEW kind \in Kinds, Begin(c, kind) PROVE SlotsWell'
  <2>1. \A p \in Providers : c \notin slots[p]
    BY <1>3, NoSlot DEF Begin, Is
  <2>2. PICK chain \in Chains(kind) : Goes(c, [NotCalled EXCEPT !.pc = "next", !.kind = kind, !.chain = chain])
    BY <1>3 DEF Begin
  <2> DEFINE t == [NotCalled EXCEPT !.pc = "next", !.kind = kind, !.chain = chain]
  <2>3. Plain(t)
    BY DEF Plain, NotCalled
  <2>4. Goes(c, t) /\ UNCHANGED slots
    BY <1>3, <2>2 DEF Begin
  <2> HIDE DEF t
  <2> QED
    BY <2>1, <2>3, <2>4, SlotsSame
<1>4. ASSUME NEW c \in Calls, NEW m \in Models, TestModel(c, m) PROVE SlotsWell'
  <2>1. \A p \in Providers : c \notin slots[p]
    BY <1>4, NoSlot DEF TestModel, Is
  <2> DEFINE t == [NotCalled EXCEPT !.pc = "next", !.kind = "test", !.chain = <<m>>]
  <2>2. Plain(t)
    BY DEF Plain, NotCalled
  <2>3. Goes(c, t) /\ UNCHANGED slots
    BY <1>4 DEF TestModel
  <2> HIDE DEF t
  <2> QED
    BY <2>1, <2>2, <2>3, SlotsSame
<1>5. ASSUME NEW c \in Calls, NEW p \in Providers, SlotStale(c, p) PROVE SlotsWell'
  <2>1. UNCHANGED call /\ slots' = [slots EXCEPT ![p] = @ \ {c}] /\ DOMAIN slots = Providers
    BY <1>5 DEF SlotStale, RouterWell, SlotsWell
  <2>2. DOMAIN slots' = Providers /\ \A q \in Providers : \A d : d \in slots'[q] => d \in slots[q]
    BY <2>1
  <2> QED
    BY <2>1, <2>2 DEF RouterWell, SlotsWell
<1>6. ASSUME Tick \/ Editing \/ \E m \in Models : CountersExpire(m) PROVE SlotsWell'
  <2>1. slots' = slots /\ call' = call
    BY <1>6 DEF Tick, CountersExpire, Editing, CreateModel, EditModel, DeleteModel, SetDefault, SetPreference,
       EditPlatformKey, EditOwnKey, SetRights
  <2> QED
    BY <1>2, <2>1
<1>7. ASSUME UNCHANGED rvars PROVE SlotsWell'
  <2>1. slots' = slots /\ call' = call
    BY <1>7 DEF rvars
  <2> QED
    BY <1>2, <2>1
<1>8. SlotsWell'
  BY <1>3, <1>4, <1>5, <1>6, <1>7, CallSlots DEF RNext, RouterWell
<1> QED
  BY <1>1, <1>8 DEF RouterWell

LEMMA RouterIsTyped == RSpec => []RouterTypeOK
<1>1. RInit => RouterWell
  <2> SUFFICES ASSUME RInit PROVE RouterWell
    OBVIOUS
  <2>1. /\ RouterInv /\ pause = [m \in Models |-> Running] /\ slots = [p \in Providers |-> {}]
        /\ call = [c \in Calls |-> NotCalled]
    BY RouterStarts DEF RInit
  <2>2. Plain(NotCalled)
    BY DEF Plain, NotCalled
  <2> QED
    BY <2>1, <2>2, RunningIs DEF RouterWell, SlotsWell
<1>2. RouterWell => RouterTypeOK
  <2> SUFFICES ASSUME RouterWell PROVE RouterTypeOK
    OBVIOUS
  <2>1. \A p \in Providers : \A c \in slots[p] : call[c].slot /\ call[c].pc \in {"calling", "bad", "dead"}
    BY DEF RouterWell, SlotsWell, Seated
  <2>2. \A m \in Models : (pause[m].left > 0 <=> pause[m].why # "up") /\ pause[m].fails < BreakerFailures
    BY RouterConstants DEF RouterWell, PauseRow, Pauses
  <2>3. \A c \in Calls : call[c].pc \in {"slot", "enter", "calling", "good", "bad"} => call[c].chain # <<>>
    BY DEF RouterWell, RouterInv, CallFits, PaidFor, Active
  <2> QED
    BY <2>1, <2>2, <2>3 DEF RouterTypeOK
<1> QED
  BY <1>1, <1>2, RouterStaysTyped, PTL DEF RSpec

\* A form: a walk at work is at a page of the form it opened, and neither it
\* nor the plan has used more looks than there are, whatever models say.
WalkPcs == {"idle", "read", "look", "fill", "gap", "turn", "again", "send", "save"}
WalkFields == {"pc", "pass", "pages", "at", "n", "known", "all", "filled", "step", "gaps", "failed", "looks"}
PlanRow == [fields : [Controls -> Fields], steps : Seq(SUBSET Controls), complete : BOOLEAN, looks : 0..MaxLooks]

WalkTyped(x, s) ==
    /\ DOMAIN x = WalkFields /\ x.pc \in WalkPcs /\ x.gaps \subseteq Controls \cup {"page"} /\ x.looks \in 0..MaxLooks
    /\ x.known \in [Controls -> Fields] /\ x.all \in [Controls -> Fields]
    /\ x.pc \notin {"idle", "save"} => x.pages \in {s.first, s.later} /\ x.at \in 1..Len(x.pages)

FormWell ==
    /\ fscene \in FormScenes /\ layout \in {fscene.first, fscene.later} /\ standing \in Standings
    /\ sheet \in PlanRow /\ approved \in [Controls -> Fields]
    /\ DOMAIN walk = Walkers /\ \A w \in Walkers : WalkTyped(walk[w], fscene)

LEMMA NoFieldIs == NoField \in Fields /\ WalkTyped(Resting, fscene)
<1>1. NoField \in Fields
  BY DEF NoField, Fields
<1>2. Resting.looks \in 0..MaxLooks
  BY FormConstants DEF Resting
<1> QED
  BY <1>1, <1>2 DEF WalkTyped, Resting, WalkPcs, WalkFields

LEMMA WalkGoesOn ==
    ASSUME FormWell, NEW w \in Walkers, NEW new, WalkTyped(new, fscene), WalkGoes(w, new), UNCHANGED <<fscene, layout, approved>>,
           standing' \in Standings, sheet' \in PlanRow
    PROVE  FormWell'
<1>1. DOMAIN walk' = Walkers /\ \A v \in Walkers : walk'[v] = walk[v] \/ walk'[v] = new
  BY DEF FormWell, WalkGoes
<1>2. \A v \in Walkers : WalkTyped(walk'[v], fscene)
  BY <1>1 DEF FormWell
<1> QED
  BY <1>1, <1>2 DEF FormWell

\* A walk at work shows a page of the form.
LEMMA ShownIs ==
    ASSUME FormWell, NEW w \in Walkers
    PROVE  /\ WalkTyped(walk[w], fscene) /\ walk[w].looks \in 0..MaxLooks /\ MaxLooks \in Nat
           /\ walk[w].pc \notin {"idle", "save"} => /\ walk[w].pages \in Seq(FormPage) /\ walk[w].at \in 1..Len(walk[w].pages)
                                                    /\ Shown(w) \in FormPage
<1>1. WalkTyped(walk[w], fscene) /\ fscene \in FormScenes
  BY DEF FormWell
<1>2. fscene.first \in Seq(FormPage) /\ fscene.later \in Seq(FormPage) /\ MaxLooks \in Nat
  BY <1>1, FormConstants DEF FormScene
<1>3. walk[w].pc \notin {"idle", "save"} => walk[w].pages \in Seq(FormPage) /\ walk[w].at \in 1..Len(walk[w].pages)
  BY <1>1, <1>2 DEF WalkTyped
<1>4. walk[w].pc \notin {"idle", "save"} => Shown(w) \in FormPage
  BY <1>3 DEF Shown
<1> QED
  BY <1>1, <1>2, <1>3, <1>4 DEF WalkTyped

LEMMA LooksWithin ==
    ASSUME FormWell, NEW w \in Walkers, NEW b \in ButtonSteps(w)
    PROVE  walk[w].looks + b.looks \in 0..MaxLooks
<1>1. b.looks = 0 \/ (b.looks = 1 /\ walk[w].looks < MaxLooks)
  BY DEF ButtonSteps
<1> QED
  BY <1>1, ShownIs

\* It goes on at a page of its form.
LEMMA StaysAtForm ==
    ASSUME FormWell, NEW w \in Walkers, walk[w].pc \notin {"idle", "save"}, NEW x, DOMAIN x = WalkFields,
           x.pc \in WalkPcs, x.gaps \subseteq Controls \cup {"page"}, x.looks \in 0..MaxLooks,
           x.known = walk[w].known, x.all \in [Controls -> Fields],
           x.pages = walk[w].pages, x.pc = "save" \/ x.at \in 1..Len(walk[w].pages)
    PROVE  WalkTyped(x, fscene)
BY ShownIs DEF WalkTyped

LEMMA WalkEnds ==
    ASSUME FormWell, NEW w \in Walkers, walk[w].pc \notin {"idle", "save"}, NEW state \in Standings, EndsAs(w, state),
           UNCHANGED <<fscene, layout, approved>>, sheet' \in PlanRow
    PROVE  FormWell'
<1> DEFINE new == [walk[w] EXCEPT !.pc = "save"]
<1>1. WalkTyped(walk[w], fscene)
  BY ShownIs
<1>2. WalkTyped(new, fscene)
  BY <1>1 DEF WalkTyped, WalkFields, WalkPcs
<1>3. walk' = [walk EXCEPT ![w] = new] /\ standing' = state
  BY DEF EndsAs
<1> HIDE DEF new
<1>4. WalkGoes(w, new)
  BY <1>3 DEF WalkGoes
<1> QED
  BY <1>2, <1>3, <1>4, WalkGoesOn

LEMMA FormOpened ==
    ASSUME FormWell, NEW w \in Walkers, StartPrepare(w) \/ StartSubmit(w)
    PROVE  FormWell'
<1>1. w \in fscene.walkers /\ UNCHANGED <<fscene, layout, sheet, approved>>
  BY DEF StartPrepare, StartSubmit
<1>2. /\ sheet \in PlanRow /\ sheet.fields \in [Controls -> Fields] /\ sheet.looks \in 0..MaxLooks
      /\ fscene \in FormScenes /\ layout \in {fscene.first, fscene.later}
  BY DEF FormWell, PlanRow
<1>3. layout \in Seq(FormPage) /\ layout # <<>>
  BY <1>1, <1>2, FormConstants DEF FormScene
<1>4. 1 \in 1..Len(layout)
  BY <1>3
<1>5. KnownFields \in [Controls -> Fields] /\ [k \in Controls |-> NoField] \in [Controls -> Fields]
  BY <1>2, NoFieldIs DEF KnownFields
<1>6. ASSUME NEW pass, NEW st \in Standings, standing' = st, Opened(w, pass) PROVE FormWell'
  <2> DEFINE new == [Resting EXCEPT !.pc = "read", !.pass = pass, !.pages = layout, !.at = 1, !.n = 1, !.looks = sheet.looks,
                                    !.known = IF fscene.multi THEN KnownFields ELSE @]
  <2>1. WalkTyped(new, fscene)
    BY <1>2, <1>4, <1>5 DEF WalkTyped, Resting, WalkFields, WalkPcs
  <2>2. WalkGoes(w, new)
    BY <1>6 DEF Opened
  <2> HIDE DEF new
  <2> QED
    BY <1>1, <1>2, <1>6, <2>1, <2>2, WalkGoesOn
<1>7. ASSUME NotOpened(w) PROVE FormWell'
  <2> DEFINE new == [Resting EXCEPT !.pc = "save", !.looks = sheet.looks]
  <2>1. WalkTyped(new, fscene)
    BY <1>2, <1>5 DEF WalkTyped, Resting, WalkFields, WalkPcs
  <2>2. WalkGoes(w, new) /\ standing' = "needs_user" /\ "needs_user" \in Standings
    BY <1>7 DEF NotOpened, Standings
  <2> HIDE DEF new
  <2> QED
    BY <1>1, <1>2, <2>1, <2>2, WalkGoesOn
<1>8. "preparing" \in Standings /\ "sending" \in Standings
  BY DEF Standings
<1> QED
  BY <1>6, <1>7, <1>8 DEF StartPrepare, StartSubmit

LEMMA UsageSaved == ASSUME FormWell, NEW w \in Walkers, SaveUsage(w) PROVE FormWell'
<1>1. walk[w].looks \in 0..MaxLooks /\ sheet \in PlanRow /\ standing \in Standings
  BY ShownIs DEF FormWell
<1>2. sheet' \in PlanRow
  BY <1>1 DEF SaveUsage, PlanRow
<1> QED
  BY <1>1, <1>2, NoFieldIs, WalkGoesOn DEF SaveUsage

LEMMA PageReadIn == ASSUME FormWell, NEW w \in Walkers, ReadPage(w) PROVE FormWell'
<1>1. walk[w].pc = "read" /\ UNCHANGED <<fscene, layout, approved>>
  BY DEF ReadPage
<1>2. /\ sheet \in PlanRow /\ sheet.steps \in Seq(SUBSET Controls) /\ standing \in Standings
      /\ "needs_user" \in Standings /\ KeyOf \in [Controls -> Controls]
  BY FormConstants DEF FormWell, PlanRow, Standings
<1>3. Shown(w).asks \subseteq Controls /\ walk[w].known \in [Controls -> Fields] /\ walk[w].all \in [Controls -> Fields]
  BY <1>1, ShownIs DEF FormPage, WalkTyped
<1>4. CASE Stops(w) /\ UNCHANGED sheet
  BY <1>1, <1>2, <1>4, WalkEnds DEF Stops
<1>5. CASE ~(Stops(w) /\ UNCHANGED sheet)
  <2>1. PICK answered \in SUBSET Shown(w).asks :
          LET all == WithPage(w, answered)
              keyed == KeysOf(Shown(w))
              steps == IF walk[w].n = 1 THEN <<keyed>> ELSE Append(sheet.steps, keyed)
              drawn == [sheet EXCEPT !.fields = all, !.steps = IF fscene.multi THEN steps ELSE <<>>, !.complete = FALSE]
          IN /\ sheet' = drawn
             /\ IF fscene.multi
                THEN WalkGoes(w, [walk[w] EXCEPT !.pc = "look", !.all = all]) /\ UNCHANGED standing
                ELSE EndsAs(w, Announced(drawn))
    BY <1>5 DEF ReadPage
  <2> DEFINE all == WithPage(w, answered)
             keyed == KeysOf(Shown(w))
             steps == IF walk[w].n = 1 THEN <<keyed>> ELSE Append(sheet.steps, keyed)
             kept == IF fscene.multi THEN steps ELSE <<>>
             drawn == [sheet EXCEPT !.fields = all, !.steps = kept, !.complete = FALSE]
  <2>2. ASSUME NEW q \in Controls PROVE PlannedField(w, q, answered) \in Fields
    <3>1. walk[w].known[KeyOf[q]] \in Fields
      BY <1>2, <1>3
    <3>2. [walk[w].known[KeyOf[q]] EXCEPT !.ask = q] \in Fields
      BY <3>1 DEF Fields
    <3>3. \A v \in {"drafted", "open", "blank"} : [ask |-> q, value |-> v] \in Fields
      BY DEF Fields
    <3> QED
      BY <3>2, <3>3 DEF PlannedField
  <2>3. all \in [Controls -> Fields]
    <3> SUFFICES ASSUME NEW k \in Controls PROVE all[k] \in Fields
      BY DEF WithPage
    <3> DEFINE here == {q \in Shown(w).asks : KeyOf[q] = k}
    <3>1. CASE walk[w].all[k] # NoField \/ here = {}
      BY <1>3, <3>1 DEF WithPage
    <3>2. CASE ~(walk[w].all[k] # NoField \/ here = {})
      <4>1. (CHOOSE q \in here : TRUE) \in Controls
        BY <1>3, <3>2
      <4> QED
        BY <2>2, <3>2, <4>1 DEF WithPage
    <3> QED
      BY <3>1, <3>2
  <2>4. keyed \in SUBSET Controls
    BY <1>2, <1>3 DEF KeysOf
  <2> HIDE DEF all, keyed
  <2>5. kept \in Seq(SUBSET Controls)
    <3>1. <<keyed>> \in Seq(SUBSET Controls) /\ <<>> \in Seq(SUBSET Controls)
      BY <2>4
    <3>2. Append(sheet.steps, keyed) \in Seq(SUBSET Controls)
      BY <1>2, <2>4
    <3> QED
      BY <3>1, <3>2
  <2> HIDE DEF kept
  <2>6. drawn \in PlanRow
    BY <1>2, <2>3, <2>5 DEF PlanRow
  <2>7. /\ sheet' = drawn
        /\ \/ WalkGoes(w, [walk[w] EXCEPT !.pc = "look", !.all = all]) /\ UNCHANGED standing
           \/ EndsAs(w, Announced(drawn))
    BY <2>1 DEF all, keyed, kept
  <2> HIDE DEF drawn
  <2>8. CASE WalkGoes(w, [walk[w] EXCEPT !.pc = "look", !.all = all]) /\ UNCHANGED standing
    <3> DEFINE new == [walk[w] EXCEPT !.pc = "look", !.all = all]
    <3>1. WalkTyped(walk[w], fscene)
      BY ShownIs
    <3>2. WalkTyped(new, fscene)
      BY <1>1, <2>3, <3>1 DEF WalkTyped, WalkFields, WalkPcs
    <3>3. WalkGoes(w, new)
      BY <2>8
    <3> HIDE DEF new
    <3> QED
      BY <1>1, <1>2, <2>6, <2>7, <2>8, <3>2, <3>3, WalkGoesOn
  <2>9. CASE EndsAs(w, Announced(drawn))
    <3>1. Announced(drawn) \in Standings
      BY AnnouncedIs DEF Standings
    <3> QED
      BY <1>1, <2>6, <2>7, <2>9, <3>1, WalkEnds
  <2> QED
    BY <2>7, <2>8, <2>9
<1> QED
  BY <1>4, <1>5
\* A step that ends the walk, after some looks.
LEMMA WalkStopsThere ==
    ASSUME FormWell, NEW w \in Walkers, walk[w].pc \notin {"idle", "save"}, NEW x, WalkGoes(w, x), DOMAIN x = WalkFields,
           x.pc = "save", x.gaps = walk[w].gaps, x.looks \in 0..MaxLooks,
           x.known = walk[w].known, x.all = walk[w].all, UNCHANGED <<fscene, layout, approved>>, standing' \in Standings, sheet' \in PlanRow
    PROVE  FormWell'
<1>1. WalkTyped(x, fscene)
  BY ShownIs DEF WalkTyped, WalkPcs
<1> QED
  BY <1>1, WalkGoesOn

LEMMA LastLookedFor == ASSUME FormWell, NEW w \in Walkers, LookForLast(w) PROVE FormWell'
<1>1. walk[w].pc = "look" /\ UNCHANGED <<fscene, layout, approved>> /\ standing \in Standings /\ sheet \in PlanRow
  BY DEF LookForLast, FormWell
<1>2. PICK b \in ButtonSteps(w) :
        \/ /\ sheet' = [sheet EXCEPT !.complete = TRUE] /\ standing' = Announced([sheet EXCEPT !.complete = TRUE])
           /\ WalkGoes(w, [[walk[w] EXCEPT !.looks = @ + b.looks, !.step = b.step] EXCEPT !.pc = "save"])
        \/ /\ standing' = Announced(sheet) /\ UNCHANGED sheet
           /\ WalkGoes(w, [[walk[w] EXCEPT !.looks = @ + b.looks, !.step = b.step] EXCEPT !.pc = "save"])
        \/ /\ WalkGoes(w, [[walk[w] EXCEPT !.looks = @ + b.looks, !.step = b.step] EXCEPT !.pc = "fill"])
           /\ UNCHANGED <<sheet, standing>>
  BY DEF LookForLast
<1>3. walk[w].looks + b.looks \in 0..MaxLooks
  BY LooksWithin
<1>4. sheet' \in PlanRow /\ standing' \in Standings
  <2>1. [sheet EXCEPT !.complete = TRUE] \in PlanRow
    BY <1>1 DEF PlanRow
  <2>2. Announced([sheet EXCEPT !.complete = TRUE]) \in Standings /\ Announced(sheet) \in Standings
    BY AnnouncedIs DEF Standings
  <2> QED
    BY <1>1, <1>2, <2>1, <2>2
<1>5. PICK pc \in {"save", "fill"} :
        WalkGoes(w, [[walk[w] EXCEPT !.looks = @ + b.looks, !.step = b.step] EXCEPT !.pc = pc])
  BY <1>2
<1> DEFINE new == [[walk[w] EXCEPT !.looks = @ + b.looks, !.step = b.step] EXCEPT !.pc = pc]
<1>6. WalkTyped(new, fscene)
  <2>1. WalkTyped(walk[w], fscene)
    BY ShownIs
  <2> QED
    BY <1>1, <1>3, <2>1 DEF WalkTyped, WalkFields, WalkPcs
<1>7. WalkGoes(w, new)
  BY <1>5
<1> HIDE DEF new
<1> QED
  BY <1>1, <1>4, <1>6, <1>7, WalkGoesOn

LEMMA PageChecked == ASSUME FormWell, NEW w \in Walkers, CheckPage(w) \/ FillPage(w) PROVE FormWell'
<1>1. /\ walk[w].pc \in {"read", "fill"} /\ UNCHANGED <<fscene, layout, sheet, approved>> /\ sheet \in PlanRow
      /\ standing \in Standings /\ "needs_user" \in Standings /\ fscene.stuck \subseteq Controls
  BY FormConstants DEF CheckPage, FillPage, FormWell, Standings, FormScene
<1>2. WalkTyped(walk[w], fscene)
  BY ShownIs
<1>3. CASE Stops(w)
  BY <1>1, <1>3, WalkEnds DEF Stops
<1>4. CASE UNCHANGED standing /\ WalkGoes(w, [walk[w] EXCEPT !.pc = "fill"])
  <2> DEFINE new == [walk[w] EXCEPT !.pc = "fill"]
  <2>1. WalkTyped(new, fscene)
    BY <1>1, <1>2 DEF WalkTyped, WalkFields, WalkPcs
  <2>2. WalkGoes(w, new)
    BY <1>4
  <2> HIDE DEF new
  <2> QED
    BY <1>1, <1>4, <2>1, <2>2, WalkGoesOn
<1>5. ASSUME NEW gaps \in SUBSET fscene.stuck, UNCHANGED standing,
             WalkGoes(w, [walk[w] EXCEPT !.pc = IF gaps = {} THEN Turning(w) ELSE "gap", !.gaps = gaps, !.filled = SetPlain(w, gaps)])
      PROVE  FormWell'
  <2> DEFINE pc == IF gaps = {} THEN Turning(w) ELSE "gap"
             new == [walk[w] EXCEPT !.pc = pc, !.gaps = gaps, !.filled = SetPlain(w, gaps)]
  <2>1. pc \in WalkPcs
    BY DEF Turning, WalkPcs
  <2> HIDE DEF pc
  <2>2. WalkTyped(new, fscene)
    BY <1>1, <1>2, <1>5, <2>1 DEF WalkTyped, WalkFields
  <2>3. WalkGoes(w, new)
    BY <1>5 DEF pc
  <2> HIDE DEF new
  <2> QED
    BY <1>1, <1>5, <2>2, <2>3, WalkGoesOn
<1>6. CASE CheckPage(w)
  BY <1>3, <1>4, <1>6 DEF CheckPage
<1>7. CASE FillPage(w)
  <2>1. (Values(w) \cap fscene.stuck) \in SUBSET fscene.stuck
    OBVIOUS
  <2> QED
    BY <1>3, <1>5, <1>7, <2>1 DEF FillPage
<1> QED
  BY <1>6, <1>7

LEMMA FormSent == ASSUME FormWell, NEW w \in Walkers, Send(w) PROVE FormWell'
<1>1. /\ walk[w].pc = "send" /\ UNCHANGED <<fscene, layout, sheet, approved>> /\ sheet \in PlanRow
      /\ "needs_user" \in Standings /\ Outcome \subseteq Standings
  BY DEF Send, FormWell, Standings, Outcome
<1>2. WalkTyped(walk[w], fscene)
  BY ShownIs
<1>3. CASE Stops(w)
  BY <1>1, <1>3, WalkEnds DEF Stops
<1>4. CASE ~Stops(w)
  <2>1. PICK b \in ButtonSteps(w) :
          /\ standing' \in {"needs_user"} \cup Outcome
          /\ WalkGoes(w, [walk[w] EXCEPT !.pc = "save", !.looks = @ + b.looks])
    BY <1>4 DEF Send
  <2>2. walk[w].looks + b.looks \in 0..MaxLooks
    BY LooksWithin
  <2> DEFINE new == [walk[w] EXCEPT !.pc = "save", !.looks = @ + b.looks]
  <2>3. WalkTyped(new, fscene)
    BY <1>2, <2>2 DEF WalkTyped, WalkFields, WalkPcs
  <2>4. WalkGoes(w, new)
    BY <2>1
  <2> HIDE DEF new
  <2> QED
    BY <1>1, <2>1, <2>3, <2>4, WalkGoesOn
<1> QED
  BY <1>3, <1>4

LEMMA GapEnded ==
    ASSUME FormWell, NEW w \in Walkers, walk[w].pc = "gap", NEW gap, NEW closed, NEW looks \in {0, 1},
           walk[w].looks + looks \in 0..MaxLooks, GapEnds(w, gap, closed, looks), UNCHANGED <<fscene, layout, sheet, approved>>
    PROVE  FormWell'
<1> DEFINE gaps == walk[w].gaps \ {gap}
           failed == walk[w].failed \/ ~closed
<1>1. /\ WalkTyped(walk[w], fscene) /\ sheet \in PlanRow /\ standing \in Standings
      /\ "needs_user" \in Standings /\ gaps \subseteq Controls \cup {"page"}
  BY ShownIs DEF FormWell, Standings, WalkTyped
<1>2. \/ standing' = "needs_user" /\ WalkGoes(w, [walk[w] EXCEPT !.pc = "save", !.looks = @ + looks])
      \/ /\ WalkGoes(w, [walk[w] EXCEPT !.gaps = gaps, !.failed = failed, !.looks = @ + looks,
                          !.pc = IF gaps # {} THEN "gap" ELSE IF gap = "page" THEN "again" ELSE Turning(w)])
         /\ UNCHANGED standing
  BY DEF GapEnds
<1> HIDE DEF gaps, failed
<1>3. CASE standing' = "needs_user" /\ WalkGoes(w, [walk[w] EXCEPT !.pc = "save", !.looks = @ + looks])
  <2> DEFINE new == [walk[w] EXCEPT !.pc = "save", !.looks = @ + looks]
  <2>1. WalkTyped(new, fscene)
    BY <1>1 DEF WalkTyped, WalkFields, WalkPcs
  <2>2. WalkGoes(w, new)
    BY <1>3
  <2> HIDE DEF new
  <2> QED
    BY <1>1, <1>3, <2>1, <2>2, WalkGoesOn
<1>4. CASE /\ WalkGoes(w, [walk[w] EXCEPT !.gaps = gaps, !.failed = failed, !.looks = @ + looks,
                            !.pc = IF gaps # {} THEN "gap" ELSE IF gap = "page" THEN "again" ELSE Turning(w)])
           /\ UNCHANGED standing
  <2> DEFINE pc == IF gaps # {} THEN "gap" ELSE IF gap = "page" THEN "again" ELSE Turning(w)
             new == [walk[w] EXCEPT !.gaps = gaps, !.failed = failed, !.looks = @ + looks, !.pc = pc]
  <2>1. pc \in WalkPcs
    BY DEF Turning, WalkPcs
  <2> HIDE DEF pc
  <2>2. WalkTyped(new, fscene)
    BY <1>1, <2>1 DEF WalkTyped, WalkFields
  <2>3. WalkGoes(w, new)
    BY <1>4 DEF pc
  <2> HIDE DEF new
  <2> QED
    BY <1>1, <1>4, <2>2, <2>3, WalkGoesOn
<1> QED
  BY <1>2, <1>3, <1>4

LEMMA PagesAfterIs ==
    ASSUME FormWell, NEW w \in Walkers, walk[w].pc \notin {"idle", "save"}, NEW mark, NEW at \in PagesAfter(w, mark)
    PROVE  at \in 1..Len(walk[w].pages)
BY ShownIs DEF PagesAfter

LEMMA PageLookedAt == ASSUME FormWell, NEW w \in Walkers, Look(w) PROVE FormWell'
<1>1. /\ walk[w].pc = "gap" /\ UNCHANGED <<fscene, layout, sheet, approved>> /\ sheet \in PlanRow
      /\ standing \in Standings /\ WalkTyped(walk[w], fscene) /\ walk[w].looks \in 0..MaxLooks /\ MaxLooks \in Nat
      /\ walk[w].at \in 1..Len(walk[w].pages)
  BY ShownIs DEF Look, FormWell
<1>2. PICK gap \in walk[w].gaps :
         \/ GapEnds(w, gap, FALSE, 0)
         \/ /\ walk[w].looks < MaxLooks
            /\ \E move \in fscene.moves :
                 \/ GapEnds(w, gap, move = "done", 1)
                 \/ /\ \E at \in IF move = "skip" THEN PagesAfter(w, "go") ELSE {walk[w].at},
                          q \in IF gap = "page" /\ Values(w) # {} THEN Values(w) ELSE {gap},
                          box \in Shown(w).asks :
                         WalkGoes(w, [walk[w] EXCEPT !.looks = @ + 1, !.at = at, !.filled = Typed(w, move, q, box)])
                    /\ UNCHANGED standing
  BY DEF Look
<1>3. CASE GapEnds(w, gap, FALSE, 0)
  <2>1. walk[w].looks + 0 \in 0..MaxLooks
    BY <1>1
  <2> QED
    BY <1>1, <1>3, <2>1, GapEnded
<1>4. walk[w].looks < MaxLooks => walk[w].looks + 1 \in 0..MaxLooks
  BY <1>1
<1>5. ASSUME walk[w].looks + 1 \in 0..MaxLooks, NEW move \in fscene.moves,
             \/ GapEnds(w, gap, move = "done", 1)
             \/ /\ \E at \in IF move = "skip" THEN PagesAfter(w, "go") ELSE {walk[w].at},
                      q \in IF gap = "page" /\ Values(w) # {} THEN Values(w) ELSE {gap},
                      box \in Shown(w).asks :
                     WalkGoes(w, [walk[w] EXCEPT !.looks = @ + 1, !.at = at, !.filled = Typed(w, move, q, box)])
                /\ UNCHANGED standing
      PROVE  FormWell'
  <2>1. CASE GapEnds(w, gap, move = "done", 1)
    <3> DEFINE closed == move = "done"
    <3>1. GapEnds(w, gap, closed, 1)
      BY <2>1
    <3> HIDE DEF closed
    <3> QED
      BY <1>1, <1>5, <3>1, GapEnded
  <2>2. ASSUME NEW at \in 1..Len(walk[w].pages), NEW filled, UNCHANGED standing,
               WalkGoes(w, [walk[w] EXCEPT !.looks = @ + 1, !.at = at, !.filled = filled])
        PROVE  FormWell'
    <3> DEFINE new == [walk[w] EXCEPT !.looks = @ + 1, !.at = at, !.filled = filled]
    <3>1. WalkTyped(new, fscene)
      BY <1>1, <1>5, <2>2 DEF WalkTyped, WalkFields
    <3>2. WalkGoes(w, new)
      BY <2>2
    <3> HIDE DEF new
    <3> QED
      BY <1>1, <2>2, <3>1, <3>2, WalkGoesOn
  <2>3. CASE ~GapEnds(w, gap, move = "done", 1)
    <3>1. PICK at \in IF move = "skip" THEN PagesAfter(w, "go") ELSE {walk[w].at} :
            \E q, box : WalkGoes(w, [walk[w] EXCEPT !.looks = @ + 1, !.at = at, !.filled = Typed(w, move, q, box)])
      BY <1>5, <2>3
    <3>2. at \in 1..Len(walk[w].pages)
      BY <1>1, <3>1, PagesAfterIs
    <3> QED
      BY <1>5, <2>2, <2>3, <3>1, <3>2
  <2> QED
    BY <2>1, <2>3
<1> QED
  BY <1>2, <1>3, <1>4, <1>5

LEMMA PageTurned == ASSUME FormWell, NEW w \in Walkers, TurnPage(w) PROVE FormWell'
<1>1. /\ walk[w].pc \in {"turn", "again"} /\ UNCHANGED <<fscene, layout, sheet, approved>> /\ sheet \in PlanRow
      /\ standing \in Standings /\ WalkTyped(walk[w], fscene) /\ walk[w].looks \in 0..MaxLooks
      /\ "needs_user" \in Standings
  BY ShownIs DEF TurnPage, FormWell, Standings
<1>2. PICK b \in IF walk[w].pc = "turn" /\ walk[w].pass = "prepare" THEN {[step |-> walk[w].step, looks |-> 0]} ELSE ButtonSteps(w) :
        \/ standing' = "needs_user" /\ WalkGoes(w, [walk[w] EXCEPT !.pc = "save", !.looks = @ + b.looks])
        \/ \E at \in PagesAfter(w, b.step.next) :
             LET onward == [walk[w] EXCEPT !.looks = @ + b.looks, !.at = at, !.step = NoStep] IN
             \/ WalkGoes(w, [onward EXCEPT !.pc = "read", !.n = @ + 1]) /\ UNCHANGED standing
             \/ WalkGoes(w, [onward EXCEPT !.pc = "gap", !.gaps = {"page"}]) /\ UNCHANGED standing
             \/ standing' = "needs_user" /\ WalkGoes(w, [onward EXCEPT !.pc = "save"])
  BY DEF TurnPage
<1>3. walk[w].looks + b.looks \in 0..MaxLooks
  <2>1. CASE b \in ButtonSteps(w)
    BY <2>1, LooksWithin
  <2>2. CASE b = [step |-> walk[w].step, looks |-> 0]
    BY <1>1, <2>2
  <2> QED
    BY <1>2, <2>1, <2>2
<1>4. CASE standing' = "needs_user" /\ WalkGoes(w, [walk[w] EXCEPT !.pc = "save", !.looks = @ + b.looks])
  <2> DEFINE new == [walk[w] EXCEPT !.pc = "save", !.looks = @ + b.looks]
  <2>1. WalkTyped(new, fscene)
    BY <1>1, <1>3 DEF WalkTyped, WalkFields, WalkPcs
  <2>2. WalkGoes(w, new)
    BY <1>4
  <2> HIDE DEF new
  <2> QED
    BY <1>1, <1>4, <2>1, <2>2, WalkGoesOn
<1>5. ASSUME NEW at \in PagesAfter(w, b.step.next),
             LET onward == [walk[w] EXCEPT !.looks = @ + b.looks, !.at = at, !.step = NoStep] IN
             \/ WalkGoes(w, [onward EXCEPT !.pc = "read", !.n = @ + 1]) /\ UNCHANGED standing
             \/ WalkGoes(w, [onward EXCEPT !.pc = "gap", !.gaps = {"page"}]) /\ UNCHANGED standing
             \/ standing' = "needs_user" /\ WalkGoes(w, [onward EXCEPT !.pc = "save"])
      PROVE  FormWell'
  <2> DEFINE onward == [walk[w] EXCEPT !.looks = @ + b.looks, !.at = at, !.step = NoStep]
  <2>1. at \in 1..Len(walk[w].pages)
    BY <1>1, <1>5, PagesAfterIs
  <2>2. WalkTyped(onward, fscene) /\ onward.pc = walk[w].pc
    BY <1>1, <1>3, <2>1 DEF WalkTyped, WalkFields
  <2> HIDE DEF onward
  <2>3. /\ WalkTyped([onward EXCEPT !.pc = "read", !.n = @ + 1], fscene)
        /\ WalkTyped([onward EXCEPT !.pc = "gap", !.gaps = {"page"}], fscene)
        /\ WalkTyped([onward EXCEPT !.pc = "save"], fscene)
    BY <1>1, <2>2 DEF WalkTyped, WalkFields, WalkPcs
  <2>4. \/ WalkGoes(w, [onward EXCEPT !.pc = "read", !.n = @ + 1]) /\ UNCHANGED standing
        \/ WalkGoes(w, [onward EXCEPT !.pc = "gap", !.gaps = {"page"}]) /\ UNCHANGED standing
        \/ standing' = "needs_user" /\ WalkGoes(w, [onward EXCEPT !.pc = "save"])
    BY <1>5 DEF onward
  <2> QED
    BY <1>1, <2>3, <2>4, WalkGoesOn
<1> QED
  BY <1>2, <1>4, <1>5

LEMMA FormStaysTyped == ASSUME FormWell, [FormNext]_fvars PROVE FormWell'
<1>1. CASE AnswerField
  <2>1. sheet \in PlanRow /\ sheet.fields \in [Controls -> Fields]
    BY DEF FormWell, PlanRow
  <2>2. PICK k \in Controls : sheet' = [sheet EXCEPT !.fields[k].value = "typed"] /\ standing' = Announced(sheet')
    BY <1>1 DEF AnswerField
  <2>3. sheet.fields[k] \in Fields
    BY <2>1
  <2>4. [sheet.fields[k] EXCEPT !.value = "typed"] \in Fields
    BY <2>3 DEF Fields
  <2> DEFINE field == [sheet.fields[k] EXCEPT !.value = "typed"]
             fields == [sheet.fields EXCEPT ![k] = field]
  <2>5. sheet' = [sheet EXCEPT !.fields = fields]
    BY <2>2
  <2> HIDE DEF field
  <2>6. fields \in [Controls -> Fields]
    BY <2>1, <2>4 DEF field
  <2> HIDE DEF fields
  <2>7. sheet' \in PlanRow
    BY <2>1, <2>5, <2>6 DEF PlanRow
  <2>8. standing' \in Standings
    BY <2>2, AnnouncedIs DEF Standings
  <2> QED
    BY <1>1, <2>7, <2>8 DEF AnswerField, FormWell
<1>2. CASE ApproveForm
  BY <1>2 DEF ApproveForm, FormWell, PlanRow, Standings
<1>3. CASE FormChanges
  BY <1>3 DEF FormChanges, FormWell
<1>4. CASE UNCHANGED fvars
  BY <1>4 DEF fvars, FormWell
<1> QED
  BY <1>1, <1>2, <1>3, <1>4, FormOpened, UsageSaved, PageReadIn, LastLookedFor, PageChecked, FormSent, PageLookedAt,
     PageTurned DEF FormNext

LEMMA FormIsTyped == FormSpec => []FormTypeOK
<1>1. FormInit => FormWell
  <2> SUFFICES ASSUME FormInit PROVE FormWell
    OBVIOUS
  <2>1. /\ fscene \in FormScenes /\ layout = fscene.first /\ standing \in {"needs_user", "queued"}
        /\ sheet = [fields |-> [k \in Controls |-> NoField], steps |-> <<>>, complete |-> FALSE, looks |-> 0]
        /\ walk = [w \in Walkers |-> Resting] /\ approved = [k \in Controls |-> NoField]
    BY DEF FormInit
  <2>2. [k \in Controls |-> NoField] \in [Controls -> Fields]
    BY NoFieldIs
  <2>3. <<>> \in Seq(SUBSET Controls) /\ 0 \in 0..MaxLooks
    BY FormConstants
  <2>4. sheet \in PlanRow
    BY <2>1, <2>2, <2>3 DEF PlanRow
  <2> QED
    BY <2>1, <2>2, <2>4, NoFieldIs DEF FormWell, Standings
<1>2. FormWell => FormTypeOK
  <2> SUFFICES ASSUME FormWell PROVE FormTypeOK
    OBVIOUS
  <2>1. sheet \in PlanRow /\ sheet.steps \in Seq(SUBSET Controls) /\ sheet.fields \in [Controls -> Fields]
        /\ sheet.complete \in BOOLEAN /\ sheet.looks \in 0..MaxLooks
    BY DEF FormWell, PlanRow
  <2>2. \A n \in DOMAIN sheet.steps : sheet.steps[n] \subseteq Controls
    BY <2>1
  <2>3. \A w \in Walkers : WalkTyped(walk[w], fscene)
    BY DEF FormWell
  <2> QED
    BY <2>1, <2>2, <2>3 DEF FormWell, FormTypeOK, WalkTyped, WalkPcs, Standings
<1> QED
  BY <1>1, <1>2, FormStaysTyped, PTL DEF FormSpec

----------------------------------------------------------------------------
(* The seven together *)

LEMMA ServicesAreEach ==
    ServicesSpec => Spec /\ RSpec /\ PackSpec /\ BankSpec /\ LinkSpec /\ BlocksSpec /\ FormSpec
<1>1. ServicesInit => Init /\ RInit /\ PackInit /\ BankInit /\ LinkInit /\ BlocksInit /\ FormInit
  BY DEF ServicesInit
<1>2. [ServicesNext]_svars => [Next]_uvars
  BY DEF ServicesNext, svars
<1>3. [ServicesNext]_svars => [RNext]_rvars
  BY DEF ServicesNext, svars
<1>4. [ServicesNext]_svars => [PackNext]_kvars
  BY DEF ServicesNext, svars
<1>5. [ServicesNext]_svars => [BankNext]_bvars
  BY DEF ServicesNext, svars
<1>6. [ServicesNext]_svars => [LinkNext]_lvars
  BY DEF ServicesNext, svars
<1>7. [ServicesNext]_svars => [BlocksNext]_xvars
  BY DEF ServicesNext, svars
<1>8. [ServicesNext]_svars => [FormNext]_fvars
  BY DEF ServicesNext, svars
<1> QED
  BY <1>1, <1>2, <1>3, <1>4, <1>5, <1>6, <1>7, <1>8, PTL
     DEF ServicesSpec, Spec, RSpec, PackSpec, BankSpec, LinkSpec, BlocksSpec, FormSpec

\* Tables, Redis and the work under way are in states the code knows, whoever
\* calls the services at once and in whatever situations: a slot of a provider
\* is held by a call that is at it or died there, a used token is no live one,
\* and no walk of a form shows a model more screenshots than its limit
\* (accounts, ai_router.py, resume_store.py, answer_bank.py, extension.py,
\* apply_blocks.py, apply/).
THEOREM ServicesAreTyped == ServicesSpec => []TypesOK
BY ServicesAreEach, AccountsAreTyped, RouterIsTyped, PacksAreTyped, BankIsTyped, LinkIsTyped, BlocksAreTyped, FormIsTyped, PTL
   DEF TypesOK
=============================================================================
