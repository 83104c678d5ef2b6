------------------------------ MODULE Services ------------------------------
(***************************************************************************)
(* The services a request calls: accounts, the AI router, resumes and       *)
(* packs, the answer bank, the browser extension, the pauses of blocked     *)
(* platforms, and the forms a run walks.  They share a process and a        *)
(* database, and none of them writes what another one keeps: their steps    *)
(* interleave.                                                              *)
(***************************************************************************)
EXTENDS Accounts, AiRouter, ApplyPack, AnswerBank, ExtensionLink, ApplyBlocks, FormWalk

svars == <<uvars, rvars, kvars, bvars, lvars, xvars, fvars>>

ServicesInit == Init /\ RInit /\ PackInit /\ BankInit /\ LinkInit /\ BlocksInit /\ FormInit
ServicesNext ==
    \/ Next /\ UNCHANGED <<rvars, kvars, bvars, lvars, xvars, fvars>>
    \/ RNext /\ UNCHANGED <<uvars, kvars, bvars, lvars, xvars, fvars>>
    \/ PackNext /\ UNCHANGED <<uvars, rvars, bvars, lvars, xvars, fvars>>
    \/ BankNext /\ UNCHANGED <<uvars, rvars, kvars, lvars, xvars, fvars>>
    \/ LinkNext /\ UNCHANGED <<uvars, rvars, kvars, bvars, xvars, fvars>>
    \/ BlocksNext /\ UNCHANGED <<uvars, rvars, kvars, bvars, lvars, fvars>>
    \/ FormNext /\ UNCHANGED <<uvars, rvars, kvars, bvars, lvars, xvars>>

ServicesSpec == ServicesInit /\ [][ServicesNext]_svars

----------------------------------------------------------------------------
(* Properties *)

\* Tables, Redis and the work under way are in states the code knows.
TypesOK == TypeOK /\ RouterTypeOK /\ PackTypeOK /\ BankTypeOK /\ LinkTypeOK /\ BlocksTypeOK /\ FormTypeOK
=============================================================================
