------------------------------ MODULE MCAccess ------------------------------
(***************************************************************************)
(* Two servers on one database, as any older or newer binary may have left *)
(* it.  The event store has one migration here, which begins with a write; *)
(* the OAuth store has its three, of which two begin with a read.          *)
(***************************************************************************)
EXTENDS Access, TLC

MCOrder == <<"events", "oauth">>
MCLatest == [events |-> 1, oauth |-> 3]
MCReadsFirst == [events |-> {}, oauth |-> {2, 3}]
Symmetric == Permutations(Proc)
=============================================================================
