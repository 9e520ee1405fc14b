---------------------------- MODULE MCRemoteSync ----------------------------
(***************************************************************************)
(* RemoteSync for TLC: two replicas, p2 in the second and the others in    *)
(* the first, with clocks that agree or with the second one ahead.         *)
(***************************************************************************)
EXTENDS RemoteSync

MCHome        == [p \in Process |-> IF p = "p2" THEN 2 ELSE 1]
MCNoSkew      == [r \in Replica |-> 0]
MCSecondAhead == [r \in Replica |-> IF r = 2 THEN 1 ELSE 0]
=============================================================================
