----------------------------- MODULE MCGateway -----------------------------
(***************************************************************************)
(* Two requests at a time on two listeners, of a gateway with one project  *)
(* that an external stl works on.  A second project of that name is added  *)
(* while the gateway runs, of a repository that nobody has used yet, and   *)
(* its owner may write another one under that name into the file.  The     *)
(* definitions "Work" are for one fresh repository, in process or with an  *)
(* external stl.                                                           *)
(***************************************************************************)
EXTENDS Gateway, TLC

MCBase == {"main"}
MCConfig == <<"main", 1>> :> "there"
MCWorkConfig == <<"main", 1>> :> "here"
MCDefault == <<"main", 1>>

Add(l, repo, use) == [listener |-> l, op |-> "add", base |-> "main", repo |-> repo, use |-> use]
Use(l, n) == [listener |-> l, op |-> "use", name |-> <<"main", n>>]
Do(l, op, name) == [listener |-> l, op |-> op, name |-> name]

MCAsked ==
    {Add("a", "here", TRUE), Use("b", 2),
     Do("b", "read", <<"main", 2>>), Do("a", "write", <<"main", 2>>)}

MCStlAsked == {Do("a", "read", <<"main", 1>>), Do("a", "write", <<"main", 1>>)}
MCWorkAsked == MCStlAsked \cup {Do("a", "read", None)}

\* Connections are interchangeable; the working runs check invariants only.
MCSymmetry == Permutations(Conn)

MCEdits == {[name |-> <<"main", 2>>, repo |-> "there"]}
=============================================================================
