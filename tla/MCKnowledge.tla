---------------------------- MODULE MCKnowledge ----------------------------
(***************************************************************************)
(* One checkout with stl commands and a server.  Recall is asked with      *)
(* listings of one event, and queries of which only the first word is also *)
(* looked up alone; the words are "%", "A", "_", "a" and the letters of    *)
(* which only Rust knows that they are one in two cases.                   *)
(***************************************************************************)
EXTENDS Knowledge

MCWord == 1..6
MCLower == <<1, 4, 3, 4, 6, 6>>
MCAsciiLower == <<1, 4, 3, 4, 5, 6>>

MCText == {<<2>>, <<5, 4>>}
MCAccented == {<<5>>}
MCQuery == {<<>>, <<3, 1>>, <<6, 2>>}
=============================================================================
