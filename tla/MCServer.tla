------------------------------- MODULE MCServer -------------------------------
(***************************************************************************)
(* A small instance of Server: three connections, of which two may be open *)
(* at a time, as many socket handles, and one publisher that may die.      *)
(***************************************************************************)
EXTENDS Server

CONSTANTS c1, c2, c3, h1, h2, h3, p1

ThreeConnections == {c1, c2, c3}
ThreeHandles == {h1, h2, h3}
OnePublisher == {p1}
===============================================================================
