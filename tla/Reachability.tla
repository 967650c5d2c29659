---------------------------- MODULE Reachability ----------------------------
(***************************************************************************)
(* Directed graphs as sets of pairs.  A node is reachable when it belongs  *)
(* to every set that holds the start and is closed under the edges, which  *)
(* is what a traversal with a set of visited nodes computes.               *)
(***************************************************************************)

\* S has no edge that leads out of it.
Closed(S, edges) == \A e \in edges : e[1] \in S => e[2] \in S

\* The nodes that lie on a path starting at x, x itself included.
ReachableFrom(x, edges, nodes) ==
    {y \in nodes : \A S \in SUBSET nodes : x \in S /\ Closed(S, edges) => y \in S}

\* No path leads from a node back to itself.
Acyclic(edges, nodes) == \A e \in edges : e[1] \notin ReachableFrom(e[2], edges, nodes)
=============================================================================
