-------------------------- MODULE MCWorktreeLaunch --------------------------
(* Small instances of WorktreeLaunch for TLC. *)
EXTENDS WorktreeLaunch, TLC

CONSTANTS l1, l2, p1, p2, d1, d2

Launch(p, d, title, prompt) == [proc |-> p, dest |-> d, title |-> title, prompt |-> prompt]

(* Launches of one process, and of two, for one destination. *)
OneDestination ==
  {Launch(p1, d1, TRUE, TRUE), Launch(p2, d1, FALSE, TRUE), Launch(p1, d1, FALSE, FALSE)}

(* d2 lies inside d1. *)
Nested == {<<d2, d1>>}
NestedDestinations == {Launch(p1, d1, FALSE, FALSE), Launch(p2, d2, FALSE, FALSE)}
=============================================================================
