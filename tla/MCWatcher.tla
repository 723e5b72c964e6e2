------------------------------ MODULE MCWatcher ------------------------------
(***************************************************************************)
(* Small instances of the watcher for TLC: two directories, one inside the *)
(* other.                                                                  *)
(***************************************************************************)
EXTENDS WatcherProperties

CONSTANTS root, sub, p1, p2

Nested == [d \in Dir |-> IF d = root THEN {p1, p2} ELSE {p2}]
OneOrBoth == [b \in Backend |-> IF b = "polling" THEN {p2} ELSE {p1, p2}]
=============================================================================
