------------------------------ MODULE Debouncer ------------------------------
(***************************************************************************)
(* The events of the file watcher and the EventDebouncer of debounce.rs.   *)
(*                                                                         *)
(* Every event gets the same quiet window, counted from its push, so the   *)
(* pending events ordered by ready_at are in the order of their pushes:    *)
(* the map of pending events is a sequence, and those whose window has     *)
(* elapsed are its first ones.                                             *)
(***************************************************************************)
EXTENDS Integers, Sequences

\* old is the path a file was renamed from, and the event's own path else.
Event(kind, path) == [kind |-> kind, path |-> path, old |-> path]
Renamed(from, to) == [kind |-> "Renamed", path |-> to, old |-> from]

\* CacheInvalidator::handle_event: the path whose assets are looked up.
TargetPath(e) == IF e.kind = "Renamed" THEN e.old ELSE e.path

TargetsOf(s) == {TargetPath(s[i]) : i \in DOMAIN s}

RemoveIndex(s, i) == [k \in 1..Len(s) - 1 |-> IF k < i THEN s[k] ELSE s[k + 1]]

Holds(s, path) == \E i \in DOMAIN s : s[i].path = path

IndexOf(s, path) == CHOOSE i \in DOMAIN s : s[i].path = path

\* EventDebouncer::push: a newer event of the path replaces the pending one
\* and restarts its window.
Push(s, e) ==
  Append(IF Holds(s, e.path) THEN RemoveIndex(s, IndexOf(s, e.path)) ELSE s, e)

\* How many of the first due events are left to be due after the push.
DueAfterPush(s, due, e) ==
  IF Holds(s, e.path) /\ IndexOf(s, e.path) <= due THEN due - 1 ELSE due
=============================================================================
