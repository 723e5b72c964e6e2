-------------------------- MODULE WatcherProperties --------------------------
(***************************************************************************)
(* What the watcher promises about caches of files that have changed.      *)
(***************************************************************************)
EXTENDS Watcher

\* Events of the current one's target have yet to be looked up.
InWork(p) ==
  \/ pc = "handle" /\ p \in TargetsOf(work)
  \/ pc = "invalidate" /\ p \in TargetsOf(Tail(work))

EventOnTheWay(p) ==
  \/ \E e \in batch : TargetPath(e) = p
  \/ p \in TargetsOf(chan)
  \/ p \in TargetsOf(pending)
  \/ InWork(p)

\* The next scan finds the path changed.
ScanWillFind(p) == backend = "polling" /\ Watched(p) /\ files[p] # fs[p]

BeingDropped(p, v) == pc = "invalidate" /\ Target = p /\ v \in doomed

(* invalidate.rs:4-8: when a watched file changes, what leads to the end of
   its caches is on the way until they are gone, whatever reads, events and
   calls come in between. *)
StaleIsOnTheWay ==
  \A x \in owed \ excused :
    fs[x[1]] # x[2] => \/ EventOnTheWay(x[1]) \/ ScanWillFind(x[1])
                       \/ BeingDropped(x[1], x[2])

(* The same with nothing excused. *)
StaleIsFound ==
  \A x \in owed :
    fs[x[1]] # x[2] => \/ EventOnTheWay(x[1]) \/ ScanWillFind(x[1])
                       \/ BeingDropped(x[1], x[2])

InFlight(p) ==
  Cardinality({e \in batch : e.path = p})
    + Cardinality({i \in DOMAIN chan : chan[i].path = p})

(* tests/watcher_integration.rs:87-97: a path that is not watched adds no
   event to those on the way. *)
UnwatchedIsQuiet ==
  [][\A p \in Path : ~Watched(p) => InFlight(p)' <= InFlight(p)]_vars

(* Caches of changed files are dropped in the end, as changes stop. *)
StaleIsDropped == []<>(\A x \in owed \ excused : fs[x[1]] = x[2])
=============================================================================
