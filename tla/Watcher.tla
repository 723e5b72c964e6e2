------------------------------- MODULE Watcher -------------------------------
(***************************************************************************)
(* The file watcher: a backend that turns changes of files into events, a  *)
(* channel, the debouncing front that a consumer calls, and the            *)
(* invalidator that drops the caches of the assets at a changed path.      *)
(*                                                                         *)
(* The backend is the polling scanner, or the one that maps the events of  *)
(* the notify library.  Threads: the files change, imports and the caller  *)
(* of watch and unwatch, the scanner, the consumer.  A version is a file's *)
(* size and time of modification, which both the scanner and the AssetId   *)
(* look at; 0 is no file.                                                  *)
(*                                                                         *)
(* A definition named X_Y is a mutation of X, not part of the model.       *)
(***************************************************************************)
EXTENDS Debouncer, FiniteSets

CONSTANTS
  Path,       \* the paths of files
  Dir,        \* directories that are watched and unwatched
  Under,      \* the paths in each directory and below it
  Backend,    \* the backends a platform may choose
  Changing,   \* bound on the paths that ever hold a file, for each backend
  MaxChange,  \* bound on the versions of files, the first of which is 1
  MaxCall,    \* bound on the calls of watch and unwatch and the faults, together
  MaxFault    \* bound on unreadable entries and failing invalidations

ASSUME WatcherAssumption ==
  /\ Under \in [Dir -> SUBSET Path]
  /\ Backend \subseteq {"polling", "notify"} /\ Changing \in [Backend -> SUBSET Path]
  /\ MaxChange \in Nat /\ MaxCall \in Nat /\ MaxFault \in Nat

VARIABLES
  fs, clock,    \* the version of each file; the last version given
  backend,
  dirs,         \* PollState.directories, or the watches of notify
  files,        \* PollState.files: the version of each tracked path, else 0
  holder,       \* who holds the mutex of PollState: "none", "scanner", "watch"
  watching,     \* the directory of a watch call that scans
  todo, fresh,  \* what its scan has yet to read, and what it has read
  batch,        \* the events the scanner has yet to send
  chan, closed, \* the channel; its senders are gone
  pending, due, \* the debouncer, and how many of its first events are ready
  pc,           \* the consumer: "idle", "recv", "try", "handle", "invalidate"
  work, doomed, \* the events it has received; the assets of the current one
  caches,       \* the assets at each path, by version, that have caches
  importing,    \* an import between AssetId::from_path and its caches
  calls, faults,
  owed,         \* assets whose file has changed since their caches were made
  excused       \* those whose event the watcher is known to lose

fileVars == <<fs, clock>>
scanVars == <<holder, watching, todo, fresh>>
trackVars == <<dirs, files>>
frontVars == <<pending, due, pc, work, doomed>>
assetVars == <<caches, importing>>
historyVars == <<owed, excused>>
vars == <<fileVars, backend, trackVars, scanVars, batch, chan, closed, frontVars,
          assetVars, calls, faults, historyVars>>

Version == 0..MaxChange
Nobody == [p \in Path |-> 0]
Watched(p) == ~closed /\ \E d \in dirs : p \in Under[d]
OwedAt(P) == {x \in owed : x[1] \in P}

Init ==
  /\ backend \in Backend
  /\ \E P \in SUBSET Changing[backend] : fs = [p \in Path |-> IF p \in P THEN 1 ELSE 0]
  /\ clock = 1
  /\ dirs = {} /\ files = Nobody
  /\ holder = "none" /\ watching = {} /\ todo = {} /\ fresh = Nobody
  /\ batch = {} /\ chan = <<>> /\ closed = FALSE
  /\ pending = <<>> /\ due = 0 /\ pc = "idle" /\ work = <<>> /\ doomed = {}
  /\ caches = [p \in Path |-> {}] /\ importing = {}
  /\ calls = 0 /\ faults = 0 /\ owed = {} /\ excused = {}
-----------------------------------------------------------------------------
(* The files, and what the notify library reports of them. *)

Notice(kind, paths) == [kind |-> kind, paths |-> paths]

\* map_notify_event: the raw events sent for an event of the library.
Mapped_OnlyWhole(n) ==
  LET p == n.paths[1] IN
  CASE n.kind = "Create" -> <<Event("Created", p)>>
    [] n.kind = "Remove" -> <<Event("Deleted", p)>>
    [] n.kind = "Both"   -> <<Renamed(p, n.paths[2])>>
    [] n.kind = "Modify" -> <<Event("Modified", p)>>
    [] OTHER             -> <<>>

Mapped(n) ==
  LET p == n.paths[1] IN
  CASE n.kind \in {"Create", "To"}   -> <<Event("Created", p)>>
    [] n.kind \in {"Remove", "From"} -> <<Event("Deleted", p)>>
    [] n.kind = "Both"               -> <<Renamed(p, n.paths[2])>>
    [] n.kind = "Modify"             -> <<Event("Modified", p)>>
    [] OTHER                         -> <<>>

\* External: what inotify and the library tell of a path that is watched.
Tell(p, kind) == IF Watched(p) THEN Mapped(Notice(kind, <<p>>)) ELSE <<>>

TellRename(p, q) ==
  Tell(p, "From") \o Tell(q, "To")
    \o (IF Watched(p) /\ Watched(q) THEN Mapped(Notice("Both", <<p, q>>)) ELSE <<>>)

\* A change of a tracked file is owed to the caches made of what it was.  The
\* scanner cannot see a file that is back to what it found there before.
Owe(new, lost) ==
  /\ owed' = owed \cup {<<p, fs[p]>> : p \in {q \in Path :
                 /\ fs[q] \in caches[q] /\ fs[q] # new[q] /\ Watched(q)
                 /\ backend = "polling" => files[q] # 0}}
  /\ excused' = excused \cup {x \in owed' :
       IF backend = "polling" THEN new[x[1]] = files[x[1]] ELSE x[1] \in lost}

Change(new, events, lost) ==
  /\ clock < MaxChange /\ clock' = clock + 1
  /\ fs' = new
  /\ chan' = IF backend = "notify" THEN chan \o events ELSE chan
  /\ Owe(new, lost)
  /\ UNCHANGED <<backend, trackVars, scanVars, batch, closed, frontVars, assetVars, calls,
                 faults>>

Write(p) ==
  Change([fs EXCEPT ![p] = clock + 1], Tell(p, IF fs[p] = 0 THEN "Create" ELSE "Modify"), {})

Delete(p) == fs[p] # 0 /\ Change([fs EXCEPT ![p] = 0], Tell(p, "Remove"), {})

\* The Renamed event takes the place of the pending one of the new path, and
\* names the old path.
Rename(p, q) ==
  /\ fs[p] # 0 /\ p # q
  /\ Change([fs EXCEPT ![p] = 0, ![q] = fs[p]], TellRename(p, q),
            IF Watched(p) /\ Watched(q) THEN {q} ELSE {})
-----------------------------------------------------------------------------
(* The polling backend.  The mutex is held from the start of a scan to its *)
(* end; files change meanwhile.                                            *)

BeginScan(who, P) ==
  /\ holder = "none" /\ holder' = who
  /\ todo' = P /\ fresh' = Nobody

Fault == faults < MaxFault /\ calls + faults < MaxCall /\ faults' = faults + 1

\* An entry whose metadata, or whose directory, cannot be read is left out.
Read(p) ==
  /\ p \in todo /\ todo' = todo \ {p}
  /\ \/ fresh' = [fresh EXCEPT ![p] = fs[p]] /\ UNCHANGED faults
     \/ fs[p] # 0 /\ Fault /\ UNCHANGED fresh
  /\ UNCHANGED <<fileVars, backend, trackVars, holder, watching, batch, chan, closed,
                 frontVars, assetVars, calls, historyVars>>

ScanBegin ==
  /\ backend = "polling" /\ ~closed /\ batch = {}
  /\ BeginScan("scanner", UNION {Under[d] : d \in dirs})
  /\ UNCHANGED <<fileVars, backend, trackVars, watching, batch, chan, closed, frontVars,
                 assetVars, calls, faults, historyVars>>

Differences ==
  {Event(CASE fresh[p] = 0 -> "Deleted" [] files[p] = 0 -> "Created" [] OTHER -> "Modified",
         p) : p \in {q \in Path : fresh[q] # files[q]}}

ScanEnd_KeepsSnapshot ==
  /\ holder = "scanner" /\ todo = {} /\ holder' = "none"
  /\ batch' = Differences
  /\ UNCHANGED files /\ fresh' = Nobody
  /\ UNCHANGED <<fileVars, backend, dirs, watching, todo, chan, closed, frontVars, assetVars,
                 calls, faults, historyVars>>

ScanEnd ==
  /\ holder = "scanner" /\ todo = {} /\ holder' = "none"
  /\ batch' = Differences
  /\ files' = fresh /\ fresh' = Nobody
  /\ UNCHANGED <<fileVars, backend, dirs, watching, todo, chan, closed, frontVars, assetVars,
                 calls, faults, historyVars>>

\* The mutex is free again; Created events come last.
Send ==
  /\ \E e \in batch :
       /\ e.kind = "Created" => \A f \in batch : f.kind = "Created"
       /\ batch' = batch \ {e}
       /\ chan' = Append(chan, e)
  /\ UNCHANGED <<fileVars, backend, trackVars, scanVars, closed, frontVars, assetVars, calls,
                 faults, historyVars>>
-----------------------------------------------------------------------------
(* watch and unwatch, and the end of the backend. *)

Call == calls + faults < MaxCall /\ calls' = calls + 1 /\ ~closed

\* PollingBackend::watch returns at once if the directory is watched.
WatchBegin(d) ==
  /\ Call /\ backend = "polling" /\ d \notin dirs
  /\ BeginScan("watch", Under[d]) /\ watching' = {d}
  /\ UNCHANGED <<fileVars, backend, trackVars, batch, chan, closed, frontVars, assetVars,
                 faults, historyVars>>

\* files.extend: what the scan has found takes the place of the tracked
\* versions, those of another watched directory included.
WatchEnd ==
  /\ holder = "watch" /\ todo = {} /\ holder' = "none"
  /\ files' = [p \in Path |-> IF fresh[p] # 0 THEN fresh[p] ELSE files[p]]
  /\ dirs' = dirs \cup watching /\ watching' = {}
  /\ excused' = excused \cup OwedAt({p \in Path : files'[p] # files[p]})
  /\ fresh' = Nobody
  /\ UNCHANGED <<fileVars, backend, todo, batch, chan, closed, frontVars, assetVars, calls,
                 faults, owed>>

WatchNotify(d) ==
  /\ Call /\ backend = "notify"
  /\ dirs' = dirs \cup {d}
  /\ UNCHANGED <<fileVars, backend, files, scanVars, batch, chan, closed, frontVars,
                 assetVars, faults, historyVars>>

Unwatch_KeepsFiles(d) ==
  /\ Call /\ holder = "none"
  /\ dirs' = dirs \ {d}
  /\ excused' = excused \cup OwedAt(Under[d])
  /\ UNCHANGED <<fileVars, backend, files, scanVars, batch, chan, closed, frontVars, assetVars,
                 faults, owed>>

\* The paths are forgotten even if another watched directory has them too.
Unwatch(d) ==
  /\ Call /\ holder = "none"
  /\ dirs' = dirs \ {d}
  /\ files' = [p \in Path |-> IF p \in Under[d] THEN 0 ELSE files[p]]
  /\ excused' = excused \cup OwedAt(Under[d])
  /\ UNCHANGED <<fileVars, backend, scanVars, batch, chan, closed, frontVars, assetVars,
                 faults, owed>>

\* The backend is dropped: the scanner sends what it has found and is joined.
Close ==
  /\ Call /\ holder = "none" /\ batch = {}
  /\ closed' = TRUE
  /\ excused' = excused \cup OwedAt({p \in Path : backend = "polling" /\ fs[p] # files[p]})
  /\ UNCHANGED <<fileVars, backend, trackVars, scanVars, batch, chan, frontVars, assetVars,
                 faults, owed>>
-----------------------------------------------------------------------------
(* The front: MediaWatcher and its debouncer, called by one consumer. *)

frontRest == <<fileVars, backend, trackVars, scanVars, batch, closed, assetVars, calls,
               faults, owed>>

\* The first pending window has elapsed.
Elapse ==
  /\ due < Len(pending) /\ due' = due + 1
  /\ UNCHANGED <<frontRest, chan, pending, pc, work, doomed, excused>>

InRecv == pc \in {"idle", "recv"}
InTry == pc \in {"idle", "try"}

\* recv takes a ready event first, try_recv empties the channel first.
PopReady ==
  /\ InRecv \/ (InTry /\ chan = <<>> /\ ~closed)
  /\ due > 0
  /\ work' = <<Head(pending)>> /\ pc' = "handle"
  /\ pending' = Tail(pending) /\ due' = due - 1
  /\ UNCHANGED <<frontRest, chan, doomed, excused>>

PushRaw ==
  /\ (InRecv /\ due = 0 /\ pc' = "recv") \/ (InTry /\ pc' = "try")
  /\ chan # <<>>
  /\ chan' = Tail(chan)
  /\ pending' = Push(pending, Head(chan))
  /\ due' = DueAfterPush(pending, due, Head(chan))
  /\ UNCHANGED <<frontRest, work, doomed, excused>>

\* try_recv without a ready event, or with the channel closed.
TryNone ==
  /\ pc = "try" /\ chan = <<>> /\ (due = 0 \/ closed)
  /\ pc' = "idle"
  /\ UNCHANGED <<frontRest, chan, pending, due, work, doomed, excused>>

\* recv with the channel closed drops what is still inside its window.
RecvClosed ==
  /\ InRecv /\ due = 0 /\ chan = <<>> /\ closed
  /\ pc' = "idle" /\ pending' = <<>>
  /\ excused' = excused \cup OwedAt(TargetsOf(pending))
  /\ UNCHANGED <<frontRest, chan, due, work, doomed>>

DrainPending ==
  /\ pc = "idle" /\ pending # <<>>
  /\ pc' = "handle" /\ work' = pending
  /\ pending' = <<>> /\ due' = 0
  /\ UNCHANGED <<frontRest, chan, doomed, excused>>
-----------------------------------------------------------------------------
(* CacheInvalidator, and imports. *)

handleRest == <<fileVars, backend, trackVars, scanVars, batch, chan, closed, pending, due,
                importing, calls>>

Target == TargetPath(Head(work))

\* The next event of handle_all, or back to the consumer.
NextEvent ==
  /\ work' = Tail(work)
  /\ pc' = IF Tail(work) = <<>> THEN "idle" ELSE "handle"

\* handle_event, get_assets_by_path.
LookUp ==
  /\ pc = "handle"
  /\ doomed' = caches[Target]
  /\ IF doomed' = {} THEN NextEvent ELSE pc' = "invalidate" /\ UNCHANGED work
  /\ UNCHANGED <<handleRest, caches, faults, historyVars>>

\* invalidate_asset for one of them.
Invalidate(v) ==
  /\ pc = "invalidate" /\ v \in doomed
  /\ doomed' = doomed \ {v}
  /\ caches' = [caches EXCEPT ![Target] = @ \ {v}]
  /\ owed' = owed \ {<<Target, v>>}
  /\ IF doomed' = {} THEN NextEvent ELSE UNCHANGED <<pc, work>>
  /\ UNCHANGED <<handleRest, faults, excused>>

\* An error ends handle_all: the event and those behind it are gone.
HandleFails ==
  /\ pc = "invalidate"
  /\ Fault
  /\ pc' = "idle" /\ work' = <<>> /\ doomed' = {}
  /\ excused' = excused \cup OwedAt(TargetsOf(work))
  /\ UNCHANGED <<handleRest, caches, owed>>

\* AssetId::from_path, and later the caches of that id.
ImportBegin(p) ==
  /\ importing = {} /\ fs[p] # 0
  /\ importing' = {<<p, fs[p]>>}
  /\ UNCHANGED <<fileVars, backend, trackVars, scanVars, batch, chan, closed, frontVars,
                 caches, calls, faults, historyVars>>

ImportEnd ==
  /\ \E x \in importing :
       /\ caches' = [caches EXCEPT ![x[1]] = @ \cup {x[2]}]
       /\ owed' = owed \ {x} /\ excused' = excused \ {x}
  /\ importing' = {}
  /\ UNCHANGED <<fileVars, backend, trackVars, scanVars, batch, chan, closed, frontVars,
                 calls, faults>>
-----------------------------------------------------------------------------
Scanner == ScanBegin \/ (\E p \in Path : Read(p)) \/ ScanEnd \/ Send

Consumer ==
  \/ PopReady \/ PushRaw \/ TryNone \/ RecvClosed \/ DrainPending
  \/ LookUp \/ HandleFails \/ \E v \in Version : Invalidate(v)

Next ==
  \/ \E p \in Changing[backend] : Write(p) \/ Delete(p) \/ ImportBegin(p)
  \/ \E p, q \in Changing[backend] : Rename(p, q)
  \/ ImportEnd
  \/ \E d \in Dir : WatchBegin(d) \/ WatchNotify(d) \/ Unwatch(d)
  \/ WatchEnd \/ Close \/ Scanner \/ Elapse \/ Consumer

Spec == Init /\ [][Next]_vars

\* The scanner and the consumer are threads, and time passes.  Nothing else
\* has to happen.
FairSpec ==
  /\ Spec
  /\ WF_vars(Scanner) /\ WF_vars(WatchEnd) /\ WF_vars(Elapse) /\ WF_vars(Consumer)
=============================================================================
