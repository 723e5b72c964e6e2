-------------------------------- MODULE Import --------------------------------
(***************************************************************************)
(* The import command: identify and probe a file, register the asset,      *)
(* submit its jobs, wait for them on the progress tracker, and list what   *)
(* they have made, while files change and events invalidate assets.        *)
(*                                                                         *)
(* The file at a path is a version, 0 if there is none.  A version is its  *)
(* time of modification, and stands for the content too.  Paths may be     *)
(* aliases (links, relative paths) of the path Real gives.                 *)
(*                                                                         *)
(* A definition named X_Y is a mutation of X, not part of the model.       *)
(***************************************************************************)
EXTENDS AssetTable, FiniteSets

CONSTANTS
  Path,         \* the paths given to the program
  NoPath,       \* none of them
  Real,         \* the canonical path of each, while its file exists
  Hash,         \* hash_path of each
  TextOf,       \* to_string_lossy of each
  ImageNamed,   \* those with the extension of an image
  Media,        \* what a version is: "video", "audio", "other"
  Prior,        \* the sets of paths that may have been imported before
  MaxChange,    \* bound on the changes of files
  MaxImport,    \* bound on the runs of the command
  MaxEvent,     \* bound on the events that invalidate
  MaxFault      \* bound on the jobs that fail

Version == 1..(MaxChange + 1)

ASSUME ImportAssumption ==
  /\ NoPath \notin Path
  /\ Real \in [Path -> Path] /\ \A p \in Path : Real[Real[p]] = Real[p]
  /\ Hash \in [Path -> Nat] /\ \A p, q \in Path : Hash[p] = Hash[q] => p = q
  /\ TextOf \in [Path -> Seq(Nat)] /\ \A p, q \in Path : TextOf[p] = TextOf[q] => p = q
  /\ ImageNamed \subseteq Path
  /\ Media \in [Version -> {"video", "audio", "other"}]
  /\ Prior \subseteq SUBSET Path
  /\ \A P \in Prior : \A p, q \in P : Real[p] = Real[q] => p = q
  /\ MaxChange \in Nat /\ MaxImport \in Nat /\ MaxEvent \in Nat /\ MaxFault \in Nat

VARIABLES
  fs, changes,  \* the version at each canonical path; how often they have changed
  assets,       \* ASSETS: rows by key
  entries,      \* CACHE_ENTRIES: by key, the version the cache was made from
  pc,           \* the command: "idle", "canonical", "probe", "register", "submit",
                \*   "wait", "stop", "list"
  path, stat,   \* its argument (NoPath: none), and the version metadata() has seen
  id, info,     \* the AssetId, and the MediaInfo
  jobs,         \* the tracker: state of each job, in the order of submission
  source,       \* the version each job has opened
  notify,       \* an update has still to signal the condition variable
  cursor, ended,\* the job that is waited for, and how many were terminal
  asleep,       \* the command waits on the condition variable
  doomed,       \* assets that the invalidator has still to drop
  imports, events, faults,
  owner,        \* path under which each asset was last imported
  target,       \* paths of the file of the current event
  due,          \* entries that it has to drop
  swept         \* an entry has been dropped since the jobs were submitted

fileVars == <<fs, changes>>
cmdVars == <<pc, path, stat, id, info, imports>>
jobVars == <<jobs, source, notify, faults>>
waitVars == <<cursor, ended, asleep>>
eventVars == <<doomed, events, target, due>>
vars == <<fileVars, assets, entries, cmdVars, jobVars, waitVars, eventVars, owner, swept>>

None == <<>>

At(p) == fs[Real[p]]

SizeOf(v) == v % 2
IdOf(p, v) == <<Hash[p], v, SizeOf(v)>>

With(f, k, v) == [x \in DOMAIN f \cup {k} |-> IF x = k THEN v ELSE f[x]]

\* What the decoders tell of version v of a video, or of an audio file.
VideoRow(i, p, v) ==
  [id |-> i, path |-> TextOf[p], media |-> "video",
   rest |-> <<1, v>> \o StreamInfo(v, <<v, 0>>, <<1, v>>) \o NoStreamInfo]
AudioRow(i, p, v) ==
  [id |-> i, path |-> TextOf[p], media |-> "audio",
   rest |-> <<0>> \o NoStreamInfo \o StreamInfo(v, <<v>>, <<0>>)]
ImageRow(i, p) ==
  [id |-> i, path |-> TextOf[p], media |-> "image", rest |-> <<0>> \o NoStreamInfo \o NoStreamInfo]

\* Each media type has two jobs, an image none.
TagsOf(media) ==
  CASE media = "audio" -> <<0, 3>>
    [] media = "video" -> <<1, 2>>
    [] OTHER -> <<>>

\* The database holds imports of some of the files, as they still are.
Init ==
  \E P \in Prior :
    LET Id1(p) == IdOf(Real[p], 1)
        Row(p) == IF Media[1] = "video" THEN VideoRow(Id1(p), p, 1) ELSE AudioRow(Id1(p), p, 1)
        Of(key) == CHOOSE p \in P : KeyBytes(Id1(p)) = key
        KeysOf(p) == {CacheKey(Id1(p), TagsOf(Row(p).media)[n]) : n \in {1, 2}}
    IN
    /\ fs = [r \in {Real[q] : q \in Path} |-> 1] /\ changes = 0
    /\ assets = [key \in {KeyBytes(Id1(p)) : p \in P} |-> EncodeInfo(Row(Of(key)))]
    /\ owner = [key \in DOMAIN assets |-> Of(key)]
    /\ entries = [k \in UNION {KeysOf(p) : p \in P} |-> 1]
    /\ pc = "idle" /\ path = NoPath /\ stat = 0 /\ id = <<>> /\ info = None
    /\ jobs = <<>> /\ source = <<>> /\ notify = FALSE
    /\ cursor = 1 /\ ended = 0 /\ asleep = FALSE
    /\ doomed = {} /\ imports = 0 /\ events = 0 /\ faults = 0
    /\ target = {} /\ due = {} /\ swept = FALSE
-----------------------------------------------------------------------------
(* Files. *)

\* External: a file is written, or removed.
ChangeFile(p) ==
  /\ changes < MaxChange /\ changes' = changes + 1
  /\ fs' = [fs EXCEPT ![p] = changes + 2] \/ (fs[p] # 0 /\ fs' = [fs EXCEPT ![p] = 0])
  /\ UNCHANGED <<assets, entries, cmdVars, jobVars, waitVars, eventVars, owner, swept>>

\* canonicalize fails without the file, and the path is taken as given.
Canonical(p) == IF At(p) = 0 THEN p ELSE Real[p]
-----------------------------------------------------------------------------
(* import_with_jobs. *)

\* metadata(), in from_path.
Stat(p) ==
  /\ pc = "idle" /\ imports < MaxImport /\ imports' = imports + 1
  /\ At(p) # 0
  /\ pc' = "canonical" /\ path' = p /\ stat' = At(p)
  /\ UNCHANGED <<fileVars, assets, entries, id, info, jobVars, waitVars, eventVars, owner, swept>>

Identify ==
  /\ pc = "canonical" /\ pc' = "probe"
  /\ id' = IdOf(Canonical(path), stat)
  /\ UNCHANGED <<fileVars, assets, entries, path, stat, info, imports, jobVars, waitVars,
                 eventVars, owner, swept>>

\* probe_media_info: what the decoders and the extension say of the file.
Probed ==
  LET v == At(path) IN
  CASE v # 0 /\ Media[v] = "video" -> {VideoRow(id, path, v)}
    [] v # 0 /\ Media[v] = "audio" -> {AudioRow(id, path, v)}
    [] OTHER -> IF path \in ImageNamed THEN {ImageRow(id, path)} ELSE {}

\* The process ends; jobs that are pending stay in the database.
Exit ==
  /\ pc' = "idle" /\ stat' = 0 /\ id' = <<>> /\ info' = None
  /\ jobs' = <<>> /\ source' = <<>> /\ cursor' = 1 /\ ended' = 0 /\ asleep' = FALSE
  /\ swept' = FALSE
  /\ path' = NoPath /\ UNCHANGED imports

Probe ==
  /\ pc = "probe"
  /\ \/ \E i \in Probed : info' = i /\ pc' = "register"
        /\ UNCHANGED <<path, stat, id, imports, jobs, source, waitVars, swept>>
     \/ Probed = {} /\ Exit
  /\ UNCHANGED <<fileVars, assets, entries, notify, faults, eventVars, owner>>

Register_Restats ==
  LET i == [info EXCEPT !.id = IdOf(Canonical(path), At(path))] IN
  /\ pc = "register" /\ pc' = "submit" /\ info' = i
  /\ assets' = With(assets, KeyBytes(i.id), EncodeInfo(i))
  /\ owner' = With(owner, KeyBytes(i.id), path)
  /\ UNCHANGED <<fileVars, entries, path, stat, id, imports, jobVars, waitVars, eventVars, swept>>

\* upsert_asset.
Register ==
  /\ pc = "register" /\ pc' = "submit"
  /\ assets' = With(assets, KeyBytes(info.id), EncodeInfo(info))
  /\ owner' = With(owner, KeyBytes(info.id), path)
  /\ UNCHANGED <<fileVars, entries, path, stat, id, info, imports, jobVars, waitVars,
                 eventVars, swept>>

Tags == TagsOf(info.media)

\* ProgressTracker::register.
Track == jobs' = Append(jobs, "Pending") /\ source' = Append(source, 0)

\* submit, and the wait for all of them after it.
Submit ==
  /\ pc = "submit"
  /\ IF Len(jobs) < Len(Tags)
     THEN Track /\ UNCHANGED <<pc, waitVars>>
     ELSE /\ pc' = "wait" /\ cursor' = 1 /\ ended' = 0 /\ asleep' = FALSE
          /\ UNCHANGED <<jobs, source>>
  /\ UNCHANGED <<fileVars, assets, entries, path, stat, id, info, imports, notify, faults,
                 eventVars, owner, swept>>
-----------------------------------------------------------------------------
(* The workers. *)

IsTerminal(s) == s \in {"Completed", "Failed"}

UpdateState_Silent(j, s) == jobs' = [jobs EXCEPT ![j] = s] /\ UNCHANGED notify

\* update_state: the state under the lock; the signal follows after it.
UpdateState(j, s) == jobs' = [jobs EXCEPT ![j] = s] /\ notify' = TRUE

Signal ==
  /\ notify /\ notify' = FALSE /\ asleep' = FALSE
  /\ UNCHANGED <<fileVars, assets, entries, cmdVars, jobs, source, faults, cursor, ended, eventVars,
                 owner, swept>>

\* A job begins unless the pipeline is stopped, and opens its file.
JobBegins(j) ==
  /\ jobs[j] = "Pending" /\ pc \in {"submit", "wait"}
  /\ UpdateState(j, "Running")
  /\ source' = [source EXCEPT ![j] = At(path)]
  /\ UNCHANGED <<fileVars, assets, entries, cmdVars, faults, waitVars, eventVars, owner, swept>>

\* update_fraction signals, too.
JobReports(j) ==
  /\ jobs[j] = "Running" /\ ~notify /\ notify' = TRUE /\ asleep
  /\ UNCHANGED <<fileVars, assets, entries, cmdVars, jobs, source, faults, waitVars, eventVars,
                 owner, swept>>

Renders(j) == source[j] # 0 /\ Media[source[j]] = info.media

\* The job has made its cache and records it.
JobRecords(j) ==
  LET key == CacheKey(info.id, Tags[j]) IN
  /\ jobs[j] = "Running" /\ Renders(j)
  /\ jobs' = [jobs EXCEPT ![j] = "Recorded"]
  /\ entries' = With(entries, key, source[j])
  /\ due' = due \ {key}
  /\ UNCHANGED <<fileVars, assets, cmdVars, source, notify, faults, waitVars, doomed, events,
                 target, owner, swept>>

EndsOf_Early(j) == {"Running", "Recorded"}
EndsOf(j) == {"Recorded"}

JobCompletes(j) ==
  /\ jobs[j] \in EndsOf(j) /\ Renders(j)
  /\ UpdateState(j, "Completed")
  /\ UNCHANGED <<fileVars, assets, entries, cmdVars, source, faults, waitVars, eventVars, owner,
                 swept>>

JobFails(j) ==
  /\ jobs[j] = "Running"
  /\ \/ ~Renders(j) /\ UNCHANGED faults
     \/ faults < MaxFault /\ faults' = faults + 1
  /\ UpdateState(j, "Failed")
  /\ UNCHANGED <<fileVars, assets, entries, cmdVars, source, waitVars, eventVars, owner, swept>>
-----------------------------------------------------------------------------
(* cmd_import: wait_for_timeout for each job, again until all are terminal *)
(* or the deadline has passed; stop joins the workers.                     *)

NextJob(settled) == cursor' = cursor + 1 /\ ended' = ended + settled /\ asleep' = FALSE

\* The check and the wait are one step: the mutex is held between them.
Wait ==
  /\ pc = "wait" /\ cursor <= Len(jobs) /\ ~asleep
  /\ IF IsTerminal(jobs[cursor]) THEN NextJob(1) ELSE asleep' = TRUE /\ UNCHANGED <<cursor, ended>>
  /\ UNCHANGED <<fileVars, assets, entries, cmdVars, jobVars, eventVars, owner, swept>>

TimeOut ==
  /\ pc = "wait" /\ asleep /\ NextJob(0)
  /\ UNCHANGED <<fileVars, assets, entries, cmdVars, jobVars, eventVars, owner, swept>>

WaitedForAll ==
  /\ pc = "wait" /\ cursor > Len(jobs)
  /\ \/ ended = Len(jobs) /\ pc' = "stop" /\ UNCHANGED <<cursor, ended>>
     \/ ended < Len(jobs) /\ cursor' = 1 /\ ended' = 0 /\ UNCHANGED pc
     \/ ended < Len(jobs) /\ pc' = "stop" /\ UNCHANGED <<cursor, ended>>
  /\ UNCHANGED <<fileVars, assets, entries, path, stat, id, info, imports, jobVars, asleep,
                 eventVars, owner, swept>>

Idle(j) == jobs[j] = "Pending" \/ IsTerminal(jobs[j])

Stop ==
  /\ pc = "stop" /\ ~notify /\ \A j \in 1..Len(jobs) : Idle(j)
  /\ IF ended = Len(jobs)
     THEN pc' = "list" /\ UNCHANGED <<path, stat, id, info, imports, jobVars, waitVars, swept>>
     ELSE Exit /\ UNCHANGED <<notify, faults>>
  /\ UNCHANGED <<fileVars, assets, entries, eventVars, owner>>

\* list_cache_entries, and what is listed is printed.
List ==
  /\ pc = "list" /\ Exit
  /\ UNCHANGED <<fileVars, assets, entries, notify, faults, eventVars, owner>>
-----------------------------------------------------------------------------
(* The invalidator, in a process of its own. *)

PathOf(text) == CHOOSE p \in Path : TextOf[p] = text

AssetsAt_AsGiven(p) == {i.id : i \in {x \in ListAssets(assets) : PathOf(x.path) = p}}

\* get_assets_by_path.
AssetsAt(p) == {i.id : i \in {x \in ListAssets(assets) : Canonical(PathOf(x.path)) = Canonical(p)}}

EntriesOf(P) == {k \in DOMAIN entries : owner[SubSeq(k, 1, Len(k) - 1)] \in P}

\* Without the file the paths are compared as they are.
LookUp(p) ==
  /\ doomed = {} /\ events < MaxEvent /\ events' = events + 1
  /\ doomed' = AssetsAt(p)
  /\ target' = IF doomed' = {} THEN {} ELSE {q \in Path : Real[q] = Real[p]}
  /\ due' = EntriesOf(IF At(p) = 0 THEN {p} ELSE {q \in Path : Real[q] = Real[p]})
  /\ UNCHANGED <<fileVars, assets, entries, cmdVars, jobVars, waitVars, owner, swept>>

\* invalidate_caches; the files are in module Artifacts.
Drop ==
  /\ \E i \in doomed :
       LET gone == Dropped(DOMAIN entries, i) IN
       /\ doomed' = doomed \ {i}
       /\ entries' = [k \in DOMAIN entries \ gone |-> entries[k]]
       /\ due' = due \ gone
       /\ swept' = (swept \/ (jobs # <<>> /\ gone # {}))
  /\ target' = IF doomed' = {} THEN {} ELSE target
  /\ UNCHANGED <<fileVars, assets, cmdVars, jobVars, waitVars, events, owner>>
-----------------------------------------------------------------------------
Worker ==
  \E j \in 1..Len(jobs) :
    JobBegins(j) \/ JobReports(j) \/ JobRecords(j) \/ JobCompletes(j) \/ JobFails(j)

Command ==
  \/ (\E p \in Path : Stat(p)) \/ Identify \/ Probe \/ Register \/ Submit
  \/ Wait \/ TimeOut \/ WaitedForAll \/ Stop \/ List

Next ==
  \/ \E p \in DOMAIN fs : ChangeFile(p)
  \/ Command \/ Worker \/ Signal
  \/ (\E p \in Path : LookUp(p)) \/ Drop

Spec == Init /\ [][Next]_vars

\* Threads that can run do; the time-outs of the waits are not relied upon.
Runs ==
  /\ WF_vars(Identify \/ Probe \/ Register \/ Submit \/ Wait \/ WaitedForAll \/ Stop \/ List)
  /\ WF_vars(Signal) /\ WF_vars(Drop)
  /\ \A j \in 1..2 :
       WF_vars(j \in DOMAIN jobs
                 /\ (JobBegins(j) \/ JobRecords(j) \/ JobCompletes(j) \/ JobFails(j)))

FairSpec == Spec /\ Runs
=============================================================================
