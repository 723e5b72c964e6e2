------------------------------ MODULE Artifacts ------------------------------
(***************************************************************************)
(* What is derived from one asset: the files of its caches and proxies,    *)
(* the database rows that register them, the jobs that make them, and      *)
(* invalidate_asset, which removes both.  Files and rows have no common    *)
(* transaction and jobs no lock; a process may end between any two steps.  *)
(*                                                                         *)
(* A path names an inode; a job writes to the inode it has opened, whatever *)
(* has become of the path.  A file is its header and its parts, each with  *)
(* the profile it was made for, 0 for nothing.                             *)
(*                                                                         *)
(* A definition named X_Y is a mutation of X, not part of the model.       *)
(***************************************************************************)
EXTENDS Integers, Sequences

CONSTANTS
  Job,        \* jobs of the asset
  KindOf,     \* the kind of each
  ProfileOf,  \* its profile or parameters
  Parts,      \* how many parts an artifact has
  MaxRun,     \* bound on the runs of jobs
  MaxCall,    \* bound on the calls of invalidate_asset
  MaxFault,   \* bound on failing steps and cancellations
  MaxCrash    \* bound on the ends of processes

Kind == {"waveform", "thumbnails", "video_proxy", "audio_proxy"}

ASSUME ArtifactsAssumption ==
  /\ KindOf \in [Job -> Kind] /\ ProfileOf \in [Job -> Nat \ {0}]
  /\ Parts \in Nat /\ MaxRun \in Nat /\ MaxCall \in Nat
  /\ MaxFault \in Nat /\ MaxCrash \in Nat

VARIABLES
  name, image,  \* the inode at the path of each kind, 0 for none; the inodes
  rows,         \* the kinds that are registered
  pc,           \* the step of each job: "idle", "source", "create", "write", "record", "remove"
  at, part,     \* the inode it writes to, and how many parts it has written
  inv,          \* the step of invalidate_asset: "idle", "listed", "sweep", "rows"
  todo,         \* the kinds whose files it has yet to remove in this step
  runs, invs, faults, crashes,
  torn,         \* proxies left incomplete by a crash or a failed removal
  met,          \* kinds on which two jobs, or a job and an invalidation, have met
  spoiled,      \* registered kinds that a job writes again, or whose invalidation
                \* has ended early
  promised,     \* kinds that no job has run on since the last invalidation began, if
                \* it has removed what it meant to
  known         \* the kinds that invalidation has found registered

fileVars == <<name, image>>
jobVars == <<pc, at, part>>
invVars == <<inv, todo>>
boundVars == <<runs, invs, faults, crashes>>
historyVars == <<torn, met, spoiled, promised, known>>
vars == <<fileVars, rows, jobVars, invVars, boundVars, historyVars>>

Rendered == {"video_proxy", "audio_proxy"}

\* ProxyProfile::output_extension.
Extension(kind) == IF kind = "audio_proxy" THEN "wav" ELSE "tkvp"

\* remove_asset_files: the kinds whose standard location it looks at.
Swept == {k \in Kind : k \in Rendered => Extension(k) \in {"mp4", "flac"}}

Blank(profile) == [head |-> profile, sealed |-> FALSE, body |-> [n \in 1..Parts |-> 0]]

Whole(file) == file.sealed /\ \A n \in 1..Parts : file.body[n] = file.head

Active(j) == pc[j] # "idle"
Busy(k) == \E j \in Job : KindOf[j] = k /\ Active(j)

Init ==
  /\ name = [k \in Kind |-> 0] /\ image = <<>> /\ rows = {}
  /\ pc = [j \in Job |-> "idle"] /\ at = [j \in Job |-> 0] /\ part = [j \in Job |-> 0]
  /\ inv = "idle" /\ todo = {}
  /\ runs = 0 /\ invs = 0 /\ faults = 0 /\ crashes = 0
  /\ torn = {} /\ met = {} /\ spoiled = {} /\ promised = {} /\ known = {}
-----------------------------------------------------------------------------
(* Jobs: execute of the four kinds, and the generators they call. *)

Goto(j, from, to) == pc[j] = from /\ pc' = [pc EXCEPT ![j] = to]

Fault == faults < MaxFault /\ faults' = faults + 1 /\ UNCHANGED <<runs, invs, crashes>>

Begin(j) ==
  /\ Goto(j, "idle", IF KindOf[j] \in Rendered THEN "source" ELSE "create")
  /\ runs < MaxRun /\ runs' = runs + 1 /\ UNCHANGED <<invs, faults, crashes>>
  /\ promised' = promised \ {KindOf[j]}
  /\ met' = IF Busy(KindOf[j]) \/ inv # "idle" THEN met \cup {KindOf[j]} ELSE met
  /\ spoiled' = IF KindOf[j] \in rows \ {"waveform"}
                THEN spoiled \cup {KindOf[j]} ELSE spoiled
  /\ UNCHANGED <<fileVars, rows, at, part, invVars, torn, known>>

\* A proxy is validated and its source opened before its output.
OpenSource(j) ==
  /\ Goto(j, "source", "create")
  /\ UNCHANGED <<fileVars, rows, at, part, invVars, boundVars, historyVars>>

NewFile_Unnumbered(k, profile) ==
  /\ image' = Append(image, Blank(profile))
  /\ name' = [name EXCEPT ![k] = Len(image) + 2]

NewFile(k, profile) ==
  /\ image' = Append(image, Blank(profile))
  /\ name' = [name EXCEPT ![k] = Len(image) + 1]

\* File::create of a proxy: the inode at the path is emptied if there is one.
CreateOutput(j) ==
  /\ KindOf[j] \in Rendered
  /\ Goto(j, "create", "write")
  /\ IF name[KindOf[j]] = 0
     THEN NewFile(KindOf[j], ProfileOf[j])
     ELSE /\ image' = [image EXCEPT ![name[KindOf[j]]] = Blank(ProfileOf[j])]
          /\ UNCHANGED name
  /\ at' = [at EXCEPT ![j] = name'[KindOf[j]]] /\ part' = [part EXCEPT ![j] = 0]
  /\ torn' = torn \ {KindOf[j]}
  /\ UNCHANGED <<rows, invVars, boundVars, met, spoiled, promised, known>>

\* How many parts of a file are there, from the first on.
Present(file) ==
  CHOOSE n \in 0..Parts : /\ \A m \in 1..n : file.body[m] # 0
                          /\ n < Parts => file.body[n + 1] = 0

\* A peaks file is opened if it is there, and continued if it has the
\* parameters; a thumbnail directory is written again from its start.
OpenCache(j) ==
  /\ KindOf[j] \notin Rendered
  /\ Goto(j, "create", "write")
  /\ IF name[KindOf[j]] = 0
     THEN NewFile(KindOf[j], ProfileOf[j]) /\ part' = [part EXCEPT ![j] = 0]
     ELSE LET i == name[KindOf[j]] IN
          /\ KindOf[j] = "waveform" => image[i].head = ProfileOf[j]
          /\ image' = [image EXCEPT ![i].head = ProfileOf[j]]
          /\ part' = [part EXCEPT ![j] = IF KindOf[j] = "waveform"
                                         THEN Present(image[i]) ELSE 0]
          /\ UNCHANGED name
  /\ at' = [at EXCEPT ![j] = name'[KindOf[j]]]
  /\ UNCHANGED <<rows, invVars, boundVars, historyVars>>

\* write_chunk and the encoders write to the open file.
WritePart(j) ==
  /\ KindOf[j] # "thumbnails"
  /\ pc[j] = "write" /\ part[j] < Parts
  /\ image' = [image EXCEPT ![at[j]].body[part[j] + 1] = ProfileOf[j]]
  /\ part' = [part EXCEPT ![j] = @ + 1]
  /\ UNCHANGED <<name, rows, pc, at, invVars, boundVars, historyVars>>

\* write_thumbnail writes to the directory at the path, and makes it, and its
\* meta file, if it is not there any more.
WriteThumbnail(j) ==
  /\ KindOf[j] = "thumbnails"
  /\ pc[j] = "write" /\ part[j] < Parts
  /\ IF name["thumbnails"] = 0
     THEN /\ image' = Append(image,
                        [Blank(ProfileOf[j]) EXCEPT !.body[part[j] + 1] = ProfileOf[j]])
          /\ name' = [name EXCEPT !["thumbnails"] = Len(image) + 1]
     ELSE /\ image' = [image EXCEPT ![name["thumbnails"]].body[part[j] + 1] = ProfileOf[j]]
          /\ UNCHANGED name
  /\ at' = [at EXCEPT ![j] = name'["thumbnails"]]
  /\ part' = [part EXCEPT ![j] = @ + 1]
  /\ UNCHANGED <<rows, pc, invVars, boundVars, historyVars>>

Finish_Early(j) ==
  /\ Goto(j, "write", "record")
  /\ image' = [image EXCEPT ![at[j]].sealed = TRUE]
  /\ UNCHANGED <<name, rows, at, part, invVars, boundVars, historyVars>>

\* finish: the sizes or counts in the header are those of the whole file.
Finish(j) ==
  /\ part[j] = Parts
  /\ Goto(j, "write", "record")
  /\ image' = [image EXCEPT ![at[j]].sealed = TRUE]
  /\ UNCHANGED <<name, rows, at, part, invVars, boundVars, historyVars>>

\* record_cache_entry.
Record(j) ==
  /\ Goto(j, "record", "idle")
  /\ rows' = rows \cup {KindOf[j]}
  /\ spoiled' = spoiled \ {KindOf[j]}
  /\ UNCHANGED <<fileVars, at, part, invVars, boundVars, torn, met, promised, known>>

\* The row cannot be written: the generator has succeeded, the file stays.
RecordFails(j) ==
  /\ Goto(j, "record", "idle") /\ Fault
  /\ UNCHANGED <<fileVars, rows, at, part, invVars, historyVars>>

Fail_KeepsPartial(j) ==
  /\ pc[j] \in {"source", "create", "write"} /\ Fault
  /\ pc' = [pc EXCEPT ![j] = "idle"]
  /\ UNCHANGED <<fileVars, rows, at, part, invVars, historyVars>>

\* Any error or a cancellation: generate_video_proxy and generate_audio_proxy
\* remove their output, the caches keep what they have.
Fail(j) ==
  /\ pc[j] \in {"source", "create", "write"} /\ Fault
  /\ pc' = [pc EXCEPT ![j] = IF KindOf[j] \in Rendered THEN "remove" ELSE "idle"]
  /\ UNCHANGED <<fileVars, rows, at, part, invVars, historyVars>>

\* remove_partial removes what is at the path, whoever has written it.
RemovePartial(j) ==
  /\ Goto(j, "remove", "idle")
  /\ name' = [name EXCEPT ![KindOf[j]] = 0]
  /\ torn' = torn \ {KindOf[j]}
  /\ UNCHANGED <<image, rows, at, part, invVars, boundVars, met, spoiled, promised, known>>

\* Bounded by the failure before it.
RemoveFails(j) ==
  /\ Goto(j, "remove", "idle")
  /\ torn' = torn \cup {KindOf[j]}
  /\ UNCHANGED <<fileVars, rows, at, part, invVars, boundVars, met, spoiled, promised, known>>
-----------------------------------------------------------------------------
(* invalidate_asset. *)

\* list_cache_entries.
List ==
  /\ inv = "idle" /\ inv' = "listed"
  /\ invs < MaxCall /\ invs' = invs + 1 /\ UNCHANGED <<runs, faults, crashes>>
  /\ todo' = rows
  /\ promised' = {k \in Kind : ~Busy(k)} /\ known' = rows
  /\ met' = met \cup {k \in Kind : Busy(k)}
  /\ UNCHANGED <<fileVars, rows, jobVars, torn, spoiled>>

Unlink(k) ==
  /\ name' = [name EXCEPT ![k] = 0]
  /\ torn' = torn \ {k}

RemoveListed(k) ==
  /\ inv = "listed" /\ k \in todo
  /\ todo' = todo \ {k}
  /\ Unlink(k)
  /\ UNCHANGED <<image, rows, jobVars, inv, boundVars, met, spoiled, promised, known>>

\* A failure is logged only.  The sweep tries the kinds it knows again.
ListedFails(k) ==
  /\ inv = "listed" /\ k \in todo /\ Fault
  /\ todo' = todo \ {k}
  /\ promised' = promised \ ({k} \ Swept)
  /\ UNCHANGED <<fileVars, rows, jobVars, inv, torn, met, spoiled, known>>

BeginSweep_Nothing ==
  /\ inv = "listed" /\ todo = {}
  /\ inv' = "sweep" /\ todo' = {}
  /\ UNCHANGED <<fileVars, rows, jobVars, boundVars, historyVars>>

BeginSweep ==
  /\ inv = "listed" /\ todo = {}
  /\ inv' = "sweep" /\ todo' = Swept
  /\ UNCHANGED <<fileVars, rows, jobVars, boundVars, historyVars>>

SweepOne(k) ==
  /\ inv = "sweep" /\ k \in todo
  /\ todo' = todo \ {k}
  /\ Unlink(k)
  /\ UNCHANGED <<image, rows, jobVars, inv, boundVars, met, spoiled, promised, known>>

\* The call ends with an error; the rows stay.
SweepFails(k) ==
  /\ inv = "sweep" /\ k \in todo /\ name[k] # 0 /\ Fault
  /\ inv' = "idle" /\ todo' = {}
  /\ promised' = {} /\ spoiled' = spoiled \cup rows
  /\ UNCHANGED <<fileVars, rows, jobVars, torn, met, known>>

\* invalidate_caches.
DropRows ==
  /\ inv = "sweep" /\ todo = {}
  /\ inv' = "idle"
  /\ rows' = {} /\ spoiled' = {}
  /\ UNCHANGED <<fileVars, jobVars, todo, boundVars, torn, met, promised, known>>

Crash ==
  /\ crashes < MaxCrash /\ crashes' = crashes + 1 /\ UNCHANGED <<runs, invs, faults>>
  /\ pc' = [j \in Job |-> "idle"]
  /\ inv' = "idle" /\ todo' = {}
  /\ torn' = torn \cup {KindOf[j] : j \in {i \in Job : pc[i] \in {"write", "remove"}}}
  /\ spoiled' = IF inv = "idle" THEN spoiled ELSE spoiled \cup rows
  /\ promised' = IF inv = "idle" THEN promised ELSE {}
  /\ UNCHANGED <<fileVars, rows, at, part, met, known>>
-----------------------------------------------------------------------------
Work(j) ==
  \/ Begin(j) \/ OpenSource(j) \/ CreateOutput(j) \/ OpenCache(j) \/ WritePart(j)
  \/ WriteThumbnail(j) \/ Finish(j) \/ Record(j) \/ RecordFails(j) \/ Fail(j) \/ RemovePartial(j)
  \/ RemoveFails(j)

Invalidate ==
  \/ List \/ BeginSweep \/ DropRows
  \/ \E k \in Kind : RemoveListed(k) \/ ListedFails(k) \/ SweepOne(k) \/ SweepFails(k)

Next == (\E j \in Job : Work(j)) \/ Invalidate \/ Crash

Spec == Init /\ [][Next]_vars
=============================================================================
