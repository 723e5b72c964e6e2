# Verification of tpt-av-asset

TLA+ models of the asset daemon of `src/`, TLC configurations that check them
on small instances, and theorems about them whose proofs TLAPS checks.

The project covers the processing pipeline with its job records and their recovery,
the caches, the proxies with the streams they are stored in, invalidation, the file
watcher, the tables of the database and the import command. What is left out of each,
and why, is under "Not modelled".

## The system

tpt-av-asset manages media assets for an editor. A caller imports a file: it is
probed, hashed to an `AssetId`, registered in an embedded database (redb), and
jobs are submitted that build caches (waveform peaks, thumbnail strips) and
proxies. A pool of worker threads runs the jobs in priority and dependency
order. A file watcher invalidates what was derived from a file that changed.

| Component | State | Operations | Interacts with |
|---|---|---|---|
| Job queue (`pipeline/queue.rs`) | vector of entries in dispatch order, next sequence number | `push`, `pop_ready`, `remove`, `ids` | under a mutex of `Shared`; `pop_ready` calls back into the scheduler |
| Scheduler (`pipeline/scheduler.rs`) | dependency lists, completed ids, dead ids | `register`, `mark_completed`, `mark_dead`, `is_ready`, `is_blocked_forever`, `forget` | under a mutex of `Shared`; taken inside the queue mutex by the workers |
| Worker pool (`pipeline/worker.rs`) | the threads; each holds at most one job | `run`, `try_take`, `run_job` | queue, scheduler, tracker, running map, records |
| Pipeline handle (`pipeline/pipeline.rs`) | `started`, join handles, id counter, database slot, metadata of submitted jobs, running map | `submit_with_deps`, `cancel`, `start`, `stop`, `attach_db`, `recover_interrupted`, `clone` | everything above; called by any number of threads |
| Progress tracker (`pipeline/progress.rs`) | state, fraction and message of each job | `register`, `update`, `update_state`, waits on a condition variable | written by workers and callers |
| Job records (`db/job_table.rs`) | one row per job: kind, priority, state | `upsert_job`, `get_job`, `jobs_in_state`, `delete_job` | written by `Shared::persist`, read by recovery |
| Core jobs (`pipeline/jobs.rs`, `job.rs`) | none | `execute` of the four kinds, `rebuild_job` | caches, proxies, cache registry |
| Importer (`pipeline/importer.rs`) | none | `import_with_jobs`, `probe` | asset table, pipeline |
| Asset database (`db/lib.rs`, `asset_table.rs`, `query.rs`, `transaction.rs`) | asset rows and a path index | `upsert`, `get`, `remove`, queries | importer, invalidation |
| Cache registry (`db/cache_table.rs`) | rows (asset, kind, path) | `record_cache_entry`, `list`, `invalidate_caches` | jobs, invalidation |
| Waveform cache (`cache/waveform.rs`, `reader.rs`) | a `.peaks` file per asset: header, chunk count, chunks | `open`, `write_chunk`, `finish`, `generate`, `read_range` | jobs write while readers map the file |
| Thumbnail cache (`cache/thumbnail.rs`) | a directory per asset: `NNNNNN.jpg` files, `meta` with the interval | `create`, `open`, `write_thumbnail`, `generate`, `read_thumbnail`, `read_nearest` | jobs; reads videos and proxies |
| Storage and invalidation (`cache/storage.rs`, `invalidation.rs`) | the cache directory | `remove_asset_files`, `invalidate_asset` | registry, watcher |
| Container and readers (`cache/container.rs`, `video.rs`, `audio.rs`) | header, frames; the reader's frame table | `create`, `write_frame`, `finish`, `scan_frame_table`, `seek_to`, `next_frame` | thumbnails, video proxies |
| Proxy generation (`proxy/*`) | one output file per asset and profile | `generate`, `remove_partial`, WAV writing | jobs |
| Watcher front and debouncer (`watcher/watcher.rs`, `debounce.rs`, `invalidate.rs`) | pending event per path | `watch`, `unwatch`, `recv`, `try_recv`, `drain_pending`, `handle_event` | backends, invalidation |
| Watcher backends (`watcher/backend/*`) | snapshot of each directory | scan, start, stop | a thread of their own |
| Utilities (`utils/*`) | cancellation token of a `ProgressReporter` | `cancel`, `is_cancelled`, `AssetId` hashing | jobs |
| Command line (`cli/main.rs`) | none | `import`, `watch` and others | call the crates above |
| Test support | none | synthesises media files | tests |

### What is hard

* **Interleaving.** `Shared` has one mutex each for queue, scheduler, tracker,
  metadata, running map and database slot. `cancel` and `run_job` update several
  of them one after the other. Between `pop_ready` and the enrolment of the
  reporter a job is in neither queue nor running map. The sweep of blocked jobs
  keeps a list across the points where it drops its locks.
* **Ordering.** Records are written at submit, at the start of a run, at its end,
  by the sweep and by `cancel`, each outside the locks that protect the state
  they describe.
* **Liveness.** A failed dependency must cancel its transitive dependents; a
  dependency that never arrives must not keep `stop` from returning.
* **Crash and recovery.** Job records outlive the process; the id counter and
  the dependencies do not. Peak files, proxies and registry rows are written
  without a common transaction, at their final paths.
* **Files under change.** A file may change between the identity, the probe and
  the jobs of an import, and between the events that report it. Jobs and invalidation
  have no lock in common, and a job writes to the inode it has opened.
* **Delivery.** Events pass a scanner with a lock of its own, a channel and a debouncer
  that keeps one event for each path, and may be cut off on the way.
* **Boundaries.** Frame rates, intervals and lengths do not divide each other, and a
  stream can end inside any of its writes.

`PROJECT.json` lists each hazard at its line, with the properties that cover it.

### What makes each component correct

* Queue: dispatch order is priority, then arrival; no operation loses an entry.
* Scheduler and workers: a job starts only after its dependencies completed; no
  job is lost, duplicated or run twice at once; every satisfiable job gets an
  outcome; an outcome is final.
* Handle: a cancelled job is one some caller named or one that needs such a job;
  cancelling one job never reaches another; `stop` returns and leaves unfinished jobs
  recorded for recovery.
* Job records: an unfinished job always has an unfinished record; recovery
  re-creates each such job once, as it was.
* Waveform cache: the chunk count only grows and never counts a chunk that is
  not there; what an interrupted job leaves can be resumed.
* Proxies: an output is complete or not there while nothing writes it; it keeps the
  time of the source; whatever is on the disk can be read back as whole frames.
* Thumbnails: each shows the video at its time, and each time of a finished
  video has one near it.
* Registry and invalidation: what is registered is there and complete; what has been
  invalidated is gone until it is made again.
* Watcher: when a file changes, its caches are dropped in the end.
* Database: rows read back; an event finds every version of the file at its path.
* Importer: what is stored under the identity of a file was read from that file; the
  command returns and lists what its jobs have made.

## The modules

| Module | Content |
|---|---|
| `QueueEntries` | entries of the queue and their dispatch order |
| `PriorityQueue` | abstract: a set of entries from which the first eligible one is taken |
| `JobQueue` | the vector of `queue.rs`; implements `PriorityQueue` |
| `JobQueueProofs` | that it does: theorem and proof |
| `JobLifecycle` | abstract: what the pipeline promises about each job |
| `Pipeline` | clients, workers and all of `Shared` |
| `PipelineProperties` | the properties of `Pipeline`; the mapping to `JobLifecycle` |
| `PipelineProofs` | types, ownership, dependencies, verdicts, tokens, cancellations, records; `Pipeline` implements `JobLifecycle`: theorems and proofs |
| `Recovery` | job records and `recover_interrupted` across the ends of processes |
| `RecoveryProperties` | the properties of `Recovery` |
| `RecoveryProofs` | records, recovered jobs, the count: theorems and proofs |
| `WaveformCache` | the `.peaks` file of an asset, its jobs and a reader |
| `WaveformProperties` | the properties of `WaveformCache` |
| `WaveformProofs` | types, positions, counts, readers, resumption, registration: theorems and proofs |
| `Artifacts` | files and rows of an asset, the jobs that make them, `invalidate_asset` |
| `ArtifactsProperties` | the properties of `Artifacts` |
| `ArtifactsProofs` | types, invalidation, whole outputs and registered artifacts: theorems and proofs |
| `ProxyStream` | a video proxy rendered and read: decimation, container, frame table |
| `Thumbnails` | thumbnail jobs on a movie or on a `ProxyStream`; the lookups by time |
| `MediaProperties` | the properties of `ProxyStream` and `Thumbnails` |
| `MediaProofs` | a proxy's time, its frame table, boundaries, thumbnails: theorems and proofs |
| `Debouncer` | events and the operations of the debouncer |
| `Watcher` | files, backends, channel, front, invalidator, imports |
| `WatcherProperties` | the properties of `Watcher` |
| `WatcherProofs` | changed files, unwatched paths: theorems and proofs |
| `AssetTable` | keys, row codec and scans of the database |
| `Import` | the import command, its jobs on the tracker, invalidating events |
| `ImportProperties` | the properties of `AssetTable` and `Import` |
| `ImportProofs` | what is stored and listed, invalidating events, rows: theorems and proofs |
| `MC...` | instances for TLC |

Definitions with a name of the form `X_Y` are mutations of `X`. No specification
uses them. Each is the definition `X` with a plausible bug; putting it in the place
of `X` makes the property it is listed with in `PROJECT.json` fail, which shows
that the property depends on that code.

### From the code to `Pipeline`

A step is one critical section or one atomic operation: nothing that another
thread can see happens between acquiring a mutex and releasing it, and code
between two mutexes touches only the thread's own variables. The program counters
`wpc` and `cpc` name the section a thread enters next, so the functions read as
paths through the actions:

| Code | Actions |
|---|---|
| `submit_with_deps` | `SubmitCheck` `Register` `Track` `Describe` `PersistNew` `Push` |
| `cancel` | `CancelCheck`, then `Dequeue` `CancelTrack` `CancelMark` `CancelPersist` if the job is queued, `NotQueued` `Flip` otherwise |
| `start`, `stop`, `attach_db` | `Start`; `Stop` `Joined`; `AttachDb` |
| `worker::run` | `LoopTest`, `Idle` |
| `try_take` | `Take`, then `SweepPersist` `Resweep` for every swept job |
| `run_job` | `Begin` `PersistRun` `Enroll` `Execute` `Leave` `Settle` `Mark` `PersistEnd` |

`try_take` holds queue and scheduler locks from its start to the first
`persist`, where it drops both and takes them again. So `Take` is the section up
to there, with the list of blocked entries computed, and `Resweep` each
later one, with the rest of the old list applied to the queue as it is by then.

What the state abstracts:

* The queue is the set of its entries. Order is in the entries (priority and
  sequence number), which is what `JobQueue` shows of the vector.
* `deps[j] = {}` stands for a job without dependency list too: `is_ready` and
  `is_blocked_forever` treat both alike.
* A job's `execute` is one step with any outcome. It may return
  `Err(Cancelled)` only if its token is set, and it may overlook the token: the
  core jobs look at it between chunks only. A panic counts as a failure, as in
  `run_job`.
* The condition variables do not appear. An idle worker waits with a time-out of
  the poll interval, so a missed notification delays it and no more: `Idle` is
  always enabled. `wait_for` changes no state.
* Fractions and messages of progress are left out: no decision reads them.
* `persist` always succeeds. The code logs a failed write and goes on.
* A `cancel` that comes between `PopReady` (inside `Take`) and `Enroll` finds the job in
  neither place and has no effect; and `LoopTest` ends a worker on shutdown with runnable
  jobs still queued, which `StopLeavesJobsQueued` says are kept for recovery.
* `attach_db` on an empty slot only. Replacing one database by another while jobs
  run makes records split over two files, which the code does not address.
* One client, `Owner`, calls `start` and `stop`: they take `&mut self`. The
  others hold clones taken after `start`, as in the command line and the tests. A handle
  cloned before `start` could start a second pool; it is listed as a hazard.
* `next_job_id` is the choice of an id no job has had: within one process the
  counter is atomic and unique. Module `Recovery` has the restarts.
* `asked` is a history variable: the ids some cancel call has named.

### From the code to `Recovery`

`Restart` is the end of a process, by a crash or otherwise, together with the
start of the next one: of the state only the records are left, since
every transaction of the database is complete or absent.

| Code | Actions |
|---|---|
| `submit` | `Submit` (to the metadata), `PersistNew`, `Push` |
| `recover_interrupted` | `Recover`, `NextPass`: `jobs_in_state` for each of the two states; `Pick`: the loop body up to `delete_job`; then the `submit` of the rebuilt job: `Resubmit` or `ResubmitRefused`, `PersistNew`, `Push`; `Return` |
| `start`, `stop` | `Start`, `Stop` |
| `try_take`, `run_job` | `Take` `Begin` `Execute` `End` |

What happens to a job inside one process is the subject of `Pipeline`; here the
job is its id and its *work*, a kind and payload, which tells apart two jobs that
had the same id in different processes. Left out are:

* the order of dispatch: a worker takes any queued job, which allows every order;
* dependencies, which are not persisted, so recovery knows none;
* cancellation and the three kinds of outcome: recovery treats all terminal
  records alike;
* the sections of a thread that touch neither the records, the queue nor the
  metadata;
* failing writes, and a database for `recover_interrupted` other than the one
  the pipeline persists to: the CLI and the tests pass the same handle.

`lost` collects the works that a recovery had taken out of the database when it
could not finish: `delete_job` comes before the new submission, so a crash in
between loses the job, and so does a `stop` that makes `submit` refuse.
The properties exclude exactly these works. The window is real, no comment in the
code denies it, and that it is the *only* one is what `UnfinishedRecorded` says.

`raced` is set when a process recovers after its workers were started or it was
stopped, or starts without having recovered. `recover_interrupted` lists the `Running`
records after it has re-enqueued the `Pending` ones: on a started pipeline, which is how
the integration test calls it, a job of the first pass can be `Running` by then, is counted
and enqueued again, and runs twice. `RecoveredAsItWas` and `CountsInterruptedOnce` hold
only where `raced` is not set; the other two properties hold always.

### From the code to `WaveformCache`

An action is one system call on the file, with the thread's own work up to the next
one: two jobs of an asset have no lock in common, and a process may end between
any two calls. `pc` names the call a job makes next.

| Code | Actions |
|---|---|
| `WaveformCache::open` | `Run`: up to `path.exists()`; `Create`: `File::create`; `WriteHeader` |
| `WaveformReader::open`, `ensure_params` | `Resume`, `SetUp` or `Reject`; `SetSize`, `SetRate`: the two header writes |
| `generate`, `write_chunk` | `Decode`, `Extend` (`set_len`), `WriteRecord`, `WriteCount` |
| `finish`, `record_cache_entry` | `Finish` |
| errors of the file or decoder, cancellation | `Abort`, at any call |
| `WaveformReader` of a caller | `OpenReader`; it then reads what `records` is |

What the state abstracts:

* A record is the set of frames whose peaks it holds, so a record computed from the
  wrong part of the audio differs from the right one. `Zeros` is a record that
  `set_len`, or a write behind the end of the file, has left empty. A record cut in
  half by a crash is not told apart from one not written: both lie behind the count.
* The decoder is external. It gives the frames in order and fills the
  buffer unless the audio ends, which `generate` relies on (comment at
  `waveform.rs:294`).
* `index` is the writer's position and its cached `chunk_count` at once: `generate`
  starts at `chunk_count` and writes chunks in order, so each chunk is a new one.
* A file without magic stands for every file `WaveformReader::open` rejects: empty,
  or with a header cut short.
* What is written survives the process. The power of the machine failing before
  the data has reached the disk is not modelled (`open` calls
  `sync_data` after the header and `finish` at the end; no other step does).
* `overlapped` and `torn` are history variables on which properties depend: two jobs
  have had the file open at once; a job has ended between two writes of the header.
  The code excludes neither: each import submits a job, nothing keeps two jobs of an
  asset apart, and `File::create` of one can empty what the other has written; a
  header cut between its writes makes every later job of the asset fail.

### From the code to `Artifacts`

The same files again from further away, all four kinds at once, for what the kinds share:
a file and a row that are made, removed and lost separately. A file is its header
and its parts, each with the profile it was made for; a path names an inode, so
that a job goes on writing to what it has opened after the path is gone.

| Code | Actions |
|---|---|
| `execute` of the four jobs | `Begin`, `OpenSource` (proxies), then `CreateOutput` (proxies) or `OpenCache`, `WritePart` or `WriteThumbnail` for each part, `Finish`, `Record` or `RecordFails` |
| errors and cancellation; `remove_partial` | `Fail`, at any step; for proxies then `RemovePartial` or `RemoveFails` |
| `invalidate_asset` | `List`; `RemoveListed` or `ListedFails` for each entry; `BeginSweep`; `SweepOne` or `SweepFails` for each kind; `DropRows` |
| the end of the process | `Crash` |

The kinds differ in how they treat what they find: `CreateOutput` empties it, a waveform job
continues it if its parameters are the same, a thumbnail job writes over it and makes the
directory again if it is gone. The steps inside `open` of a peaks file are in `WaveformCache`. `Swept` is
what `remove_asset_files` looks for, computed from the extensions of the profiles as the
code has them.

Four history variables name the windows that the code leaves open, and the properties
except them, each kind for itself: `met`, two jobs or a job and an invalidation have been
on a kind at once; `torn`, a crash or failed removal has left a part of a proxy; `spoiled`, a
registered artifact is being made again, or its invalidation has ended early; `promised`,
the kinds for which an invalidation has done what it meant to and no job has begun since.

### From the code to `ProxyStream` and `Thumbnails`

`ProxyStream` is `video_proxy::generate` with the container's `Writer`. The file is a
sequence of units, two for the header and for each length, as many as its size for a
payload, so it can end inside any of them; the `BufWriter` flushes any number of units at
any time. Times are whole ticks and a frame rate is the duration of its frames,
so that the bucket of a frame, `floor(index * target_fps / source_fps)`, is an integer division.
`Table` is `scan_frame_table`, a recursive function as in the code's loop.

`Thumbnails` is a thumbnail job on that stream or on a movie, and readers of its directory.

| Code | Actions |
|---|---|
| `video_proxy::generate` | `BeginRender` (`Render`), `RenderStep` (`EncodeFrame`, `FlushSome`, `FinishRender`), `RenderFails` |
| `ThumbnailCache::create` | `Create` |
| `open_video` | `OpenMovie`; `OpenStream` (header), `ScanTable` |
| `seek_to`, `next_frame` | `DecodeMovie`, `DecodeAt` |
| `write_thumbnail` and the loop of `generate` | `WriteThumbnail` |
| errors, cancellation, the end of the process | `Abandon`, `Cancel`, `Crash` |

A thumbnail is the number of the source frame it shows. A movie is read as a whole when it
is opened; its packets are frames in the order of display, one for each packet, with those of
another track in between. `demuxer.seek` is external: it goes to the last packet to start
from that is not after the time. A stream is read while it may be rendered again, and the job
keeps the inode if the path is removed (`lost`, `orphan`). Pixels, resizing and JPEG
encoding are left out.

### From the code to `Watcher`

| Code | Actions |
|---|---|
| `start_scanner`, `scan_dir` | `ScanBegin`, `Read` for each path, `ScanEnd` (mutex held up to here), `Send` for each event |
| `PollingBackend::watch`, `unwatch`, `drop` | `WatchBegin`, `Read`, `WatchEnd`; `Unwatch`; `Close` |
| `map_notify_event` with the library | `Mapped`, inside `Write`, `Delete`, `Rename` |
| `EventDebouncer` | `Push`, `Elapse` (a window ends) |
| `recv`, `try_recv`, `drain_pending` | `PushRaw`, `PopReady`, `TryNone`, `RecvClosed`, `DrainPending` |
| `handle_all`, `handle_event`, `invalidate_at` | `LookUp`, `Invalidate` for each asset, `HandleFails` |
| `import_with_jobs` | `ImportBegin` (the identity), `ImportEnd` (caches under it) |

The version of a file is its size and time of modification, and each change makes a new one:
that a change keeps both is beyond what the program can see. The scan reads the files one by
one while they change; an unreadable entry, or directory, is one it leaves out. All events
have the same window, so the pending events in the order of their windows are those in the
order of their pushes, and `due` counts the ready ones. The deadline of a call that waits is
not modelled: a call that times out is one that has not been made yet.

`owed` collects assets whose caches are of an earlier version of a file that
was watched when it changed. `excused` are those of them whose event the watcher loses by
construction: a change that is undone before the next scan; paths that a nested `watch`
scans or an `unwatch` forgets between two scans; the end of the backend with events
not yet found or inside their window; the batch of a failing `handle_all`; and the file that a
rename inside the tree overwrites. The last is a finding, the others are consequences
of polling and of calls of the consumer. An import that makes the caches of the version again
ends the debt.

### From the code to `AssetTable` and `Import`

`AssetTable` has no state: it is the keys (little endian numbers, so their order is not
that of the numbers), the codec of asset and job rows, and the scans of the tables. A row is a
sequence of units; a run of numbers without a flag or string in it is shown by one of them.
redb is external: a table is a function, and a scan that stops at a key has seen those before it
(`Less` is the order of keys).

| Code | Actions |
|---|---|
| `import_with_jobs`, `AssetId::from_path`, `probe_media_info` | `Stat` (`metadata`), `Identify` (`canonicalize`), `Probe`, `Register`, `Submit` |
| `update_state`, `update_fraction` | the new state in `JobBegins`, `JobCompletes`, `JobFails`; `Signal` for the `notify_all` after the lock; `JobReports` |
| `wait_for_timeout` and the loop of `cmd_import` | `Wait`, `TimeOut`, `WaitedForAll`, `Stop`, `List`, `Exit` |
| a job of the import | `JobBegins` (opens the file), `JobRecords` (its row), `JobCompletes` or `JobFails` |
| `get_assets_by_path`, `invalidate_asset` of another process | `LookUp`, `Drop` |

A version of a file is its time of modification and stands for its content, and `Media` says
what the decoders make of it. `Real` is what `canonicalize` gives while the file is
there; without it a path is compared as it is. The hash of a path is taken to be without
collisions. The files of the caches are in `Artifacts`.


## What TLC checks

| Run | Instance | Distinct states | Shows |
|---|---|---|---|
| `job_queue` | 4 jobs, 3 priorities, 5 pushes | 14 thousand | `push`, `pop_ready`, `remove` on the sorted vector are the operations of a priority queue, with an id queued twice and any readiness predicate |
| `pipeline_races` | 2 jobs, 2 workers, 2 clients, any dependency lists, with and without database | 3.1 million | the safety properties, and that `Pipeline` implements `JobLifecycle` |
| `pipeline_liveness` | chain of 3 jobs, 2 workers, 1 client | 217 thousand | accepted jobs settle; `stop` returns |
| `recovery` | 3 works of which 2 can be rebuilt, 2 workers, 2 restarts; recovery, start and stop in any order | 878 thousand | unfinished work keeps a record, comes back once as it was if recovery comes first, and settles |
| `waveform` | 3 frames in chunks of 1 or 2, 4 jobs on 2 workers, 2 crashes, 1 reader | 1.2 million | no peaks are shifted; without overlap no progress is lost, and what is left can be resumed |
| `artifacts` | 1 waveform, 1 thumbnail and 2 proxy jobs, 3 runs, 1 invalidation, 1 failing step, 1 crash | 5.0 million | outputs and registered artifacts are whole; what is invalidated stays gone |
| `media` | movie of 5 frames with 2 groups and a second track; 2 renders to 3 frame rates, 2 thumbnail jobs of 2 intervals, 1 fault, 1 crash | 3.3 million | streams read back as whole frames and keep time; thumbnails show it |
| `watcher` | 2 nested directories, 2 paths, both backends, 2 changes, 2 calls or 1 call and 1 fault | 1.0 million | the caches of a changed file have what ends them ahead of them, and end |
| `import` | 2 files and an alias, earlier imports of none or both files, 1 import, 1 change, 1 event, 1 failing job | 185 thousand | rows read back; identities tell the truth; events sweep; the command returns |
| `id_reuse` | 2 works, 1 worker, 1 restart, new jobs after recovery | small | a finding, below |
| `rename_over` | 1 directory, 2 paths, notify | small | a finding, below |
| `unswept_proxy` | 1 proxy job | small | a finding, below |

**The property of `job_queue`.** `RefinesPriorityQueue`: the vector implements the abstract
queue; were an insertion ever out of order, a later `pop_ready` would take an entry that is
not the first.

**The properties of `pipeline_races`.**
`OneOwner`: each unsettled job is in one place, one queue entry or one thread.
`DependenciesHonoured`: what runs has had all its dependencies complete, at each
section of the run and not only when it was popped.
`VerdictsAgree`: scheduler and tracker agree on outcomes, except while the thread
that carries the job is between the two updates.
`UnfinishedRecorded`: at each step the database holds an unfinished record of
each unfinished job, and a terminal record holds the outcome the tracker shows.
`CancellationJustified`: a job is cancelled only on request or because
of a dependency.
`TokenReachesItsJob`: the running map leads to the worker that runs the job and to
no other.
`StopLeavesJobsQueued`: after `stop` each unsettled job is queued and recorded as
`Pending`.
`RecordsMoveForward`: no late write takes a record back along the state machine.
`RefinesLifecycle`: outcomes are final, starts respect dependencies, at most
as many jobs run as there are workers.

**The properties of `pipeline_liveness`.** `AcceptedJobsSettle`: with workers started, a job whose
dependencies have all been accepted, transitively, gets an outcome unless the pipeline is
shut down. `StopReturns`: every worker sees the shutdown and is joined.

**The properties of `recovery`.**
`UnfinishedRecorded`: at each step, so whenever the process ends, an accepted work
without outcome has an unfinished record, the crash window above excepted.
`RecoveredAsItWas`: no work is in a process twice, or again once it has settled, and each job
queued or running has metadata and record of its own under its id.
`CountsInterruptedOnce`: the result of `recover_interrupted` is the number of
rebuildable unfinished records it started from.
`RecoveredWorkSettles`: recovered work settles if its process is let run.

**The properties of `waveform`.**
`NeverShifted`: a record holds the peaks of its own chunk and of no other, even with
two jobs writing, because a job skips as many frames as chunks it found.
`CountedIsWritten`: what the count covers is there, for the header's parameters.
`ReaderFindsPeaks`: a reader keeps the count of the time it was opened while jobs
go on; the chunks under it do not change.
`RegisteredIsComplete`: the registry lists only caches that cover all the audio.
`ProgressKeptAlone`: no job or crash takes back progress or changes the parameters under it.
`ResumableUnlessTorn`: what an interrupted job leaves can be resumed.
All but the first hold while no two jobs have had the file open at once, and the last
only if no header was left half written.

**The properties of `artifacts`.**
`OutputIsWholeAlone`: the output path of a proxy holds a complete proxy or nothing, unless a run
is writing it.
`RegisteredIsWhole`: each row stands for an artifact that is there and complete.
`InvalidationHeals`: after a successful `invalidate_asset` nothing is left of
what was registered, or is at a location it sweeps, until a job runs again, even if files could not be
removed on the first try. Each holds outside the windows of the history variables above.

**The properties of `media`.**
`WholeFramesReadable`: whatever has reached the disk, the table lists all frames that are
there in full and no other, each under its own index.
`KeepsTime`: frame n of the proxy is the first source frame that begins when it is shown or
later, and the last frames end together.
`ThumbnailsShowTheirTime`: from the source over decimation, container, seeking and directory
to what `read_nearest` and `read_thumbnail` find: the picture is that of the time, to half a frame of
the proxy and one of the source.
`MissesOnlyTheLastHalf`: the only boundaries a finished video has no frame for are those in the
second half of its last frame. There the job fails, which the code does not address.

**The properties of `watcher`.**
`StaleIsOnTheWay`: for each asset owed there is, at each step, an event in the scanner, the channel,
the debouncer or the consumer's hands that names its path, or a difference the next scan will find,
or the invalidator is at it.
`UnwatchedIsQuiet`: a path no directory of which is watched adds no event.
`StaleIsDropped`: the caches of changed files are dropped in the end.

**The properties of `import`.**
`RowsReadBack`: an asset or job row decodes to what was encoded; each cut of it is rejected, and of an
asset's row each extension.
`CurrentIsTrue`: what is stored under the identity that a file has now was read from the
file as it is now. What changed in between leaves rows and caches under an identity the file no
longer has, which is why the identity must be taken first.
`SweepsAllVersions`: an event drops the entries of each version of the file at its path, through each
alias while the file exists, and of no other file.
`ListsWhatCompleted`: the command lists the entry of each job that completed.
`ImportReturns`: the command returns by being woken, without relying on its time-outs.

**Bounds.** In `pipeline_races` the races are between a job and the other job it needs or outranks,
between two workers, and between two callers of which one submits, cancels or
stops while the other is in the middle of a call; two of each produce all pairs.
Both jobs may depend on each other, so a dependency that never arrives and a
cycle are among the cases, and a client may cancel the same id twice and
while another client cancels it. Workers are interchangeable in `Init` and
`Next` and no safety property of the run names one, so permuting them is sound;
no symmetry is used for liveness. For liveness three jobs are the least with a
transitive dependent: job 3 settles only because the sweep of job 2 marks it
dead in turn. In `job_queue`
five pushes let an id be queued twice among entries with equal, higher and lower
priority. The states of the pipeline need no other bound: an id is submitted
once, so the number of jobs bounds the sequence numbers.

In `recovery`, two restarts let a job be submitted and left queued by one
process, recovered and left running by the next, and recovered again by the third; a work that cannot be
rebuilt between two that can shows that the loop passes over it. `Resubmits` says whether
callers submit new jobs after a restart; with it the run would meet the finding `id_reuse`.

In `waveform`, three frames make three chunks of size 1, or two of size 2 of which the last
is partial, so resumption after none, one and several chunks, with equal and with
other parameters, are among the cases. Four jobs and two crashes allow: a job interrupted, resumed,
interrupted again and finished, with a job of other parameters at any time. Workers are permuted: the properties of
the run are safety properties that treat all workers alike.

In `artifacts`, two proxy jobs with different profiles make each other's output recognisable;
two parts are the least with a partial file that is not empty. Three runs are a run that is
interrupted, one that meets it and one that repairs. A render that fails may leave its partial output
behind, without a second failing step: the removal fails for the same reason.

In `media`, frames of 3 ticks are decimated to 4 and 6 ticks, one rate that does not divide the
source's and one that does, or kept; intervals of 4 and 7 ticks put boundaries inside frames, on
their edges and in the second half of the last. Payloads of 1 and 2 units let the frames of a second
render lie across those of the first.

In `watcher`, the polling instance has one path that both directories contain: what matters are nested
scans of it. The notify instance has two, for renames. Two changes make a change during the
handling of the first, and a change and its undoing; two calls are `watch` of both
directories, or `watch` and `unwatch` or the end of the backend. Calls and faults share the bound of two,
so an unreadable entry or failing invalidation meets one call. In `import`, the database holds earlier
imports of none or of both files, and one change comes at any
of its steps, and one event at any of them; the alias may be the path of the earlier import, of
the new one or of the event. `MaxRun`, `MaxCrash`, `MaxFault`, `MaxChange` and the like
bound the counters of the models, not of the code.

**Deadlock** is checked in all runs of `JobQueue` and `Pipeline`. A stopped
pipeline does not deadlock, as callers can still call `cancel`. The other models stop when their
bounded runs, changes and calls are used up, and there it is not checked.

**Fairness.** Weak fairness of each worker, and of each client inside a call. Both are
threads, the mutexes are held for sections that do no waiting, and a worker's wait
has a time-out. For `Execute` it means that every job returns, which the core jobs
do: each loops over a finite file. Nothing obliges a client to begin a call. `Recovery` assumes the same of
its workers and of calls that have begun; no
caller has to recover, start or submit, and no process has to end. In `Watcher` the scanner's thread,
the end of a scan, the passing of time and the consumer are fair: `cmd_watch` calls in a loop. No file has to change,
and no call has to be made. In `Import` the command's thread, the signals, the
invalidator and each job are, and `TimeOut` is not, so that the wake-ups alone must do. The other models promise no progress of their own, and their runs assume no fairness.

### Findings

* `id_reuse`: `next_job_id` begins at 1 in every process, and recovered jobs keep
  their ids. A new job can take the id of a recovered one that is still queued and
  replaces its metadata and record; if that process ends first, the recovered
  job's work is gone.
* `rename_over`: for a rename inside the watched tree the notify library reports `From`, `To` and
  `Both`, and the debouncer keeps for the new path the `Renamed` event alone. `handle_event`
  looks up the old path of it. The caches of a file that was overwritten at the
  new path, which is how editors save, are never dropped.
* `unswept_proxy`: `remove_asset_files` removes `_proxy.mp4` and `_proxy.flac`, but every profile
  writes `.tkvp` or `.wav`. A proxy without a row outlives each
  successful invalidation, although the comment promises removal of every cache file
  "whether or not they are registered".

## What is proved

The theorems on the pipeline are for any sets of jobs, workers, clients and dependency
lists (`PipelineAssumption`, `PrioAssumption`, `WorkersAssumption`), the one on the queue for any jobs, priorities
and pushes (`PrioAssumption`), those on the waveform
cache for any number of jobs and crashes, length of the audio, chunk sizes and
sample rates (`WaveformAssumption`), those on artifacts for any jobs, kinds, profiles and
numbers of parts, runs, invalidations and faults (`ArtifactsAssumption`), those on media
for any frame rates, number of frames, sizes and intervals (`ProxyStreamAssumption`, `ThumbnailsAssumption`), those on the watcher
for any paths, nested directories, backends and numbers of changes, calls and faults
(`WatcherAssumption`), those on the import for any paths and aliases, kinds of the versions, earlier
imports and numbers of changes, imports, events and faults (`ImportAssumption`, of which it is an idealisation that
two paths have neither the same hash nor the same text), and those on recovery for any finite set of works and any workers and number of
restarts (`RecoveryAssumption`). The three on recovery have one hypothesis more, `~Resubmits`: callers submit new
jobs in the first process only. The finding `id_reuse` shows that without it the first of them is false.

| Module | Theorem | States |
|---|---|---|
| `JobQueueProofs` | `QueueCorrect` | `RefinesPriorityQueue` |
| `PipelineProofs` | `TypeCorrect` | `[]TypeOK` |
| | `OwnershipCorrect` | `[]OneOwner` |
| | `DependenciesCorrect` | `[]DependenciesHonoured` |
| | `VerdictsCorrect` | `[]VerdictsAgree` |
| | `RefinementCorrect` | `RefinesLifecycle` |
| | `TokenCorrect` | `[]TokenReachesItsJob` |
| | `CancellationCorrect` | `[]CancellationJustified` |
| | `RecordsCorrect` | `[]UnfinishedRecorded` |
| | `StopCorrect` | `[]StopLeavesJobsQueued` |
| | `RecordsForward` | `RecordsMoveForward` |
| `WaveformProofs` | `WaveformTypeCorrect` | `[]TypeOK` |
| | `ShiftCorrect` | `[]NeverShifted` |
| | `CountCorrect` | `[]CountedIsWritten` |
| | `ReaderCorrect` | `[]ReaderFindsPeaks` |
| | `ResumeCorrect` | `[]ResumableUnlessTorn` |
| | `RegisteredCorrect` | `[]RegisteredIsComplete` |
| | `ProgressKept` | `ProgressKeptAlone` |
| `ArtifactsProofs` | `ArtifactTypes` | `[]TypeOK` |
| | `InvalidationHolds` | `[]InvalidationHeals` |
| | `OutputWhole` | `[]OutputIsWholeAlone` |
| | `RegisteredWhole` | `[]RegisteredIsWhole` |
| `MediaProofs` | `TimeKept` | `[]KeepsTime` |
| | `FramesReadable` | `[]WholeFramesReadable` |
| | `BoundariesAsked` | `[]MissesOnlyTheLastHalf` |
| | `ThumbnailsInTime` | `[]ThumbnailsShowTheirTime` |
| `RecoveryProofs` | `RecordsSurvive` | `[]UnfinishedRecorded` |
| | `RecoversAsItWas` | `[]RecoveredAsItWas` |
| | `CountsOnce` | `CountsInterruptedOnce` |
| `WatcherProofs` | `ChangesAreOnTheWay` | `[]StaleIsOnTheWay` |
| | `UnwatchedStaysQuiet` | `UnwatchedIsQuiet` |
| `ImportProofs` | `StoredIsCurrent` | `[]CurrentIsTrue` |
| | `SweepIsWhole` | `SweepsAllVersions` |
| | `RowsAreReadBack` | `[]RowsReadBack` |
| | `ListIsWhole` | `[]ListsWhatCompleted` |

So every invariant and action property that a passing run checks holds for all instances of the model.

**The argument for the queue.** `RefinesPriorityQueue` needs the vector to be in dispatch order at each step (`QSorted`), and
each sequence number in it to be below the next one (`QBelow`): a new entry then comes after all others of
its priority, so the order is total on what is queued and `partition_point` finds the one place that keeps it (`PushStep`).
In a sorted vector no entry occurs twice, and the first position that fits holds the first eligible
entry (`TakeStep`). That `position` is the first rests on the least number principle.

**The argument for the pipeline.** None of the properties is inductive by itself. `IInv` (in
`PipelineProofs`) adds what makes them so:

* `Typed`: the types, and that a thread in a section that uses its job or its
  outcome has one.
* `Exclusive`: no two places hold the same job. It is needed for each update of
  the tracker: were the job of another thread the same, the update would change
  what that thread relies on.
* `WorkerStages`, `ClientStages`: what the tracker says of a job in each section of the
  thread that carries it, and of queued jobs (`Pending`). From these follows that a
  swept or dequeued job is never one that runs, that a dead job is never
  completed, and that `UpdateState` never meets an unknown job.
* `NotLost`: a job is unknown, or in some place, or the scheduler has its outcome.
* `Verdicts`: the scheduler's sets are outcomes of the tracker, and what runs has its
  dependencies completed; completed jobs stay so because only the holder of a job
  marks it, and a completed job has no holder.
* `PoolOff`: `start` spawns the workers once, so it takes no job from a worker.

`JInv`, inductive relative to `IInv`, adds for each place
a job can be in how far its record is (`Recorded`, `Present`), and which tokens and
outcomes a cancellation can have come from (`Justified`); for the latter the list
a sweep keeps across its unlocked sections must hold jobs with a dead dependency
only, which stays true because dead jobs stay dead.

The refinement needs `IInv` and one counting fact, `FreeWorker`: a worker that begins
a job is not one of those that run, and no job runs on two workers, so the number of
running jobs is below the number of workers. This uses `WorkersAssumption`, that the
pool is finite.

**The argument for the waveform cache.** `Sound` adds to the types where each job is in
the audio (`Positions`): its decoder has given as many frames as its index counts chunks,
all of them if there are fewer. This needs nothing about the file or the other
jobs, so `NeverShifted` holds with any number of jobs at once. `Exclusive` says what
else holds while no two jobs have met: only one is active (`Alone`); what it knows of
the file at each call (`Stage`), above all that its index is still the count
of the header and that a header being written has a count of zero; the count covers records of
the header's parameters (`Written`); a registered cache is as long as the audio
(`Covered`); and the header is usable unless a job is, or has ended, between its writes
(`Usable`). Each action has a lemma for what it does to the file; that the others are idle
before and after it is one lemma for all (`OthersIdle`).

**The argument for the artifacts.** `InvalidationHolds` needs besides the types what an invalidation
under way has promised so far (`PromiseHolds`): a kind that no job has run on since it began is
removed or still to be, in this step or in the sweep to come. `RegisteredWhole` and
`OutputWhole` rest on one invariant, stated kind by kind for the kinds outside `met` (`Good`):
one job at most is on the kind (`Sole`); what it has written is at the path, for its own profile and up to its part
(`Writes`); a peaks file holds peaks for the parameters of its header only (`Peaks`), without which continuing it
would complete a mixture; then the two properties themselves. `Apart` says that no two kinds share an
inode and no job writes into that of another kind, so a step leaves all other kinds as they are
(`Frame`), and each action needs a lemma for its own kind only. That a peaks file is
continued where its parts end uses the least number principle, which follows from `WFMin` of
the library's well-founded induction.

**The argument for time.** `KeepsTime` follows from how many frames are kept: as many as the
last bucket plus one (`Decimated`). When the rate is not raised, the buckets of consecutive
frames are equal or differ by one (`NextQuotient`), so no bucket is skipped, and the frame that
opens one is less than its own duration late (`FramesInTime`).

**The argument for streams and thumbnails.** `ThumbInv` adds five parts to `TimeInv`, the invariant of `KeepsTime`.
`StreamInv` says what the file and the writer's buffer are together: the units of the header and of the frames kept
(`Layout`), to their end while the render goes on, and cut anywhere after a failure or a crash. Where a frame
ends in such a file is known (`Ends`), so the table of any part of it has the
frames that are there in full and no other (`TableReads`), which is `WholeFramesReadable`.
`JobInv` has the arithmetic of the boundaries: a job asks for those before the end only (`CountIs`), which with
the rounding of the seek gives `MissesOnlyTheLastHalf`. `ReadInv` says what the table of a running job is
of: the stream that is there, or the one it has open that has been replaced (`lost`), whose frames
exist only in the proof. `ShowInv` is about the frame that is decoded and not yet written, and `DirInv` about
those in the directory: each shows its time, and they are the first boundaries without a gap
(`FirstThumbs`), so that a lookup finds the nearest.

`Table` and `Ends` are recursive functions, of which TLA+ says no more than that they are some solution of their equation, if
there is one. So `ScanExists` and `EndsExist` first show that there is: one up to each length, by the least
number principle on the set of lengths (`AllNumbers`), which takes the place of induction with an operator. What
such a function gives is then shown from its equation in the same way, down from the end of the file.

**The argument for recovery.** `RecordsSurvive` rests on what an id means (`Naming`): wherever an id
occurs with a work, in a record, the metadata, the queue, a worker, the list of a recovery or the hands
of the caller, it is the same work, and no other id has that work. `Persist` finds the work by the id, so
this is what keeps it from writing one job's state over another's record; it is also what a second
counter that begins at 1 breaks. `Kept` then says where the work of a `submit` under way is:
with the caller, who has written its record by the time it pushes. No order of recovery, start and
stop matters here.

The other two theorems speak of processes that recover before they start. `Once` says of these: an id is in
one place (`OnePlace`), with metadata and record of its own (`AllPresent`); and while a recovery is under
way no worker runs, what it has queued is recorded as `Pending`, and what it has still to take is recorded
in the state of the pass and is neither queued nor in its hands (`Recovering`). So the second pass finds none of
the jobs that the first has re-enqueued, which is what the count depends on: `Counting` says
that what is counted, what is left, and the one job in between are the records found at the call.

**The argument for the watcher.** That some event of a changed file is on its way is not inductive: the debouncer
keeps one event for each path, and a `Renamed` event that takes the place of another speaks of its old path
alone. `OwedIsSure` therefore asks for more than `StaleIsOnTheWay`: the event is a plain one, of a kind other
than `Renamed`, and no `Renamed` event of the same path is behind it in the channel, or in
the channel at all once it is in the debouncer. A plain event is replaced by a plain one of the same
path only. Where a `Renamed` event does come after it the file has been overwritten, and the assets are among
the excused. `Scanning` is for the backend that polls: the scanner holds no event of an
earlier scan when it takes the mutex, it has one event for each path, and what it tracks is watched, so
that an `unwatch` takes nothing from a path another directory contains.

**The argument for the import.** `CurrentIsTrue` compares a row with the file, but the command holds an
identity for several steps before it writes a row under it, and a job opens its file later still. `ImportInv` therefore
states one relation, `Current(q, u, v)`, at each place: what was read as version `v` is right of the identity of version `u`
of the path `q`, that is, if `u` is the version of the file still, then `v` is `u`. It holds of
what the command has probed (`CommandInv`), of what each job has opened (`JobsInv`), of rows (`AssetsInv`) and of entries
(`EntriesInv`). Versions are never used twice, so no change of the file can make it false: this is the one
lemma about the files, `FilesStep`. It is made true where the file is read because the identity was taken before, which is what the
mutant `Register_Restats` undoes. `SweepInv` says that what an event found are assets of the file of its path, and that an
entry it has still to drop begins with the key of an asset it has still to drop. An asset's entries are found by
their keys: a key names one identity (`KeyOfOne`) and begins with no other asset's key (`EntryKey`).

`ListsWhatCompleted` needs two facts. `MadeInv`: the entry of a job that has recorded its cache is there,
unless an event has dropped some. And the scan does not end too soon: a key that is not before an asset's first
and does not begin with it comes after all that do (`ListsOwn`), because it does so at the first place where it differs.

`RowsReadBack` is a fact about the codec, used on the rows that the invariant allows. `DecodeEncode` follows the cursor of
`decode_media_info` through the row part by part, and `JobReadsBack` does for jobs, with any texts. That cuts are rejected needs no
second look at the parts: a reader that gets to its end on a row gets to the same place on each longer one
(`Follows`), so of two rows that are accepted as wholes neither begins the other (`OneIsRead`), and a job's row that is cut
ends before the reader does.

**Only model-checked** are the liveness properties: fairness and `ENABLED` are outside the prover.

## Not modelled, and why

* Decoding, demuxing, encoding, hashing, redb and notify: external libraries. The models
  use their contract only (serialisable transactions, packets in order, a stream of events). An overflow of the
  kernel's event queue, which notify reports and `map_notify_event` drops, is left out.
* Failing writes of job records: the code logs them and goes on, and after a crash a finished job may run
  again. A failing `submit` inside an import, which leaves a row with some of its jobs.
* Handles cloned before `start`, `forget` of the scheduler and `remove_asset`: nothing in the repository uses them
  outside tests.
* Writes lost with the power of the machine: only a waveform's header and end are synced.
* Sizes of WAV files, which wrap at 4 GiB, the rounding of `f64` rates and times, and profiles that raise the frame
  rate, for which the code says that frames are never repeated.
* FSEvents: its backend shares the mapping of events; what it reports is not modelled.
* The commands other than `import` and `watch`: call sequences of the crates above. `waveform` and `thumbnail` show a
  cache that is there as if it were whole, and `proxy` gives two sources with the same stem one output.
* Test support: it synthesises media files.

## Plan

Modelled and checked are all components but the parts above, and proved is every safety property of a passing run. What is
left is `Recovery` with failing record writes, for what then remains true.
