--------------------------- MODULE ImportProperties ---------------------------
(***************************************************************************)
(* What the database says of assets and caches, and what the import        *)
(* command waits for and prints.                                           *)
(***************************************************************************)
EXTENDS Import

JobRow(j) ==
  [id |-> info.id, state |-> IF IsTerminal(jobs[j]) THEN 2 ELSE 0, kind |-> <<Tags[j]>>,
   progress |-> 0, payload |-> info.path, updated |-> stat,
   error |-> IF jobs[j] = "Failed" THEN <<0, 1>> ELSE <<>>]

Prefixes(row) == {SubSeq(row, 1, n) : n \in 0..(Len(row) - 1)}

(* asset_table.rs:100, job_table.rs:201: a row reads back as what was written,
   whatever optional parts it has; every cut of one is rejected and, of an
   asset's row, so is anything after its end. *)
RowsReadBack ==
  /\ \A key \in DOMAIN assets :
       LET row == assets[key]
           read == DecodeInfo(row)
       IN
       /\ read.ok /\ KeyBytes(read.info.id) = key /\ EncodeInfo(read.info) = row
       /\ \A cut \in Prefixes(row) : ~DecodeInfo(cut).ok
       /\ \A x \in 0..2 : ~DecodeInfo(Append(row, x)).ok
  /\ \A j \in 1..Len(jobs) :
       LET row == EncodeJob(JobRow(j)) IN
       /\ DecodeJob(row) = [ok |-> TRUE, job |-> JobRow(j)]
       /\ \A cut \in Prefixes(row) : ~DecodeJob(cut).ok

\* The version whose metadata the row holds.
ProbedVersion(i) == IF i.media = "video" THEN i.rest[2] ELSE i.rest[4]

(* The identity is taken before the file is read, so what is stored under the
   identity that a file has now was read from the file as it is now, whatever
   changed while it was imported and its jobs ran. *)
CurrentIsTrue ==
  \A p \in DOMAIN fs : fs[p] # 0 =>
    LET key == KeyBytes(IdOf(p, fs[p])) IN
    /\ key \in DOMAIN assets =>
         LET i == DecodeInfo(assets[key]).info IN
         i.media # "image" => ProbedVersion(i) = fs[p]
    /\ \A k \in DOMAIN entries : HasPrefix(k, key) => entries[k] = fs[p]

(* query.rs:40-44: an event drops the entries of every version of the file at
   its path, through any alias while the file exists, and of no other file. *)
SweepsAllVersions ==
  [][/\ DOMAIN entries \ DOMAIN entries' \subseteq EntriesOf(target)
     /\ doomed' = {} => due' = {}]_vars

(* main.rs:191-194: an import that has waited for its jobs lists the entry of
   each job that completed, unless an event has dropped some. *)
ListsWhatCompleted ==
  pc = "list" /\ ~swept =>
    \A j \in 1..Len(jobs) : jobs[j] = "Completed" =>
      CacheKey(info.id, Tags[j]) \in Listed(DOMAIN entries, info.id)

(* The tracker wakes who waits: an import returns, without any of its waits
   timing out. *)
ImportReturns == pc # "idle" ~> pc = "idle"
=============================================================================
