------------------------- MODULE ArtifactsProperties -------------------------
(***************************************************************************)
(* What callers may rely on of artifacts and their rows.                   *)
(***************************************************************************)
EXTENDS Artifacts

Profiles == {ProfileOf[j] : j \in Job} \cup {0}
FileType == [head : Profiles, sealed : BOOLEAN, body : [1..Parts -> Profiles]]

FilesTyped ==
  /\ image \in Seq(FileType)
  /\ name \in [Kind -> 0..Len(image)]
  /\ rows \subseteq Kind

JobsTyped ==
  /\ pc \in [Job -> {"idle", "source", "create", "write", "record", "remove"}]
  /\ at \in [Job -> 0..Len(image)] /\ part \in [Job -> 0..Parts]
  /\ \A j \in Job : pc[j] \in {"write", "record"} => at[j] # 0

InvTyped == inv \in {"idle", "listed", "sweep"} /\ todo \subseteq Kind

HistoryTyped ==
  /\ torn \subseteq Kind /\ met \subseteq Kind /\ spoiled \subseteq Kind
  /\ promised \subseteq Kind /\ known \subseteq Kind

(* The types of the variables; paths and jobs refer to inodes that exist. *)
TypeOK ==
  /\ FilesTyped /\ JobsTyped /\ InvTyped /\ HistoryTyped
  /\ runs \in Nat /\ invs \in Nat /\ faults \in Nat /\ crashes \in Nat

IsWhole(k) == name[k] # 0 /\ Whole(image[name[k]])

Settled(k) == \A j \in Job : KindOf[j] = k => pc[j] \in {"idle", "source", "create", "record"}

(* generator.rs:27-28: the output path only ever holds a complete proxy,
   unless a run is writing it, if no crash or failing removal has left a part
   of a proxy and no two jobs have written one output at once. *)
OutputIsWholeAlone ==
  \A k \in Rendered \ (torn \cup met) : name[k] # 0 /\ Settled(k) => IsWhole(k)

(* A registered artifact is there and complete, whatever runs, failures,
   crashes and invalidations came before, while none of the windows that
   met and spoiled stand for is open. *)
RegisteredIsWhole ==
  inv = "idle" => \A k \in rows \ (met \cup spoiled) : IsWhole(k)

(* invalidation.rs:14-18: when invalidate_asset has succeeded there is no row
   and no file of what was registered or is at a location it sweeps, until a
   job makes it again. *)
InvalidationHeals ==
  inv = "idle" => \A k \in promised \cap (Swept \cup known) : name[k] = 0 /\ k \notin rows

(* storage.rs:83-85: every file of the asset is gone, registered or not. *)
InvalidationSweepsAll == inv = "idle" => \A k \in promised : name[k] = 0
=============================================================================
