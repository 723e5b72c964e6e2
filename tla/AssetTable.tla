------------------------------ MODULE AssetTable ------------------------------
(***************************************************************************)
(* The tables of the asset database: keys, the row codec, and the scans    *)
(* that look assets up by path and cache entries by asset.                 *)
(*                                                                         *)
(* A row is a sequence of units: a number or an optional one's flag takes  *)
(* one, a string its length and its characters.  Runs of numbers without   *)
(* a flag or a string between them are shown by one of them.  The engine,  *)
(* redb, is external: a table is a function, scanned in the order of keys. *)
(*                                                                         *)
(* A definition named X_Y is a mutation of X, not part of the model.       *)
(***************************************************************************)
EXTENDS Integers, Sequences

\* Enc.
Str(s) == <<Len(s)>> \o s

\* Dec: a cursor; a read past the end fails, and nothing after it succeeds.
Start(row) == [row |-> row, at |-> 0, ok |-> TRUE]

Take(d, n) == [d EXCEPT !.at = @ + n, !.ok = @ /\ d.at + n <= Len(d.row)]

Peek(d) == IF d.ok /\ d.at < Len(d.row) THEN d.row[d.at + 1] ELSE 0
TakeStr(d) == Take(Take(d, 1), Peek(d))
TakeOpt(d) == Take(Take(d, 1), IF Peek(d) = 1 THEN 1 ELSE 0)

Corrupt == [ok |-> FALSE]

\* The presence flag and the fields of VideoInfo or AudioInfo: numbers, a
\* string, an optional bit rate, numbers.
NoStreamInfo == <<0>>
StreamInfo(n, codec, rate) == <<1, n>> \o Str(codec) \o rate \o <<n>>
TakeStreamInfo(d) ==
  IF Peek(d) = 1 THEN Take(TakeOpt(TakeStr(Take(d, 2))), 1) ELSE Take(d, 1)

\* key_bytes: numbers are stored with the low digit first.
LittleEndian(n) == <<n % 2, n \div 2>>
KeyBytes(id) == <<id[1]>> \o LittleEndian(id[2]) \o <<id[3]>>

\* from_key_bytes; the caller has checked the length.
FromKeyBytes(b) == <<b[1], b[2] + 2 * b[3], b[4]>>

MediaTag == [video |-> 0, audio |-> 1, image |-> 2]

EncodeInfo(info) == info.id \o Str(info.path) \o <<MediaTag[info.media]>> \o info.rest

IsWhole_Lenient(d) == d.ok
IsWhole(d) == d.ok /\ d.at = Len(d.row)

\* decode_media_info.
DecodeInfo(row) ==
  LET path == TakeStr(Take(Start(row), 3))
      media == Take(path, 1)
      end == TakeStreamInfo(TakeStreamInfo(TakeOpt(media)))
      Named == {m \in DOMAIN MediaTag : MediaTag[m] = Peek(path)}
  IN  IF IsWhole(end) /\ Named # {}
      THEN [ok |-> TRUE,
            info |-> [id |-> SubSeq(row, 1, 3), path |-> SubSeq(row, 5, path.at),
                      media |-> CHOOSE m \in Named : TRUE,
                      rest |-> SubSeq(row, media.at + 1, Len(row))]]
      ELSE Corrupt

\* upsert_job, and decode_job_record: a job's row may have trailing bytes.
EncodeJob(job) ==
  Str(KeyBytes(job.id)) \o <<job.state>> \o Str(job.kind) \o <<job.progress>> \o Str(job.payload)
    \o <<job.updated>> \o (IF job.error = <<>> THEN <<0>> ELSE <<1>> \o Str(job.error))

DecodeJob(row) ==
  LET id == TakeStr(Start(row))
      kind == TakeStr(Take(id, 1))
      payload == TakeStr(Take(kind, 1))
      flag == Take(payload, 1)
      end == IF Peek(flag) = 1 THEN TakeStr(Take(flag, 1)) ELSE Take(flag, 1)
      StrAt(from, to) == SubSeq(row, from + 2, to)
  IN  IF end.ok /\ Peek(Start(row)) = 4
      THEN [ok |-> TRUE,
            job |-> [id |-> FromKeyBytes(StrAt(0, id.at)), state |-> Peek(id),
                     kind |-> StrAt(id.at + 1, kind.at),
                     progress |-> Peek(kind), payload |-> StrAt(kind.at + 1, payload.at),
                     updated |-> Peek(payload),
                     error |-> IF Peek(flag) = 1 THEN StrAt(flag.at + 1, end.at) ELSE <<>>]]
      ELSE Corrupt
-----------------------------------------------------------------------------
CacheKey(id, tag) == Append(KeyBytes(id), tag)

Less(a, b) ==
  \E n \in 1..Len(b) :
    /\ n - 1 <= Len(a) /\ SubSeq(a, 1, n - 1) = SubSeq(b, 1, n - 1)
    /\ n > Len(a) \/ a[n] < b[n]

HasPrefix(key, prefix) == SubSeq(key, 1, Len(prefix)) = prefix

\* The scans from an asset's key on, in order: list_cache_entries stops at the
\* first key of another asset, invalidate_caches reads on and skips them.
From(keys, prefix) == {k \in keys : ~Less(k, prefix)}

Listed(keys, id) ==
  {k \in From(keys, KeyBytes(id)) :
     \A f \in From(keys, KeyBytes(id)) : HasPrefix(f, KeyBytes(id)) \/ Less(k, f)}

Dropped(keys, id) == {k \in From(keys, KeyBytes(id)) : HasPrefix(k, KeyBytes(id))}

\* list_assets: one row that does not decode fails the whole list.
ListAssets(assets) ==
  IF \A key \in DOMAIN assets : DecodeInfo(assets[key]).ok
  THEN {DecodeInfo(assets[key]).info : key \in DOMAIN assets}
  ELSE {}
=============================================================================
