---------------------------- MODULE ImportProofs ----------------------------
(***************************************************************************)
(* Theorems about the import command and the database, for any paths and   *)
(* aliases, kinds of files, earlier imports and numbers of changes,        *)
(* imports, events and faults.                                             *)
(***************************************************************************)
EXTENDS ImportProperties, SequenceTheorems, TLAPS

(* Cursors on rows. *)

Row == Seq(Nat)

IsCursor(d) == d \in [row : Row, at : Nat, ok : BOOLEAN]

\* What the cursor d has read of its row, e reads of a longer one.
Follows(e, d) ==
  /\ IsCursor(d) /\ IsCursor(e)
  /\ Len(d.row) <= Len(e.row) /\ \A n \in 1..Len(d.row) : d.row[n] = e.row[n]
  /\ d.ok => e.ok /\ e.at = d.at /\ d.at <= Len(d.row)

\* A cursor stays one, on its row.
LEMMA CursorTake ==
  ASSUME NEW d, IsCursor(d), NEW n \in Nat
  PROVE  /\ IsCursor(Take(d, n)) /\ Take(d, n).row = d.row /\ Take(d, n).at = d.at + n
         /\ Take(d, n).ok <=> d.ok /\ d.at + n <= Len(d.row)
<1>1. d.at + n \in Nat
  BY DEF IsCursor
<1>2. (d.ok /\ d.at + n <= Len(d.row)) \in BOOLEAN
  OBVIOUS
<1>3. Take(d, n) = [d EXCEPT !.at = d.at + n, !.ok = d.ok /\ d.at + n <= Len(d.row)]
  BY DEF IsCursor, Take
<1> DEFINE b == d.ok /\ d.at + n <= Len(d.row)
<1> HIDE DEF b
<1>4. /\ Take(d, n) \in [row : Row, at : Nat, ok : BOOLEAN] /\ Take(d, n).row = d.row
      /\ Take(d, n).at = d.at + n /\ Take(d, n).ok = b
  BY <1>1, <1>2, <1>3 DEF IsCursor, b
<1> QED
  BY <1>4 DEF b, IsCursor

\* What is read ahead is a number: a missing unit reads as 0.
LEMMA CursorPeek ==
  ASSUME NEW d, IsCursor(d)
  PROVE  Peek(d) \in Nat
<1>1. d.row \in Seq(Nat) /\ d.at \in Nat
  BY DEF IsCursor, Row
<1>2. Len(d.row) \in Nat
  BY <1>1
<1>3. CASE d.ok /\ d.at < Len(d.row)
  <2>1. d.at + 1 \in 1..Len(d.row)
    BY <1>1, <1>2, <1>3
  <2> QED
    BY <1>1, <2>1, <1>3, ElementOfSeq DEF Peek
<1> QED
  BY <1>3 DEF Peek

\* So do the reads of a string, of an option and of the fields of a stream.
LEMMA CursorTakes ==
  ASSUME NEW d, IsCursor(d)
  PROVE  /\ IsCursor(TakeStr(d)) /\ TakeStr(d).row = d.row
         /\ IsCursor(TakeOpt(d)) /\ TakeOpt(d).row = d.row
         /\ IsCursor(TakeStreamInfo(d)) /\ TakeStreamInfo(d).row = d.row
<1>1. Peek(d) \in Nat
  BY CursorPeek
<1>2. \A c, n : IsCursor(c) /\ n \in Nat => IsCursor(Take(c, n)) /\ Take(c, n).row = c.row
  BY CursorTake
<1>3. \A c : IsCursor(c) => /\ IsCursor(TakeStr(c)) /\ TakeStr(c).row = c.row
                           /\ IsCursor(TakeOpt(c)) /\ TakeOpt(c).row = c.row
  <2> SUFFICES ASSUME NEW c, IsCursor(c)
               PROVE  /\ IsCursor(TakeStr(c)) /\ TakeStr(c).row = c.row
                      /\ IsCursor(TakeOpt(c)) /\ TakeOpt(c).row = c.row
    OBVIOUS
  <2>1. Peek(c) \in Nat
    BY CursorPeek
  <2>2. IsCursor(Take(c, 1)) /\ Take(c, 1).row = c.row
    BY <1>2
  <2>3. TakeStr(c) = Take(Take(c, 1), Peek(c))
    BY DEF TakeStr
  <2>4. \E n \in Nat : TakeOpt(c) = Take(Take(c, 1), n)
    BY DEF TakeOpt
  <2> QED
    BY <1>2, <2>1, <2>2, <2>3, <2>4
<1>4. TakeStreamInfo(d) = Take(TakeOpt(TakeStr(Take(d, 2))), 1) \/ TakeStreamInfo(d) = Take(d, 1)
  BY DEF TakeStreamInfo
<1>5. IsCursor(TakeOpt(TakeStr(Take(d, 2)))) /\ TakeOpt(TakeStr(Take(d, 2))).row = d.row
  BY <1>2, <1>3
<1> QED
  BY <1>2, <1>3, <1>4, <1>5

\* A read that succeeds on a row does on a longer one, and ends there.
LEMMA FollowsTake ==
  ASSUME NEW d, NEW e, Follows(e, d), NEW m \in Nat, NEW n \in Nat,
         Take(d, n).ok => m = n
  PROVE  Follows(Take(e, m), Take(d, n))
<1>1. IsCursor(d) /\ IsCursor(e) /\ d.at \in Nat /\ Len(d.row) \in Nat /\ Len(e.row) \in Nat
  BY DEF Follows, IsCursor, Row
<1> DEFINE f == Take(d, n)
           g == Take(e, m)
<1>2. /\ IsCursor(f) /\ f.row = d.row /\ f.at = d.at + n
      /\ f.ok <=> d.ok /\ d.at + n <= Len(d.row)
  BY <1>1, CursorTake
<1>3. /\ IsCursor(g) /\ g.row = e.row /\ g.at = e.at + m
      /\ g.ok <=> e.ok /\ e.at + m <= Len(e.row)
  BY <1>1, CursorTake
<1>4. f.ok => m = n
  OBVIOUS
<1> HIDE DEF f, g
<1>5. f.ok => g.ok /\ g.at = f.at /\ f.at <= Len(f.row)
  BY <1>1, <1>2, <1>3, <1>4 DEF Follows
<1>6. Follows(g, f)
  BY <1>1, <1>2, <1>3, <1>5 DEF Follows
<1> QED
  BY <1>6 DEF f, g

\* A unit that is there in a row is the same in a longer one.
LEMMA FollowsPeek ==
  ASSUME NEW d, NEW e, Follows(e, d), Take(d, 1).ok
  PROVE  Peek(e) = Peek(d)
<1>1. IsCursor(d) /\ IsCursor(e) /\ d.at \in Nat /\ Len(d.row) \in Nat /\ Len(e.row) \in Nat
  BY DEF Follows, IsCursor, Row
<1>2. d.ok /\ d.at + 1 <= Len(d.row)
  BY <1>1, CursorTake
<1> QED
  BY <1>1, <1>2 DEF Follows, Peek

\* No read succeeds after one that has failed.
LEMMA TakenOk ==
  ASSUME NEW d, IsCursor(d), NEW n \in Nat, Take(d, n).ok
  PROVE  d.ok
  BY CursorTake

\* The same of the other reads.
LEMMA FollowsStrOpt ==
  ASSUME NEW d, NEW e, Follows(e, d)
  PROVE  Follows(TakeStr(e), TakeStr(d)) /\ Follows(TakeOpt(e), TakeOpt(d))
<1>1. IsCursor(d) /\ IsCursor(e) /\ Peek(d) \in Nat /\ Peek(e) \in Nat
  BY CursorPeek DEF Follows
<1>2. ASSUME NEW m \in Nat, NEW n \in Nat, Take(d, 1).ok => m = n
      PROVE  Follows(Take(Take(e, 1), m), Take(Take(d, 1), n))
  <2>1. Follows(Take(e, 1), Take(d, 1))
    BY FollowsTake
  <2>2. IsCursor(Take(d, 1))
    BY <1>1, CursorTake
  <2> QED
    BY <1>2, <2>1, <2>2, FollowsTake, TakenOk
<1>3. Follows(TakeStr(e), TakeStr(d))
  BY <1>1, <1>2, FollowsPeek DEF TakeStr
<1>4. Follows(TakeOpt(e), TakeOpt(d))
  BY <1>1, <1>2, FollowsPeek DEF TakeOpt
<1> QED
  BY <1>3, <1>4

\* A string or an option is not read after a failure.
LEMMA TakenStrOk ==
  ASSUME NEW d, IsCursor(d)
  PROVE  (TakeStr(d).ok => d.ok) /\ (TakeOpt(d).ok => d.ok)
<1>1. Peek(d) \in Nat /\ IsCursor(Take(d, 1))
  BY CursorPeek, CursorTake
<1>2. \A n \in Nat : Take(Take(d, 1), n).ok => d.ok
  BY <1>1, TakenOk
<1> QED
  BY <1>1, <1>2 DEF TakeStr, TakeOpt

\* The fields of a stream are read from a longer row as from a row.
LEMMA FollowsStreamInfo ==
  ASSUME NEW d, NEW e, Follows(e, d)
  PROVE  Follows(TakeStreamInfo(e), TakeStreamInfo(d))
<1> DEFINE Long(c) == Take(TakeOpt(TakeStr(Take(c, 2))), 1)
<1>1. IsCursor(d) /\ IsCursor(e)
  BY DEF Follows
<1>2. Follows(Long(e), Long(d)) /\ Follows(Take(e, 1), Take(d, 1))
  BY FollowsTake, FollowsStrOpt
<1>3. CASE TakeStreamInfo(d).ok
  <2>1. Long(d).ok => Take(d, 2).ok
    <3>1. IsCursor(Take(d, 2)) /\ IsCursor(TakeStr(Take(d, 2)))
          /\ IsCursor(TakeOpt(TakeStr(Take(d, 2))))
      BY <1>1, CursorTake, CursorTakes
    <3> QED
      BY <3>1, TakenOk, TakenStrOk
  <2>2. Take(d, 2).ok => Take(d, 1).ok
    <3>1. d.at \in Nat /\ Len(d.row) \in Nat
      BY <1>1 DEF IsCursor, Row
    <3>2. (Take(d, 1).ok <=> d.ok /\ d.at + 1 <= Len(d.row))
          /\ (Take(d, 2).ok <=> d.ok /\ d.at + 2 <= Len(d.row))
      BY <1>1, CursorTake
    <3> QED
      BY <3>1, <3>2
  <2>3. Take(d, 1).ok
    BY <1>3, <2>1, <2>2 DEF TakeStreamInfo
  <2>4. Peek(e) = Peek(d)
    BY <2>3, FollowsPeek
  <2> QED
    BY <1>2, <2>4 DEF TakeStreamInfo
<1>4. CASE ~TakeStreamInfo(d).ok
  BY <1>1, <1>4, CursorTakes DEF Follows
<1> QED
  BY <1>3, <1>4
-----------------------------------------------------------------------------
(* The two readers. *)

\* Both readers begin before the first unit.
LEMMA FollowsStart ==
  ASSUME NEW s \in Row, NEW t \in Row, Len(s) <= Len(t),
         \A n \in 1..Len(s) : s[n] = t[n]
  PROVE  Follows(Start(t), Start(s))
  BY DEF Follows, Start, IsCursor, Row

\* Where decode_media_info and decode_job_record end.
InfoEnd(row) ==
  TakeStreamInfo(TakeStreamInfo(TakeOpt(Take(TakeStr(Take(Start(row), 3)), 1))))

JobFlag(row) == Take(TakeStr(Take(TakeStr(Take(TakeStr(Start(row)), 1)), 1)), 1)

JobEnd(row) ==
  IF Peek(JobFlag(row)) = 1 THEN TakeStr(Take(JobFlag(row), 1)) ELSE Take(JobFlag(row), 1)

\* decode_media_info reads a row that begins with another as the other.
LEMMA FollowsInfo ==
  ASSUME NEW s \in Row, NEW t \in Row, Len(s) <= Len(t),
         \A n \in 1..Len(s) : s[n] = t[n]
  PROVE  Follows(InfoEnd(t), InfoEnd(s))
  BY FollowsStart, FollowsTake, FollowsStrOpt, FollowsStreamInfo DEF InfoEnd

\* So does decode_job_record.
LEMMA FollowsJob ==
  ASSUME NEW s \in Row, NEW t \in Row, Len(s) <= Len(t),
         \A n \in 1..Len(s) : s[n] = t[n]
  PROVE  Follows(JobFlag(t), JobFlag(s)) /\ Follows(JobEnd(t), JobEnd(s))
<1>1. Follows(JobFlag(t), JobFlag(s))
  BY FollowsStart, FollowsTake, FollowsStrOpt DEF JobFlag
<1>2. IsCursor(JobFlag(t)) /\ IsCursor(JobFlag(s))
  BY <1>1 DEF Follows
<1>3. Follows(TakeStr(Take(JobFlag(t), 1)), TakeStr(Take(JobFlag(s), 1)))
      /\ Follows(Take(JobFlag(t), 1), Take(JobFlag(s), 1))
  BY <1>1, FollowsTake, FollowsStrOpt
<1>4. CASE Take(JobFlag(s), 1).ok
  BY <1>1, <1>3, <1>4, FollowsPeek DEF JobEnd
<1>5. CASE ~Take(JobFlag(s), 1).ok
  <2>1. IsCursor(Take(JobFlag(s), 1)) /\ IsCursor(Take(JobFlag(t), 1))
        /\ Take(JobFlag(s), 1).row = JobFlag(s).row /\ Take(JobFlag(t), 1).row = JobFlag(t).row
    BY <1>2, CursorTake
  <2>2. ~TakeStr(Take(JobFlag(s), 1)).ok
    BY <1>5, <2>1, TakenStrOk
  <2>3. \A row \in {s, t} : /\ IsCursor(JobEnd(row))
                           /\ JobEnd(row).row = JobFlag(row).row
    BY <2>1, CursorTakes DEF JobEnd
  <2>4. ~JobEnd(s).ok
    BY <1>5, <2>2 DEF JobEnd
  <2> QED
    BY <1>1, <2>3, <2>4 DEF Follows
<1> QED
  BY <1>1, <1>4, <1>5
-----------------------------------------------------------------------------
(* A cursor that has read the first m units of a row. *)

Cur(row, m) == [row |-> row, at |-> m, ok |-> TRUE]

\* A unit that is there is read.
LEMMA CurTake ==
  ASSUME NEW row \in Row, NEW m \in Nat, NEW n \in Nat, m + n <= Len(row)
  PROVE  Take(Cur(row, m), n) = Cur(row, m + n)
<1>1. m + n \in Nat
  OBVIOUS
<1>2. Take(Cur(row, m), n) = [Cur(row, m) EXCEPT !.at = m + n, !.ok = TRUE]
  BY DEF Take, Cur
<1> QED
  BY <1>1, <1>2 DEF Cur

\* What is read ahead is the next unit.
LEMMA CurPeek ==
  ASSUME NEW row \in Row, NEW m \in Nat, m < Len(row)
  PROVE  Peek(Cur(row, m)) = row[m + 1]
  BY DEF Peek, Cur

\* A string is read to the end that its length says.
LEMMA CurStr ==
  ASSUME NEW row \in Row, NEW m \in Nat, NEW n \in Nat, m + 1 + n <= Len(row), row[m + 1] = n
  PROVE  TakeStr(Cur(row, m)) = Cur(row, m + 1 + n)
<1>1. Len(row) \in Nat
  BY DEF Row
<1>2. Peek(Cur(row, m)) = n
  BY <1>1, CurPeek
<1>3. Take(Cur(row, m), 1) = Cur(row, m + 1)
  BY <1>1, CurTake
<1>4. Take(Cur(row, m + 1), n) = Cur(row, m + 1 + n)
  BY <1>1, CurTake
<1> QED
  BY <1>2, <1>3, <1>4 DEF TakeStr

\* An option takes one unit after its flag, if that is 1.
LEMMA CurOpt ==
  ASSUME NEW row \in Row, NEW m \in Nat, NEW n \in {0, 1}, m + 1 + n <= Len(row), row[m + 1] = n
  PROVE  TakeOpt(Cur(row, m)) = Cur(row, m + 1 + n)
<1>1. Len(row) \in Nat
  BY DEF Row
<1>2. Peek(Cur(row, m)) = n
  BY <1>1, CurPeek
<1>3. Take(Cur(row, m), 1) = Cur(row, m + 1)
  BY <1>1, CurTake
<1>4. Take(Cur(row, m + 1), n) = Cur(row, m + 1 + n)
  BY <1>1, CurTake
<1> QED
  BY <1>2, <1>3, <1>4 DEF TakeOpt

\* Without a stream only the flag is read.
LEMMA CurNoStream ==
  ASSUME NEW row \in Row, NEW m \in Nat, m + 1 <= Len(row), row[m + 1] = 0
  PROVE  TakeStreamInfo(Cur(row, m)) = Cur(row, m + 1)
<1>1. Len(row) \in Nat
  BY DEF Row
<1>2. Peek(Cur(row, m)) = 0 /\ Take(Cur(row, m), 1) = Cur(row, m + 1)
  BY <1>1, CurPeek, CurTake
<1> QED
  BY <1>2 DEF TakeStreamInfo

\* A stream is read to the end that its string and option say.
LEMMA CurStream ==
  ASSUME NEW row \in Row, NEW m \in Nat, NEW n \in Nat, NEW b \in {0, 1},
         m + 5 + n + b <= Len(row),
         row[m + 1] = 1, row[m + 3] = n, row[m + 4 + n] = b
  PROVE  TakeStreamInfo(Cur(row, m)) = Cur(row, m + 5 + n + b)
<1>1. Len(row) \in Nat
  BY DEF Row
<1>2. Peek(Cur(row, m)) = 1 /\ Take(Cur(row, m), 2) = Cur(row, m + 2)
  BY <1>1, CurPeek, CurTake
<1>3. TakeStr(Cur(row, m + 2)) = Cur(row, m + 3 + n)
  <2>1. m + 2 \in Nat /\ (m + 2) + 1 = m + 3 /\ (m + 2) + 1 + n = m + 3 + n
    OBVIOUS
  <2> QED
    BY <1>1, <2>1, CurStr
<1>4. TakeOpt(Cur(row, m + 3 + n)) = Cur(row, m + 4 + n + b)
  <2>1. PICK o \in Nat : o = m + 3 + n
    OBVIOUS
  <2>2. o + 1 = m + 4 + n /\ o + 1 + b = m + 4 + n + b /\ m + 4 + n + b <= Len(row)
    BY <1>1, <2>1
  <2>3. TakeOpt(Cur(row, o)) = Cur(row, o + 1 + b)
    BY <2>2, CurOpt
  <2> QED
    BY <2>1, <2>2, <2>3
<1>5. Take(Cur(row, m + 4 + n + b), 1) = Cur(row, m + 5 + n + b)
  <2>1. m + 4 + n + b \in Nat /\ (m + 4 + n + b) + 1 = m + 5 + n + b
    OBVIOUS
  <2> QED
    BY <1>1, <2>1, CurTake
<1> QED
  BY <1>2, <1>3, <1>4, <1>5 DEF TakeStreamInfo

\* The units of a row of an asset.
InfoRow(h, u, z, text, tag, rest) == <<h, u, z>> \o Str(text) \o <<tag>> \o rest

IsUnits(row, n, h, u, z, text, tag, rest) ==
  /\ row \in Row /\ n \in Nat /\ Len(rest) \in Nat
  /\ Len(row) = 5 + n + Len(rest)
  /\ row[1] = h /\ row[2] = u /\ row[3] = z /\ row[4] = n
  /\ \A k \in 1..n : row[4 + k] = text[k]
  /\ row[5 + n] = tag
  /\ \A k \in 1..Len(rest) : row[5 + n + k] = rest[k]

\* Where the parts of a row of an asset are.
LEMMA InfoUnits ==
  ASSUME NEW h \in Nat, NEW u \in Nat, NEW z \in Nat, NEW tag \in Nat,
         NEW text \in Row, NEW rest \in Row
  PROVE  IsUnits(InfoRow(h, u, z, text, tag, rest), Len(text), h, u, z, text, tag, rest)
<1> DEFINE n == Len(text)
           head == <<h, u, z>>
           s == <<n>> \o text
           a == head \o s
           b == a \o <<tag>>
           row == b \o rest
<1>1. n \in Nat /\ Len(rest) \in Nat /\ text \in Seq(Nat) /\ rest \in Seq(Nat)
  BY DEF Row
<1>2. s \in Seq(Nat) /\ Len(s) = 1 + n /\ s[1] = n /\ \A k \in 1..n : s[1 + k] = text[k]
  <2>1. <<n>> \in Seq(Nat) /\ Len(<<n>>) = 1 /\ <<n>>[1] = n
    BY <1>1
  <2> HIDE DEF n
  <2> QED
    BY <1>1, <2>1, ConcatProperties DEF n
<1>3. a \in Seq(Nat) /\ Len(a) = 4 + n /\ a[1] = h /\ a[2] = u /\ a[3] = z
      /\ \A k \in 1..1 + n : a[3 + k] = s[k]
  <2>1. head \in Seq(Nat) /\ Len(head) = 3 /\ head[1] = h /\ head[2] = u /\ head[3] = z
    OBVIOUS
  <2> HIDE DEF head, s, n
  <2>2. a \in Seq(Nat) /\ Len(a) = Len(head) + Len(s)
        /\ \A k \in 1..Len(head) + Len(s) :
             a[k] = IF k <= Len(head) THEN head[k] ELSE s[k - Len(head)]
    BY <1>2, <2>1, ConcatProperties
  <2> HIDE DEF a
  <2>3. Len(a) = 4 + n /\ \A k \in 1..4 + n : a[k] = IF k <= 3 THEN head[k] ELSE s[k - 3]
    <3>1. Len(head) = 3 /\ Len(head) + Len(s) = 4 + n
      BY <1>1, <1>2, <2>1
    <3> QED
      BY <2>2, <3>1
  <2>4. ASSUME NEW k \in 1..1 + n
        PROVE  a[3 + k] = s[k]
    <3>1. 3 + k \in 1..4 + n /\ ~(3 + k <= 3) /\ (3 + k) - 3 = k
      BY <1>1
    <3> QED
      BY <2>3, <3>1
  <2> QED
    BY <1>1, <2>1, <2>2, <2>3, <2>4
<1>4. b \in Seq(Nat) /\ Len(b) = 5 + n /\ b[5 + n] = tag /\ \A k \in 1..4 + n : b[k] = a[k]
  <2>1. <<tag>> \in Seq(Nat) /\ Len(<<tag>>) = 1 /\ <<tag>>[1] = tag
    OBVIOUS
  <2> HIDE DEF a, n
  <2> QED
    BY <1>1, <1>3, <2>1, ConcatProperties
<1>5. row \in Seq(Nat) /\ Len(row) = 5 + n + Len(rest)
      /\ (\A k \in 1..5 + n : row[k] = b[k])
      /\ \A k \in 1..Len(rest) : row[5 + n + k] = rest[k]
  <2> HIDE DEF b, n
  <2>1. row \in Seq(Nat) /\ Len(row) = Len(b) + Len(rest)
        /\ \A k \in 1..Len(b) + Len(rest) : row[k] = IF k <= Len(b) THEN b[k] ELSE rest[k - Len(b)]
    BY <1>1, <1>4, ConcatProperties
  <2> HIDE DEF row
  <2>2. Len(b) = 5 + n
    BY <1>4
  <2>3. \A k \in 1..5 + n : row[k] = b[k]
    BY <1>1, <2>1, <2>2
  <2>4. ASSUME NEW k \in 1..Len(rest)
        PROVE  row[5 + n + k] = rest[k]
    <3>1. 5 + n + k \in 1..5 + n + Len(rest) /\ ~(5 + n + k <= 5 + n) /\ (5 + n + k) - (5 + n) = k
      BY <1>1
    <3> QED
      BY <2>1, <2>2, <3>1
  <2> QED
    BY <2>1, <2>2, <2>3, <2>4
<1>6. row = InfoRow(h, u, z, text, tag, rest)
  BY DEF Str, InfoRow
<1> HIDE DEF row, a, b, s, n
<1>7. \A k \in 1..4 + n : row[k] = a[k]
  BY <1>1, <1>4, <1>5
<1>8. row[4] = n /\ \A k \in 1..n : row[4 + k] = text[k]
  <2>1. \A k \in 1..1 + n : row[3 + k] = s[k]
    BY <1>1, <1>3, <1>7
  <2>2. row[3 + 1] = s[1]
    BY <1>1, <2>1
  <2>3. ASSUME NEW k \in 1..n
        PROVE  row[4 + k] = text[k]
    <3>1. 1 + k \in 1..1 + n /\ 3 + (1 + k) = 4 + k
      BY <1>1
    <3> QED
      BY <1>2, <2>1, <3>1
  <2> QED
    BY <1>2, <2>2, <2>3
<1>9. row[1] = h /\ row[2] = u /\ row[3] = z /\ row[5 + n] = tag
  BY <1>1, <1>3, <1>4, <1>5, <1>7
<1>10. IsUnits(row, n, h, u, z, text, tag, rest)
  BY <1>1, <1>5, <1>8, <1>9 DEF Row, IsUnits
<1> QED
  BY <1>6, <1>10 DEF n

\* The units of two parts, one after the other.
LEMMA Joined ==
  ASSUME NEW s \in Seq(Nat), NEW t \in Seq(Nat)
  PROVE  /\ s \o t \in Seq(Nat) /\ Len(s \o t) = Len(s) + Len(t)
         /\ \A n \in 1..Len(s) : (s \o t)[n] = s[n]
         /\ \A n \in 1..Len(t) : (s \o t)[Len(s) + n] = t[n]
<1> DEFINE c == s \o t
<1>1. c \in Seq(Nat) /\ Len(c) = Len(s) + Len(t)
      /\ \A n \in 1..Len(s) + Len(t) : c[n] = IF n <= Len(s) THEN s[n] ELSE t[n - Len(s)]
  BY ConcatProperties
<1>2. Len(s) \in Nat /\ Len(t) \in Nat
  OBVIOUS
<1> HIDE DEF c
<1>3. ASSUME NEW n \in 1..Len(t)
      PROVE  c[Len(s) + n] = t[n]
  <2>1. Len(s) + n \in 1..Len(s) + Len(t) /\ ~(Len(s) + n <= Len(s)) /\ (Len(s) + n) - Len(s) = n
    BY <1>2
  <2> QED
    BY <1>1, <2>1
<1>4. \A n \in 1..Len(s) : c[n] = s[n]
  BY <1>1, <1>2
<1> QED
  BY <1>1, <1>3, <1>4 DEF c

\* The units after the type of the media.
VideoRest(v) == <<1, v>> \o StreamInfo(v, <<v, 0>>, <<1, v>>) \o NoStreamInfo
AudioRest(v) == <<0>> \o NoStreamInfo \o StreamInfo(v, <<v>>, <<0>>)
ImageRest == <<0>> \o NoStreamInfo \o NoStreamInfo

\* Of a video.
LEMMA RestOfVideo ==
  ASSUME NEW v \in Nat, NEW rest, rest = VideoRest(v)
  PROVE  /\ rest \in Seq(Nat) /\ Len(rest) = 11 /\ rest[1] = 1 /\ rest[2] = v
         /\ rest[3] = 1 /\ rest[5] = 2 /\ rest[8] = 1 /\ rest[11] = 0
<1> DEFINE one == <<v>>
           zero == <<0>>
           two == <<1, v>>
           x == <<2>>
           y == <<v, 0>>
           a == x \o y
           b == two \o a
           c == b \o two
           d == c \o one
           e == two \o d
           f == e \o zero
<1>1. /\ two \in Seq(Nat) /\ Len(two) = 2 /\ two[1] = 1 /\ two[2] = v
      /\ one \in Seq(Nat) /\ Len(one) = 1 /\ zero \in Seq(Nat) /\ Len(zero) = 1 /\ zero[1] = 0
      /\ x \in Seq(Nat) /\ Len(x) = 1 /\ x[1] = 2 /\ y \in Seq(Nat) /\ Len(y) = 2
  OBVIOUS
<1>2. rest = f
  BY DEF VideoRest, StreamInfo, NoStreamInfo, Str
<1> HIDE DEF one, zero, two, x, y
<1>3. a \in Seq(Nat) /\ Len(a) = 3 /\ a[1] = 2
  <2>1. /\ a \in Seq(Nat) /\ Len(a) = Len(x) + Len(y)
        /\ (\A n \in 1..Len(x) : a[n] = x[n])
        /\ \A n \in 1..Len(y) : a[Len(x) + n] = y[n]
    BY <1>1, Joined
  <2> HIDE DEF a
  <2> QED
    BY <1>1, <2>1
<1> HIDE DEF a
<1>4. b \in Seq(Nat) /\ Len(b) = 5 /\ b[1] = 1 /\ b[2 + 1] = 2
  <2>1. /\ b \in Seq(Nat) /\ Len(b) = Len(two) + Len(a)
        /\ (\A n \in 1..Len(two) : b[n] = two[n])
        /\ \A n \in 1..Len(a) : b[Len(two) + n] = a[n]
    BY <1>1, <1>3, Joined
  <2> HIDE DEF b
  <2> QED
    BY <1>1, <1>3, <2>1
<1> HIDE DEF b
<1>5. c \in Seq(Nat) /\ Len(c) = 7 /\ c[1] = 1 /\ c[3] = 2 /\ c[5 + 1] = 1
  <2>1. /\ c \in Seq(Nat) /\ Len(c) = Len(b) + Len(two)
        /\ (\A n \in 1..Len(b) : c[n] = b[n])
        /\ \A n \in 1..Len(two) : c[Len(b) + n] = two[n]
    BY <1>1, <1>4, Joined
  <2> HIDE DEF c
  <2> QED
    BY <1>1, <1>4, <2>1
<1> HIDE DEF c
<1>6. d \in Seq(Nat) /\ Len(d) = 8 /\ d[1] = 1 /\ d[3] = 2 /\ d[6] = 1
  <2>1. /\ d \in Seq(Nat) /\ Len(d) = Len(c) + Len(one)
        /\ (\A n \in 1..Len(c) : d[n] = c[n])
        /\ \A n \in 1..Len(one) : d[Len(c) + n] = one[n]
    BY <1>1, <1>5, Joined
  <2> HIDE DEF d
  <2> QED
    BY <1>1, <1>5, <2>1
<1> HIDE DEF d
<1>7. e \in Seq(Nat) /\ Len(e) = 10 /\ e[1] = 1 /\ e[2] = v
      /\ e[2 + 1] = 1 /\ e[2 + 3] = 2 /\ e[2 + 6] = 1
  <2>1. /\ e \in Seq(Nat) /\ Len(e) = Len(two) + Len(d)
        /\ (\A n \in 1..Len(two) : e[n] = two[n])
        /\ \A n \in 1..Len(d) : e[Len(two) + n] = d[n]
    BY <1>1, <1>6, Joined
  <2> HIDE DEF e
  <2> QED
    BY <1>1, <1>6, <2>1
<1> HIDE DEF e
<1>8. /\ f \in Seq(Nat) /\ Len(f) = 11 /\ f[10 + 1] = 0
      /\ f[1] = 1 /\ f[2] = v /\ f[3] = 1 /\ f[5] = 2 /\ f[8] = 1
  <2>1. /\ f \in Seq(Nat) /\ Len(f) = Len(e) + Len(zero)
        /\ (\A n \in 1..Len(e) : f[n] = e[n])
        /\ \A n \in 1..Len(zero) : f[Len(e) + n] = zero[n]
    BY <1>1, <1>7, Joined
  <2> HIDE DEF f
  <2> QED
    BY <1>1, <1>7, <2>1
<1> HIDE DEF f
<1>9. f[11] = 0
  BY <1>8
<1> QED
  <2>1. rest \in Seq(Nat) /\ Len(rest) = 11
    BY <1>2, <1>8
  <2>2. rest[11] = 0
    BY <1>2, <1>9
  <2> QED
    BY <1>2, <1>8, <2>1, <2>2

\* Of an audio file and of an image.
LEMMA RestOfOthers ==
  ASSUME NEW v \in Nat, NEW audio, NEW image,
         audio = AudioRest(v), image = ImageRest
  PROVE  /\ audio \in Seq(Nat) /\ Len(audio) = 8 /\ audio[1] = 0 /\ audio[2] = 0 /\ audio[3] = 1
         /\ audio[4] = v /\ audio[5] = 1 /\ audio[7] = 0
         /\ image \in Seq(Nat) /\ Len(image) = 3 /\ image[1] = 0 /\ image[2] = 0 /\ image[3] = 0
<1> DEFINE one == <<v>>
           zero == <<0>>
           two == <<1, v>>
           x == <<1>>
           z == zero \o zero
           a == x \o one
           b == two \o a
           c == b \o zero
           d == c \o one
           e == z \o d
           f == z \o zero
<1>1. /\ two \in Seq(Nat) /\ Len(two) = 2 /\ two[1] = 1 /\ two[2] = v
      /\ one \in Seq(Nat) /\ Len(one) = 1 /\ zero \in Seq(Nat) /\ Len(zero) = 1 /\ zero[1] = 0
      /\ x \in Seq(Nat) /\ Len(x) = 1 /\ x[1] = 1
  OBVIOUS
<1>2. audio = e /\ image = f
  BY DEF AudioRest, ImageRest, StreamInfo, NoStreamInfo, Str
<1> HIDE DEF one, zero, two, x
<1>3. a \in Seq(Nat) /\ Len(a) = 2 /\ a[1] = 1
  <2>1. /\ a \in Seq(Nat) /\ Len(a) = Len(x) + Len(one)
        /\ (\A n \in 1..Len(x) : a[n] = x[n])
        /\ \A n \in 1..Len(one) : a[Len(x) + n] = one[n]
    BY <1>1, Joined
  <2> HIDE DEF a
  <2> QED
    BY <1>1, <2>1
<1> HIDE DEF a
<1>4. b \in Seq(Nat) /\ Len(b) = 4 /\ b[1] = 1 /\ b[2] = v /\ b[2 + 1] = 1
  <2>1. /\ b \in Seq(Nat) /\ Len(b) = Len(two) + Len(a)
        /\ (\A n \in 1..Len(two) : b[n] = two[n])
        /\ \A n \in 1..Len(a) : b[Len(two) + n] = a[n]
    BY <1>1, <1>3, Joined
  <2> HIDE DEF b
  <2> QED
    BY <1>1, <1>3, <2>1
<1> HIDE DEF b
<1>5. c \in Seq(Nat) /\ Len(c) = 5 /\ c[1] = 1 /\ c[2] = v /\ c[3] = 1 /\ c[4 + 1] = 0
  <2>1. /\ c \in Seq(Nat) /\ Len(c) = Len(b) + Len(zero)
        /\ (\A n \in 1..Len(b) : c[n] = b[n])
        /\ \A n \in 1..Len(zero) : c[Len(b) + n] = zero[n]
    BY <1>1, <1>4, Joined
  <2> HIDE DEF c
  <2> QED
    BY <1>1, <1>4, <2>1
<1> HIDE DEF c
<1>6. d \in Seq(Nat) /\ Len(d) = 6 /\ d[1] = 1 /\ d[2] = v /\ d[3] = 1 /\ d[5] = 0
  <2>1. /\ d \in Seq(Nat) /\ Len(d) = Len(c) + Len(one)
        /\ (\A n \in 1..Len(c) : d[n] = c[n])
        /\ \A n \in 1..Len(one) : d[Len(c) + n] = one[n]
    BY <1>1, <1>5, Joined
  <2> HIDE DEF d
  <2> QED
    BY <1>1, <1>5, <2>1
<1> HIDE DEF d
<1>7. z \in Seq(Nat) /\ Len(z) = 2 /\ z[1] = 0 /\ z[1 + 1] = 0
  <2>1. /\ z \in Seq(Nat) /\ Len(z) = Len(zero) + Len(zero)
        /\ (\A n \in 1..Len(zero) : z[n] = zero[n])
        /\ \A n \in 1..Len(zero) : z[Len(zero) + n] = zero[n]
    BY <1>1, Joined
  <2> HIDE DEF z
  <2> QED
    BY <1>1, <2>1
<1> HIDE DEF z
<1>8. /\ e \in Seq(Nat) /\ Len(e) = 8 /\ e[1] = 0 /\ e[2] = 0 /\ e[2 + 1] = 1
      /\ e[2 + 2] = v /\ e[2 + 3] = 1 /\ e[2 + 5] = 0
  <2>1. /\ e \in Seq(Nat) /\ Len(e) = Len(z) + Len(d)
        /\ (\A n \in 1..Len(z) : e[n] = z[n])
        /\ \A n \in 1..Len(d) : e[Len(z) + n] = d[n]
    BY <1>6, <1>7, Joined
  <2> HIDE DEF e
  <2> QED
    BY <1>6, <1>7, <2>1
<1> HIDE DEF e
<1>9. f \in Seq(Nat) /\ Len(f) = 3 /\ f[1] = 0 /\ f[2] = 0 /\ f[2 + 1] = 0
  <2>1. /\ f \in Seq(Nat) /\ Len(f) = Len(z) + Len(zero)
        /\ (\A n \in 1..Len(z) : f[n] = z[n])
        /\ \A n \in 1..Len(zero) : f[Len(z) + n] = zero[n]
    BY <1>1, <1>7, Joined
  <2> HIDE DEF f
  <2> QED
    BY <1>1, <1>7, <2>1
<1> HIDE DEF f
<1>10. e[3] = 1 /\ e[4] = v /\ e[5] = 1 /\ e[7] = 0 /\ f[3] = 0
  BY <1>8, <1>9
<1>11. /\ audio \in Seq(Nat) /\ Len(audio) = 8 /\ audio[1] = 0 /\ audio[2] = 0 /\ audio[3] = 1
       /\ audio[4] = v /\ audio[5] = 1 /\ audio[7] = 0
  BY <1>2, <1>8, <1>10
<1>12. image \in Seq(Nat) /\ Len(image) = 3 /\ image[1] = 0 /\ image[2] = 0 /\ image[3] = 0
  BY <1>2, <1>9, <1>10
<1> QED
  BY <1>11, <1>12

\* Of each of the two.
LEMMA RestOfAudio ==
  ASSUME NEW v \in Nat, NEW rest, rest = AudioRest(v)
  PROVE  /\ rest \in Seq(Nat) /\ Len(rest) = 8 /\ rest[1] = 0 /\ rest[2] = 0 /\ rest[3] = 1
         /\ rest[4] = v /\ rest[5] = 1 /\ rest[7] = 0
<1>1. PICK image : image = ImageRest
  OBVIOUS
<1> QED
  BY <1>1, RestOfOthers

\* An image has nothing after the type but flags.
LEMMA RestOfImage ==
  ASSUME NEW rest, rest = ImageRest
  PROVE  rest \in Seq(Nat) /\ Len(rest) = 3 /\ rest[1] = 0 /\ rest[2] = 0 /\ rest[3] = 0
<1>1. PICK audio : audio = AudioRest(0)
  OBVIOUS
<1>2. 0 \in Nat
  OBVIOUS
<1> QED
  BY <1>1, <1>2, RestOfOthers
-----------------------------------------------------------------------------
(* What is encoded is read back. *)

IsInfo(i) ==
  \E h, u, z, v \in Nat : \E p \in Path :
    i \in {VideoRow(<<h, u, z>>, p, v), AudioRow(<<h, u, z>>, p, v), ImageRow(<<h, u, z>>, p)}

\* The rows from the type of the media on: the flags and lengths end them.
LEMMA InfoShape ==
  ASSUME NEW i, IsInfo(i)
  PROVE  /\ i = [id |-> i.id, path |-> i.path, media |-> i.media, rest |-> i.rest]
         /\ i.path \in Row /\ i.rest \in Row /\ i.media \in {"video", "audio", "image"}
         /\ \E h, u, z \in Nat : i.id = <<h, u, z>>
         /\ i.media = "video" => i.rest[1] = 1 /\ i.rest[3] = 1 /\ i.rest[5] = 2
                               /\ i.rest[8] = 1 /\ i.rest[11] = 0 /\ Len(i.rest) = 11
         /\ i.media = "audio" => i.rest[1] = 0 /\ i.rest[2] = 0 /\ i.rest[3] = 1
                               /\ i.rest[5] = 1 /\ i.rest[7] = 0 /\ Len(i.rest) = 8
         /\ i.media = "image" => i.rest[1] = 0 /\ i.rest[2] = 0 /\ i.rest[3] = 0
                               /\ Len(i.rest) = 3
<1>1. PICK h \in Nat, u \in Nat, z \in Nat, v \in Nat, p \in Path :
        i \in {VideoRow(<<h, u, z>>, p, v), AudioRow(<<h, u, z>>, p, v), ImageRow(<<h, u, z>>, p)}
  BY DEF IsInfo
<1>2. TextOf[p] \in Row
  BY ImportAssumption DEF Row
<1>3. CASE i = VideoRow(<<h, u, z>>, p, v)
  <2>1. i.rest = VideoRest(v)
    BY <1>3 DEF VideoRow, VideoRest
  <2>2. /\ i = [id |-> i.id, path |-> i.path, media |-> i.media, rest |-> i.rest]
        /\ i.path \in Row /\ i.media = "video" /\ i.id = <<h, u, z>>
    BY <1>2, <1>3 DEF VideoRow
  <2>3. /\ i.rest \in Seq(Nat) /\ Len(i.rest) = 11 /\ i.rest[1] = 1 /\ i.rest[3] = 1
        /\ i.rest[5] = 2 /\ i.rest[8] = 1 /\ i.rest[11] = 0
    BY <2>1, RestOfVideo
  <2> QED
    BY <2>2, <2>3 DEF Row
<1>4. CASE i = AudioRow(<<h, u, z>>, p, v)
  <2>1. i.rest = AudioRest(v)
    BY <1>4 DEF AudioRow, AudioRest
  <2>2. /\ i = [id |-> i.id, path |-> i.path, media |-> i.media, rest |-> i.rest]
        /\ i.path \in Row /\ i.media = "audio" /\ i.id = <<h, u, z>>
    BY <1>2, <1>4 DEF AudioRow
  <2>3. /\ i.rest \in Seq(Nat) /\ Len(i.rest) = 8 /\ i.rest[1] = 0 /\ i.rest[2] = 0
        /\ i.rest[3] = 1 /\ i.rest[5] = 1 /\ i.rest[7] = 0
    BY <2>1, RestOfAudio
  <2> QED
    BY <2>2, <2>3 DEF Row
<1>5. CASE i = ImageRow(<<h, u, z>>, p)
  <2>1. i.rest = ImageRest
    BY <1>5 DEF ImageRow, ImageRest
  <2>2. /\ i = [id |-> i.id, path |-> i.path, media |-> i.media, rest |-> i.rest]
        /\ i.path \in Row /\ i.media = "image" /\ i.id = <<h, u, z>>
    BY <1>2, <1>5 DEF ImageRow
  <2>3. /\ i.rest \in Seq(Nat) /\ Len(i.rest) = 3
        /\ i.rest[1] = 0 /\ i.rest[2] = 0 /\ i.rest[3] = 0
    BY <2>1, RestOfImage
  <2> QED
    BY <2>2, <2>3 DEF Row
<1> QED
  BY <1>1, <1>3, <1>4, <1>5

\* From the type of the media the reader gets to the end, of a video,
LEMMA EndOfVideo ==
  ASSUME NEW row \in Row, NEW m \in Nat, Len(row) = m + 11, row[m + 1] = 1, row[m + 3] = 1,
         row[m + 5] = 2, row[m + 8] = 1, row[m + 11] = 0
  PROVE  TakeStreamInfo(TakeStreamInfo(TakeOpt(Cur(row, m)))) = Cur(row, m + 11)
<1>1. Len(row) \in Nat
  BY DEF Row
<1>2. TakeOpt(Cur(row, m)) = Cur(row, m + 2)
  <2>1. m + 1 + 1 = m + 2 /\ m + 2 <= Len(row)
    BY <1>1
  <2> QED
    BY <1>1, <2>1, CurOpt
<1>3. TakeStreamInfo(Cur(row, m + 2)) = Cur(row, m + 10)
  <2> DEFINE a == m + 2
  <2>1. /\ a \in Nat /\ a + 5 + 2 + 1 = m + 10 /\ a + 5 + 2 + 1 <= Len(row)
        /\ a + 1 = m + 3 /\ a + 3 = m + 5 /\ a + 4 + 2 = m + 8
    BY <1>1
  <2>2. row[a + 1] = 1 /\ row[a + 3] = 2 /\ row[a + 4 + 2] = 1
    BY <2>1
  <2> HIDE DEF a
  <2>3. TakeStreamInfo(Cur(row, a)) = Cur(row, a + 5 + 2 + 1)
    BY <1>1, <2>1, <2>2, CurStream
  <2> QED
    BY <2>1, <2>3 DEF a
<1>4. TakeStreamInfo(Cur(row, m + 10)) = Cur(row, m + 11)
  <2>1. m + 10 \in Nat /\ (m + 10) + 1 = m + 11 /\ m + 11 <= Len(row)
    BY <1>1
  <2> QED
    BY <1>1, <2>1, CurNoStream
<1> QED
  BY <1>2, <1>3, <1>4

\* of an audio file,
LEMMA EndOfAudio ==
  ASSUME NEW row \in Row, NEW m \in Nat, Len(row) = m + 8, row[m + 1] = 0, row[m + 2] = 0,
         row[m + 3] = 1, row[m + 5] = 1, row[m + 7] = 0
  PROVE  TakeStreamInfo(TakeStreamInfo(TakeOpt(Cur(row, m)))) = Cur(row, m + 8)
<1>1. Len(row) \in Nat
  BY DEF Row
<1>2. TakeOpt(Cur(row, m)) = Cur(row, m + 1)
  <2>1. m + 1 + 0 = m + 1 /\ m + 1 <= Len(row)
    BY <1>1
  <2> QED
    BY <1>1, <2>1, CurOpt
<1>3. TakeStreamInfo(Cur(row, m + 1)) = Cur(row, m + 2)
  <2>1. m + 1 \in Nat /\ (m + 1) + 1 = m + 2 /\ m + 2 <= Len(row)
    BY <1>1
  <2> QED
    BY <1>1, <2>1, CurNoStream
<1>4. TakeStreamInfo(Cur(row, m + 2)) = Cur(row, m + 8)
  <2> DEFINE a == m + 2
  <2>1. /\ a \in Nat /\ a + 5 + 1 + 0 = m + 8 /\ a + 5 + 1 + 0 <= Len(row)
        /\ a + 1 = m + 3 /\ a + 3 = m + 5 /\ a + 4 + 1 = m + 7
    BY <1>1
  <2>2. row[a + 1] = 1 /\ row[a + 3] = 1 /\ row[a + 4 + 1] = 0
    BY <2>1
  <2> HIDE DEF a
  <2>3. TakeStreamInfo(Cur(row, a)) = Cur(row, a + 5 + 1 + 0)
    BY <1>1, <2>1, <2>2, CurStream
  <2> QED
    BY <2>1, <2>3 DEF a
<1> QED
  BY <1>2, <1>3, <1>4

\* and of an image.
LEMMA EndOfImage ==
  ASSUME NEW row \in Row, NEW m \in Nat, Len(row) = m + 3,
         row[m + 1] = 0, row[m + 2] = 0, row[m + 3] = 0
  PROVE  TakeStreamInfo(TakeStreamInfo(TakeOpt(Cur(row, m)))) = Cur(row, m + 3)
<1>1. Len(row) \in Nat
  BY DEF Row
<1>2. TakeOpt(Cur(row, m)) = Cur(row, m + 1)
  <2>1. m + 1 + 0 = m + 1 /\ m + 1 <= Len(row)
    BY <1>1
  <2> QED
    BY <1>1, <2>1, CurOpt
<1>3. TakeStreamInfo(Cur(row, m + 1)) = Cur(row, m + 2)
  <2>1. m + 1 \in Nat /\ (m + 1) + 1 = m + 2 /\ m + 2 <= Len(row)
    BY <1>1
  <2> QED
    BY <1>1, <2>1, CurNoStream
<1>4. TakeStreamInfo(Cur(row, m + 2)) = Cur(row, m + 3)
  <2>1. m + 2 \in Nat /\ (m + 2) + 1 = m + 3 /\ m + 3 <= Len(row)
    BY <1>1
  <2> QED
    BY <1>1, <2>1, CurNoStream
<1> QED
  BY <1>2, <1>3, <1>4

\* What follows the type of the media in a row.
IsRest(rest) ==
  \/ /\ Len(rest) = 11 /\ rest[1] = 1 /\ rest[3] = 1 /\ rest[5] = 2 /\ rest[8] = 1
     /\ rest[11] = 0
  \/ /\ Len(rest) = 8 /\ rest[1] = 0 /\ rest[2] = 0 /\ rest[3] = 1 /\ rest[5] = 1
     /\ rest[7] = 0
  \/ Len(rest) = 3 /\ rest[1] = 0 /\ rest[2] = 0 /\ rest[3] = 0

\* The cursor of decode_media_info before and after the type of the media,
\* and at the end.
LEMMA RowCursors ==
  ASSUME NEW row \in Row, NEW n \in Nat, NEW rest \in Row, IsRest(rest),
         Len(row) = 5 + n + Len(rest), row[4] = n,
         \A k \in 1..Len(rest) : row[5 + n + k] = rest[k]
  PROVE  /\ TakeStr(Take(Start(row), 3)) = Cur(row, 4 + n)
         /\ Take(Cur(row, 4 + n), 1) = Cur(row, 5 + n)
         /\ InfoEnd(row) = Cur(row, Len(row))
<1>1. Len(row) \in Nat /\ Len(rest) \in Nat
  BY DEF Row
<1>2. Take(Start(row), 3) = Cur(row, 3)
  <2>1. Start(row) = Cur(row, 0)
    BY DEF Start, Cur
  <2>2. 0 + 3 = 3 /\ 3 <= Len(row)
    BY <1>1
  <2>3. Take(Cur(row, 0), 3) = Cur(row, 0 + 3)
    BY <2>2, CurTake
  <2> QED
    BY <2>1, <2>2, <2>3
<1>3. TakeStr(Cur(row, 3)) = Cur(row, 4 + n)
  <2>1. 3 + 1 + n = 4 + n /\ 3 + 1 + n <= Len(row) /\ row[3 + 1] = n
    BY <1>1
  <2>2. TakeStr(Cur(row, 3)) = Cur(row, 3 + 1 + n)
    BY <2>1, CurStr
  <2> QED
    BY <2>1, <2>2
<1>4. Take(Cur(row, 4 + n), 1) = Cur(row, 5 + n)
  <2>1. 4 + n \in Nat /\ (4 + n) + 1 = 5 + n /\ 5 + n <= Len(row)
    BY <1>1
  <2>2. Take(Cur(row, 4 + n), 1) = Cur(row, (4 + n) + 1)
    BY <2>1, CurTake
  <2> QED
    BY <2>1, <2>2
<1>5. InfoEnd(row) = TakeStreamInfo(TakeStreamInfo(TakeOpt(Cur(row, 5 + n))))
  BY <1>2, <1>3, <1>4 DEF InfoEnd
<1> DEFINE m == 5 + n
<1>6. m \in Nat /\ Len(row) = m + Len(rest) /\ \A k \in 1..Len(rest) : row[m + k] = rest[k]
  OBVIOUS
<1> HIDE DEF m
<1>7. TakeStreamInfo(TakeStreamInfo(TakeOpt(Cur(row, m)))) = Cur(row, Len(row))
  <2>1. CASE /\ Len(rest) = 11 /\ rest[1] = 1 /\ rest[3] = 1 /\ rest[5] = 2 /\ rest[8] = 1
             /\ rest[11] = 0
    <3>1. /\ Len(row) = m + 11 /\ row[m + 1] = 1 /\ row[m + 3] = 1 /\ row[m + 5] = 2
          /\ row[m + 8] = 1 /\ row[m + 11] = 0
      BY <1>6, <2>1
    <3> QED
      BY <1>6, <3>1, EndOfVideo
  <2>2. CASE /\ Len(rest) = 8 /\ rest[1] = 0 /\ rest[2] = 0 /\ rest[3] = 1 /\ rest[5] = 1
             /\ rest[7] = 0
    <3>1. /\ Len(row) = m + 8 /\ row[m + 1] = 0 /\ row[m + 2] = 0 /\ row[m + 3] = 1
          /\ row[m + 5] = 1 /\ row[m + 7] = 0
      BY <1>6, <2>2
    <3> QED
      BY <1>6, <3>1, EndOfAudio
  <2>3. CASE Len(rest) = 3 /\ rest[1] = 0 /\ rest[2] = 0 /\ rest[3] = 0
    <3>1. Len(row) = m + 3 /\ row[m + 1] = 0 /\ row[m + 2] = 0 /\ row[m + 3] = 0
      BY <1>6, <2>3
    <3> QED
      BY <1>6, <3>1, EndOfImage
  <2> QED
    BY <2>1, <2>2, <2>3 DEF IsRest
<1>8. InfoEnd(row) = Cur(row, Len(row))
  BY <1>5, <1>7 DEF m
<1>9. TakeStr(Take(Start(row), 3)) = Cur(row, 4 + n)
  BY <1>2, <1>3
<1> QED
  BY <1>4, <1>8, <1>9

\* A part that is found at a place is cut out again.
LEMMA Cut ==
  ASSUME NEW row \in Row, NEW m \in Nat, NEW t \in Row, m + Len(t) <= Len(row),
         \A k \in 1..Len(t) : row[m + k] = t[k]
  PROVE  SubSeq(row, m + 1, m + Len(t)) = t
<1> DEFINE n == m + Len(t)
           s == SubSeq(row, m + 1, n)
<1>1. Len(row) \in Nat /\ Len(t) \in Nat /\ m + 1 \in Int /\ n \in Int
  BY DEF Row
<1>2. n - (m + 1) + 1 = Len(t)
  BY <1>1
<1>3. \A k \in m + 1..n : row[k] \in Nat
  <2>1. \A k \in m + 1..n : k \in 1..Len(row)
    BY <1>1
  <2> QED
    BY <2>1, ElementOfSeq DEF Row
<1>4. /\ s \in Seq(Nat) /\ Len(s) = IF m + 1 <= n THEN n - (m + 1) + 1 ELSE 0
      /\ \A k \in 1..n - (m + 1) + 1 : s[k] = row[m + 1 + k - 1]
  BY <1>1, <1>3, SubSeqProperties
<1> HIDE DEF s
<1>5. Len(s) = Len(t)
  BY <1>1, <1>2, <1>4
<1>6. ASSUME NEW k \in 1..Len(t)
      PROVE  s[k] = t[k]
  <2>1. m + 1 + k - 1 = m + k
    BY <1>1
  <2> QED
    BY <1>2, <1>4, <2>1
<1>7. t \in Seq(Nat)
  BY DEF Row
<1>8. s = t
  BY <1>4, <1>5, <1>6, <1>7, SeqEqual
<1> QED
  BY <1>8 DEF s

\* A row is taken apart into what it was put together from.
PathEnd(row) == TakeStr(Take(Start(row), 3))
MediaEnd(row) == Take(PathEnd(row), 1)

IsTakenApart(row, h, u, z, text, tag, rest) ==
  /\ row \in Row /\ Len(row) = 5 + Len(text) + Len(rest)
  /\ row[1] = h /\ row[2] = u /\ row[3] = z
  /\ InfoEnd(row) = Cur(row, Len(row))
  /\ Peek(PathEnd(row)) = tag
  /\ SubSeq(row, 1, 3) = <<h, u, z>>
  /\ SubSeq(row, 5, PathEnd(row).at) = text
  /\ SubSeq(row, MediaEnd(row).at + 1, Len(row)) = rest

\* The reader finds the parts that the writer has put together.
LEMMA RowTakenApart ==
  ASSUME NEW h \in Nat, NEW u \in Nat, NEW z \in Nat, NEW tag \in Nat,
         NEW text \in Row, NEW rest \in Row, IsRest(rest)
  PROVE  IsTakenApart(InfoRow(h, u, z, text, tag, rest), h, u, z, text, tag, rest)
<1> DEFINE row == InfoRow(h, u, z, text, tag, rest)
           named == PathEnd(row)
           media == MediaEnd(row)
           n == Len(text)
<1>1. /\ row \in Row /\ n \in Nat /\ Len(rest) \in Nat
      /\ Len(row) = 5 + n + Len(rest)
      /\ row[1] = h /\ row[2] = u /\ row[3] = z /\ row[4] = n
      /\ \A k \in 1..n : row[4 + k] = text[k]
      /\ row[5 + n] = tag
      /\ \A k \in 1..Len(rest) : row[5 + n + k] = rest[k]
  <2>1. IsUnits(row, n, h, u, z, text, tag, rest)
    BY InfoUnits
  <2> HIDE DEF row, n
  <2> QED
    BY <2>1 DEF IsUnits
<1> HIDE DEF row, n
<1>2. named = Cur(row, 4 + n) /\ media = Cur(row, 5 + n) /\ InfoEnd(row) = Cur(row, Len(row))
  <2>1. /\ TakeStr(Take(Start(row), 3)) = Cur(row, 4 + n)
        /\ Take(Cur(row, 4 + n), 1) = Cur(row, 5 + n)
        /\ InfoEnd(row) = Cur(row, Len(row))
    BY <1>1, RowCursors
  <2>2. named = Cur(row, 4 + n)
    BY <2>1 DEF PathEnd
  <2>3. media = Cur(row, 5 + n)
    BY <2>1, <2>2 DEF MediaEnd
  <2> QED
    BY <2>1, <2>2, <2>3
<1>3. named.at = 4 + n /\ media.at = 5 + n
  BY <1>2 DEF Cur
<1> HIDE DEF named, media
<1>4. Peek(named) = tag
  <2>1. 4 + n \in Nat /\ 4 + n < Len(row) /\ (4 + n) + 1 = 5 + n
    BY <1>1
  <2>2. Peek(Cur(row, 4 + n)) = row[(4 + n) + 1]
    BY <1>1, <2>1, CurPeek
  <2> QED
    BY <1>1, <1>2, <2>1, <2>2
<1>5. SubSeq(row, 1, 3) = <<h, u, z>>
  <2> DEFINE t == <<h, u, z>>
  <2>1. t \in Row /\ Len(t) = 3 /\ t[1] = h /\ t[2] = u /\ t[3] = z
    BY DEF Row
  <2> HIDE DEF t
  <2>2. 0 + Len(t) <= Len(row) /\ 0 + 1 = 1 /\ 0 + Len(t) = 3
    BY <1>1, <2>1
  <2>3. \A k \in 1..Len(t) : row[0 + k] = t[k]
    BY <1>1, <2>1
  <2>4. SubSeq(row, 0 + 1, 0 + Len(t)) = t
    BY <1>1, <2>1, <2>2, <2>3, Cut
  <2> QED
    BY <2>2, <2>4 DEF t
<1>6. SubSeq(row, 5, named.at) = text
  <2>1. n = Len(text)
    BY DEF n
  <2>2. 4 + Len(text) <= Len(row) /\ 4 + 1 = 5 /\ \A k \in 1..Len(text) : row[4 + k] = text[k]
    BY <1>1, <2>1
  <2>3. SubSeq(row, 4 + 1, 4 + Len(text)) = text
    BY <1>1, <2>2, Cut
  <2> QED
    BY <1>3, <2>1, <2>2, <2>3
<1>7. SubSeq(row, media.at + 1, Len(row)) = rest
  <2> DEFINE m == 5 + n
  <2>1. m \in Nat /\ m + Len(rest) <= Len(row) /\ m + Len(rest) = Len(row)
        /\ \A k \in 1..Len(rest) : row[m + k] = rest[k]
    BY <1>1
  <2>2. media.at = m
    BY <1>3
  <2> HIDE DEF m
  <2>3. SubSeq(row, m + 1, m + Len(rest)) = rest
    BY <1>1, <2>1, Cut
  <2> QED
    BY <2>1, <2>2, <2>3
<1>8. Len(row) = 5 + Len(text) + Len(rest)
  BY <1>1 DEF n
<1>9. /\ row \in Row /\ row[1] = h /\ row[2] = u /\ row[3] = z
      /\ InfoEnd(row) = Cur(row, Len(row))
  BY <1>1, <1>2
<1>10. IsTakenApart(row, h, u, z, text, tag, rest)
  BY <1>4, <1>5, <1>6, <1>7, <1>8, <1>9 DEF named, media, IsTakenApart
<1> QED
  BY <1>10 DEF row

\* The row of an asset is one of those.
LEMMA InfoIsRow ==
  ASSUME NEW i, IsInfo(i)
  PROVE  \E h, u, z \in Nat :
           /\ i.id = <<h, u, z>> /\ MediaTag[i.media] \in Nat
           /\ EncodeInfo(i) = InfoRow(h, u, z, i.path, MediaTag[i.media], i.rest)
           /\ IsTakenApart(EncodeInfo(i), h, u, z, i.path, MediaTag[i.media], i.rest)
<1>1. PICK h \in Nat, u \in Nat, z \in Nat : i.id = <<h, u, z>>
  BY InfoShape
<1>2. i.path \in Row /\ i.rest \in Row /\ i.media \in {"video", "audio", "image"} /\ IsRest(i.rest)
  BY InfoShape DEF IsRest
<1>3. MediaTag[i.media] \in Nat
  BY <1>2 DEF MediaTag
<1>4. EncodeInfo(i) = InfoRow(h, u, z, i.path, MediaTag[i.media], i.rest)
  BY <1>1 DEF EncodeInfo, InfoRow
<1>5. IsTakenApart(InfoRow(h, u, z, i.path, MediaTag[i.media], i.rest),
                   h, u, z, i.path, MediaTag[i.media], i.rest)
  BY <1>2, <1>3, RowTakenApart
<1> QED
  BY <1>1, <1>3, <1>4, <1>5

\* asset_table.rs: what is written is read back.
LEMMA DecodeEncode ==
  ASSUME NEW i, IsInfo(i)
  PROVE  /\ EncodeInfo(i) \in Row
         /\ DecodeInfo(EncodeInfo(i)) = [ok |-> TRUE, info |-> i]
<1> DEFINE row == EncodeInfo(i)
           end == InfoEnd(row)
           Named == {m \in DOMAIN MediaTag : MediaTag[m] = Peek(PathEnd(row))}
           Read == [id |-> SubSeq(row, 1, 3), path |-> SubSeq(row, 5, PathEnd(row).at),
                    media |-> CHOOSE m \in Named : TRUE,
                    rest |-> SubSeq(row, MediaEnd(row).at + 1, Len(row))]
<1>1. DecodeInfo(row) = IF IsWhole(end) /\ Named # {} THEN [ok |-> TRUE, info |-> Read] ELSE Corrupt
  BY DEF DecodeInfo, InfoEnd, PathEnd, MediaEnd
<1>2. PICK h \in Nat, u \in Nat, z \in Nat :
        i.id = <<h, u, z>> /\ IsTakenApart(row, h, u, z, i.path, MediaTag[i.media], i.rest)
  BY InfoIsRow
<1> HIDE DEF row
<1>3. row \in Row /\ IsWhole(end)
  <2>1. row \in Row /\ end = Cur(row, Len(row))
    BY <1>2 DEF IsTakenApart
  <2>2. IsWhole(Cur(row, Len(row)))
    BY DEF IsWhole, Cur
  <2> QED
    BY <2>1, <2>2
<1>4. Named = {i.media}
  <2>1. Peek(PathEnd(row)) = MediaTag[i.media]
    BY <1>2 DEF IsTakenApart
  <2>2. i.media \in {"video", "audio", "image"}
    BY InfoShape
  <2> QED
    BY <2>1, <2>2 DEF MediaTag
<1>5. (CHOOSE m \in Named : TRUE) = i.media
  BY <1>4
<1>6. /\ SubSeq(row, 1, 3) = i.id /\ SubSeq(row, 5, PathEnd(row).at) = i.path
      /\ SubSeq(row, MediaEnd(row).at + 1, Len(row)) = i.rest
  BY <1>2 DEF IsTakenApart
<1>7. Read = [id |-> i.id, path |-> i.path, media |-> i.media, rest |-> i.rest]
  BY <1>5, <1>6
<1>8. Read = i
  BY <1>7, InfoShape
<1>9. DecodeInfo(row) = [ok |-> TRUE, info |-> i]
  BY <1>1, <1>3, <1>4, <1>8
<1> QED
  BY <1>3, <1>9 DEF row

\* A row is accepted only if it is read to its end.
LEMMA InfoEndOf ==
  ASSUME NEW row \in Row
  PROVE  /\ IsCursor(InfoEnd(row)) /\ InfoEnd(row).row = row
         /\ DecodeInfo(row).ok \in BOOLEAN
         /\ DecodeInfo(row).ok => IsWhole(InfoEnd(row))
<1>1. IsCursor(Start(row)) /\ Start(row).row = row
  BY DEF IsCursor, Start
<1>2. IsCursor(Take(Start(row), 3)) /\ Take(Start(row), 3).row = row
  BY <1>1, CursorTake
<1> DEFINE a == TakeStr(Take(Start(row), 3))
           b == TakeOpt(Take(a, 1))
<1>3. IsCursor(a) /\ a.row = row
  BY <1>2, CursorTakes
<1>4. IsCursor(Take(a, 1)) /\ Take(a, 1).row = row
  BY <1>3, CursorTake
<1>5. IsCursor(b) /\ b.row = row
  BY <1>4, CursorTakes
<1>6. InfoEnd(row) = TakeStreamInfo(TakeStreamInfo(b))
  BY DEF InfoEnd
<1> HIDE DEF a, b
<1>7. IsCursor(TakeStreamInfo(b)) /\ TakeStreamInfo(b).row = row
  BY <1>5, CursorTakes
<1>8. IsCursor(InfoEnd(row)) /\ InfoEnd(row).row = row
  BY <1>6, <1>7, CursorTakes
<1> DEFINE Named == {m \in DOMAIN MediaTag : MediaTag[m] = Peek(PathEnd(row))}
           Read == [id |-> SubSeq(row, 1, 3), path |-> SubSeq(row, 5, PathEnd(row).at),
                    media |-> CHOOSE m \in Named : TRUE,
                    rest |-> SubSeq(row, MediaEnd(row).at + 1, Len(row))]
<1>9. DecodeInfo(row) = IF IsWhole(InfoEnd(row)) /\ Named # {}
                        THEN [ok |-> TRUE, info |-> Read] ELSE Corrupt
  BY DEF DecodeInfo, InfoEnd, PathEnd, MediaEnd
<1> HIDE DEF Named, Read
<1> QED
  BY <1>8, <1>9 DEF Corrupt

\* Of two rows one of which begins the other at most one is read.
LEMMA OneIsRead ==
  ASSUME NEW s \in Row, NEW t \in Row, Len(s) < Len(t), \A n \in 1..Len(s) : s[n] = t[n]
  PROVE  ~(DecodeInfo(s).ok /\ DecodeInfo(t).ok)
<1>1. Len(s) \in Nat /\ Len(t) \in Nat
  BY DEF Row
<1>2. Follows(InfoEnd(t), InfoEnd(s))
  BY <1>1, FollowsInfo
<1>3. InfoEnd(s).row = s /\ InfoEnd(t).row = t
  BY InfoEndOf
<1>4. ~(IsWhole(InfoEnd(s)) /\ IsWhole(InfoEnd(t)))
  BY <1>1, <1>2, <1>3 DEF Follows, IsWhole
<1>5. \A row \in Row : DecodeInfo(row).ok => IsWhole(InfoEnd(row))
  BY InfoEndOf
<1> QED
  BY <1>4, <1>5

\* A row begins with every cut of it.
LEMMA CutAgrees ==
  ASSUME NEW row \in Row, NEW cut \in Prefixes(row)
  PROVE  cut \in Row /\ Len(cut) < Len(row) /\ \A n \in 1..Len(cut) : cut[n] = row[n]
<1>1. PICK k \in 0..(Len(row) - 1) : cut = SubSeq(row, 1, k)
  BY DEF Prefixes
<1>2. Len(row) \in Nat /\ k \in Int /\ k - 1 + 1 = k
  BY DEF Row
<1>3. \A n \in 1..k : row[n] \in Nat
  <2>1. \A n \in 1..k : n \in 1..Len(row)
    BY <1>2
  <2> QED
    BY <2>1, ElementOfSeq DEF Row
<1>4. /\ cut \in Seq(Nat) /\ Len(cut) = IF 1 <= k THEN k - 1 + 1 ELSE 0
      /\ \A n \in 1..k - 1 + 1 : cut[n] = row[1 + n - 1]
  BY <1>1, <1>2, <1>3, SubSeqProperties
<1>5. Len(cut) = k /\ Len(cut) < Len(row)
  BY <1>2, <1>4
<1>6. ASSUME NEW n \in 1..k
      PROVE  cut[n] = row[n]
  <2>1. 1 + n - 1 = n
    OBVIOUS
  <2> QED
    BY <1>2, <1>4, <2>1
<1> QED
  BY <1>4, <1>5, <1>6 DEF Row

\* asset_table.rs: a row that is cut, or followed by anything, is rejected.
LEMMA InfoStrict ==
  ASSUME NEW i, IsInfo(i)
  PROVE  /\ \A cut \in Prefixes(EncodeInfo(i)) : ~DecodeInfo(cut).ok
         /\ \A x \in 0..2 : ~DecodeInfo(Append(EncodeInfo(i), x)).ok
<1> DEFINE row == EncodeInfo(i)
<1>1. row \in Row /\ DecodeInfo(row).ok
  BY DecodeEncode
<1> HIDE DEF row
<1>2. ASSUME NEW cut \in Prefixes(row)
      PROVE  ~DecodeInfo(cut).ok
  BY <1>1, CutAgrees, OneIsRead
<1>3. ASSUME NEW x \in 0..2
      PROVE  ~DecodeInfo(Append(row, x)).ok
  <2> DEFINE t == Append(row, x)
  <2>1. /\ t \in Row /\ Len(row) \in Nat /\ Len(t) = Len(row) + 1
        /\ \A n \in 1..Len(row) : t[n] = row[n]
    BY <1>1, AppendProperties DEF Row
  <2> HIDE DEF t
  <2>2. Len(row) < Len(t)
    BY <2>1
  <2>3. ~DecodeInfo(t).ok
    BY <1>1, <2>1, <2>2, OneIsRead
  <2> QED
    BY <2>3 DEF t
<1> QED
  BY <1>2, <1>3 DEF row
-----------------------------------------------------------------------------
(* Keys. *)

IsId(i) == \E h, u, z \in Nat : i = <<h, u, z>>

\* key_bytes.
LEMMA KeyUnits ==
  ASSUME NEW h \in Nat, NEW u \in Nat, NEW z \in Nat
  PROVE  KeyBytes(<<h, u, z>>) = <<h, u % 2, u \div 2, z>>
<1>1. u % 2 \in Nat /\ u \div 2 \in Nat
  OBVIOUS
<1> DEFINE p == u % 2
           q == u \div 2
<1>2. p \in Nat /\ q \in Nat
  BY <1>1
<1>3. KeyBytes(<<h, u, z>>) = <<h>> \o <<p, q>> \o <<z>>
  BY DEF KeyBytes, LittleEndian
<1> HIDE DEF p, q
<1>4. <<h>> \o <<p, q>> \o <<z>> = <<h, p, q, z>>
  <2> DEFINE x == <<h>>
             y == <<p, q>>
             w == <<z>>
             a == x \o y
             b == a \o w
             c == <<h, p, q, z>>
  <2>1. /\ x \in Seq(Nat) /\ Len(x) = 1 /\ x[1] = h
        /\ y \in Seq(Nat) /\ Len(y) = 2 /\ y[1] = p /\ y[2] = q
        /\ w \in Seq(Nat) /\ Len(w) = 1 /\ w[1] = z
    BY <1>2
  <2>2. c \in Seq(Nat) /\ Len(c) = 4 /\ c[1] = h /\ c[2] = p /\ c[3] = q /\ c[4] = z
    BY <1>2
  <2> HIDE DEF x, y, w, c
  <2>3. a \in Seq(Nat) /\ Len(a) = 3 /\ a[1] = h /\ a[1 + 1] = p /\ a[1 + 2] = q
    <3>1. /\ a \in Seq(Nat) /\ Len(a) = Len(x) + Len(y)
          /\ (\A n \in 1..Len(x) : a[n] = x[n])
          /\ \A n \in 1..Len(y) : a[Len(x) + n] = y[n]
      BY <2>1, Joined
    <3> HIDE DEF a
    <3> QED
      BY <2>1, <3>1
  <2> HIDE DEF a
  <2>4. b \in Seq(Nat) /\ Len(b) = 4 /\ b[1] = h /\ b[2] = p /\ b[3] = q /\ b[3 + 1] = z
    <3>1. /\ b \in Seq(Nat) /\ Len(b) = Len(a) + Len(w)
          /\ (\A n \in 1..Len(a) : b[n] = a[n])
          /\ \A n \in 1..Len(w) : b[Len(a) + n] = w[n]
      BY <2>1, <2>3, Joined
    <3> HIDE DEF b
    <3> QED
      BY <2>1, <2>3, <3>1
  <2> HIDE DEF b
  <2>5. Len(b) = Len(c) /\ \A n \in 1..Len(b) : b[n] = c[n]
    BY <2>2, <2>4
  <2>6. b = c
    BY <2>2, <2>4, <2>5, SeqEqual
  <2> QED
    BY <2>6 DEF a, b, c, x, y, w
<1> QED
  BY <1>3, <1>4 DEF p, q

\* A key names one identity, and from_key_bytes gives it back.
LEMMA KeyOfOne ==
  ASSUME NEW i, IsId(i), NEW j, IsId(j)
  PROVE  /\ KeyBytes(i) \in Row /\ Len(KeyBytes(i)) = 4
         /\ FromKeyBytes(KeyBytes(i)) = i
         /\ KeyBytes(i) = KeyBytes(j) => i = j
<1>1. ASSUME NEW k, IsId(k)
      PROVE  KeyBytes(k) \in Row /\ Len(KeyBytes(k)) = 4 /\ FromKeyBytes(KeyBytes(k)) = k
  <2>1. PICK h \in Nat, u \in Nat, z \in Nat : k = <<h, u, z>>
    BY <1>1 DEF IsId
  <2> DEFINE p == u % 2
             q == u \div 2
  <2>2. p \in Nat /\ q \in Nat /\ p + 2 * q = u
    OBVIOUS
  <2>3. KeyBytes(k) = <<h, p, q, z>>
    BY <2>1, KeyUnits
  <2> HIDE DEF p, q
  <2>4. FromKeyBytes(KeyBytes(k)) = <<h, p + 2 * q, z>>
    BY <2>3 DEF FromKeyBytes
  <2>5. FromKeyBytes(KeyBytes(k)) = k
    BY <2>1, <2>2, <2>4
  <2>6. KeyBytes(k) \in Seq(Nat) /\ Len(KeyBytes(k)) = 4
    BY <2>2, <2>3
  <2> QED
    BY <2>5, <2>6 DEF Row
<1> QED
  BY <1>1

\* The units of a key and its tag.
LEMMA AppendIsSeq ==
  ASSUME NEW s \in Seq(Nat), NEW e \in Nat
  PROVE  /\ Append(s, e) \in Seq(Nat) /\ Len(Append(s, e)) = Len(s) + 1
         /\ \A n \in 1..Len(s) : Append(s, e)[n] = s[n]
  OBVIOUS

\* The keys of entries, and the prefix that names their asset.
LEMMA EntryKey ==
  ASSUME NEW i, IsId(i), NEW j, IsId(j), NEW tag \in Nat
  PROVE  /\ CacheKey(i, tag) \in Row /\ Len(CacheKey(i, tag)) = 5
         /\ SubSeq(CacheKey(i, tag), 1, 4) = KeyBytes(i)
         /\ HasPrefix(CacheKey(i, tag), KeyBytes(j)) <=> i = j
         /\ \A n \in 1..4 : CacheKey(i, tag)[n] = KeyBytes(i)[n]
<1> DEFINE key == KeyBytes(i)
           k == CacheKey(i, tag)
<1>1. key \in Seq(Nat) /\ Len(key) = 4 /\ Len(KeyBytes(j)) = 4
  BY KeyOfOne DEF Row
<1>2. k = Append(key, tag)
  BY DEF CacheKey
<1> HIDE DEF key, k
<1>3. k \in Row /\ Len(k) = 5 /\ \A n \in 1..4 : k[n] = key[n]
  <2>1. /\ k \in Seq(Nat) /\ Len(k) = Len(key) + 1
        /\ \A n \in 1..Len(key) : k[n] = key[n]
    BY <1>1, <1>2, AppendIsSeq
  <2>2. Len(k) = 5 /\ \A n \in 1..4 : k[n] = key[n]
    BY <1>1, <2>1
  <2> QED
    BY <2>1, <2>2 DEF Row
<1>4. SubSeq(k, 1, 4) = key
  <2>1. 0 + 1 = 1 /\ 0 + Len(key) = 4 /\ 0 + Len(key) <= Len(k) /\ key \in Row
    BY <1>1, <1>3 DEF Row
  <2>2. \A n \in 1..Len(key) : k[0 + n] = key[n]
    BY <1>1, <1>3
  <2>3. SubSeq(k, 0 + 1, 0 + Len(key)) = key
    BY <1>3, <2>1, <2>2, Cut
  <2> QED
    BY <2>1, <2>3
<1>5. HasPrefix(k, KeyBytes(j)) <=> key = KeyBytes(j)
  BY <1>1, <1>4 DEF HasPrefix
<1>6. key = KeyBytes(j) <=> i = j
  BY KeyOfOne DEF key
<1> QED
  BY <1>3, <1>4, <1>5, <1>6 DEF k, key

\* An identity names one path and version.
LEMMA IdOfOne ==
  ASSUME NEW p \in Path, NEW u \in Nat, NEW q \in Path, NEW v \in Nat
  PROVE  IsId(IdOf(p, u)) /\ (IdOf(p, u) = IdOf(q, v) => p = q /\ u = v)
<1>1. Hash[p] \in Nat /\ Hash[q] \in Nat /\ (Hash[p] = Hash[q] => p = q)
  BY ImportAssumption
<1>2. SizeOf(u) \in Nat
  BY DEF SizeOf
<1>3. IsId(IdOf(p, u))
  BY <1>1, <1>2 DEF IsId, IdOf
<1>4. IdOf(p, u) = IdOf(q, v) => Hash[p] = Hash[q] /\ u = v
  BY DEF IdOf
<1> QED
  BY <1>1, <1>3, <1>4

\* So a key names a path and a version of it.
LEMMA KeyOfId ==
  ASSUME NEW p \in Path, NEW u \in Nat, NEW q \in Path, NEW v \in Nat,
         KeyBytes(IdOf(p, u)) = KeyBytes(IdOf(q, v))
  PROVE  p = q /\ u = v
  BY IdOfOne, KeyOfOne

-----------------------------------------------------------------------------
(* The inductive invariant. *)

\* What was read as version v is right of version u of the file at q, if that
\* is still the file's.
Current(q, u, v) == fs[Real[q]] = u => v = u

Reached == 1..(changes + 1)

Infos(i, p, v) == {VideoRow(i, p, v), AudioRow(i, p, v), ImageRow(i, p)}

FilesInv ==
  /\ changes \in 0..MaxChange
  /\ fs \in [{Real[q] : q \in Path} -> 0..(changes + 1)]

Registered == pc \in {"submit", "wait", "stop", "list"}

CommandInv ==
  /\ pc \in {"idle", "canonical", "probe", "register", "submit", "wait", "stop", "list"}
  /\ pc # "idle" => path \in Path /\ stat \in Reached
  /\ pc \notin {"idle", "canonical"} => \E q \in {path, Real[path]} : id = IdOf(q, stat)
  /\ pc \notin {"idle", "canonical", "probe"} =>
       \E v \in Reached : Current(path, stat, v) /\ info \in Infos(id, path, v)
  /\ Registered => KeyBytes(id) \in DOMAIN assets

JobsInv ==
  /\ jobs \in Seq({"Pending", "Running", "Recorded", "Completed", "Failed"})
  /\ source \in Seq(Nat) /\ Len(source) = Len(jobs)
  /\ ~Registered => jobs = <<>>
  /\ Registered => Len(jobs) <= Len(Tags)
  /\ \A j \in 1..Len(jobs) : jobs[j] # "Pending" => Current(path, stat, source[j])

\* A row holds what was read of some version of the file of its owner, under
\* the identity of one.
IsAsset(key) ==
  \E q \in Path, u \in Reached, v \in Reached :
    /\ key = KeyBytes(IdOf(q, u)) /\ owner[key] \in Path
    /\ q \in {owner[key], Real[owner[key]]} /\ Current(q, u, v)
    /\ \E i \in Infos(IdOf(q, u), owner[key], v) : assets[key] = EncodeInfo(i)

AssetsInv == DOMAIN owner = DOMAIN assets /\ \A key \in DOMAIN assets : IsAsset(key)

IsEntry(k) ==
  \E q \in Path, u \in Reached, tag \in 0..3 :
    /\ k = CacheKey(IdOf(q, u), tag) /\ KeyBytes(IdOf(q, u)) \in DOMAIN assets
    /\ Current(q, u, entries[k])

EntriesInv == \A k \in DOMAIN entries : IsEntry(k)

\* An entry that is due is one of an asset that is doomed.
SweepInv ==
  /\ target = {} \/ \E p \in Path : target = {q \in Path : Real[q] = Real[p]}
  /\ \A i \in doomed : /\ \E q \in Path, u \in Reached : i = IdOf(q, u)
                       /\ KeyBytes(i) \in DOMAIN assets /\ owner[KeyBytes(i)] \in target
  /\ \A k \in due : k \in DOMAIN entries /\ \E i \in doomed : HasPrefix(k, KeyBytes(i))

ImportInv == FilesInv /\ CommandInv /\ JobsInv /\ AssetsInv /\ EntriesInv /\ SweepInv

\* What a step may leave alone, and each does.
FilesStay == UNCHANGED <<fs, changes>>
RowsStay == UNCHANGED <<assets, owner>>
EntriesStay == UNCHANGED entries
DueStays == UNCHANGED due
EventStays == UNCHANGED <<doomed, target>>
CommandStays == UNCHANGED <<pc, path, stat, id, info>>
JobsStay == UNCHANGED <<jobs, source>>

\* Which actions change what.
LEMMA Frames ==
  ASSUME [Next]_vars
  PROVE  /\ FilesStay \/ \E p \in DOMAIN fs : ChangeFile(p)
         /\ RowsStay \/ Register
         /\ EntriesStay \/ (\E j \in 1..Len(jobs) : JobRecords(j)) \/ Drop
         /\ \/ DueStays \/ (\E j \in 1..Len(jobs) : JobRecords(j))
            \/ (\E p \in Path : LookUp(p)) \/ Drop
         /\ EventStays \/ (\E p \in Path : LookUp(p)) \/ Drop
         /\ CommandStays \/ Command
         /\ JobsStay \/ Command \/ Worker
<1> USE DEF FilesStay, RowsStay, EntriesStay, DueStays, EventStays, CommandStays, JobsStay,
            fileVars, cmdVars, jobVars, waitVars, eventVars
<1>1. ASSUME NEW p \in DOMAIN fs, ChangeFile(p)
      PROVE  RowsStay /\ EntriesStay /\ DueStays /\ EventStays /\ CommandStays /\ JobsStay
  BY <1>1 DEF ChangeFile
<1>2. ASSUME NEW p \in Path, Stat(p)
      PROVE  FilesStay /\ EntriesStay /\ DueStays /\ EventStays /\ RowsStay
  BY <1>2 DEF Stat
<1>3. ASSUME Identify
      PROVE  FilesStay /\ EntriesStay /\ DueStays /\ EventStays /\ RowsStay
  BY <1>3 DEF Identify
<1>4. ASSUME Probe
      PROVE  FilesStay /\ EntriesStay /\ DueStays /\ EventStays /\ RowsStay
  BY <1>4 DEF Probe, Exit
<1>5. ASSUME Register
      PROVE  FilesStay /\ EntriesStay /\ DueStays /\ EventStays
  BY <1>5 DEF Register
<1>6. ASSUME Submit
      PROVE  FilesStay /\ EntriesStay /\ DueStays /\ EventStays /\ RowsStay
  BY <1>6 DEF Submit
<1>7. ASSUME Wait
      PROVE  FilesStay /\ EntriesStay /\ DueStays /\ EventStays /\ RowsStay
  BY <1>7 DEF Wait, NextJob
<1>8. ASSUME TimeOut
      PROVE  FilesStay /\ EntriesStay /\ DueStays /\ EventStays /\ RowsStay
  BY <1>8 DEF TimeOut, NextJob
<1>9. ASSUME WaitedForAll
      PROVE  FilesStay /\ EntriesStay /\ DueStays /\ EventStays /\ RowsStay
  BY <1>9 DEF WaitedForAll
<1>10. ASSUME Stop
      PROVE  FilesStay /\ EntriesStay /\ DueStays /\ EventStays /\ RowsStay
  BY <1>10 DEF Stop, Exit
<1>11. ASSUME List
      PROVE  FilesStay /\ EntriesStay /\ DueStays /\ EventStays /\ RowsStay
  BY <1>11 DEF List, Exit
<1>12. ASSUME NEW j \in 1..Len(jobs), JobBegins(j)
      PROVE  FilesStay /\ RowsStay /\ EventStays /\ CommandStays /\ EntriesStay /\ DueStays
  BY <1>12 DEF JobBegins, UpdateState
<1>13. ASSUME NEW j \in 1..Len(jobs), JobReports(j)
      PROVE  FilesStay /\ RowsStay /\ EventStays /\ CommandStays /\ EntriesStay /\ DueStays
  BY <1>13 DEF JobReports
<1>14. ASSUME NEW j \in 1..Len(jobs), JobRecords(j)
      PROVE  FilesStay /\ RowsStay /\ EventStays /\ CommandStays
  BY <1>14 DEF JobRecords
<1>15. ASSUME NEW j \in 1..Len(jobs), JobCompletes(j)
      PROVE  FilesStay /\ RowsStay /\ EventStays /\ CommandStays /\ EntriesStay /\ DueStays
  BY <1>15 DEF JobCompletes, UpdateState
<1>16. ASSUME NEW j \in 1..Len(jobs), JobFails(j)
      PROVE  FilesStay /\ RowsStay /\ EventStays /\ CommandStays /\ EntriesStay /\ DueStays
  BY <1>16 DEF JobFails, UpdateState
<1>17. ASSUME Signal
      PROVE  /\ FilesStay /\ RowsStay /\ EntriesStay /\ DueStays /\ EventStays
             /\ CommandStays /\ JobsStay
  BY <1>17 DEF Signal
<1>18. ASSUME NEW p \in Path, LookUp(p)
      PROVE  FilesStay /\ RowsStay /\ EntriesStay /\ CommandStays /\ JobsStay
  BY <1>18 DEF LookUp
<1>19. ASSUME Drop
      PROVE  FilesStay /\ RowsStay /\ CommandStays /\ JobsStay
  BY <1>19 DEF Drop
<1>20. ASSUME UNCHANGED vars
      PROVE  /\ FilesStay /\ RowsStay /\ EntriesStay /\ DueStays /\ EventStays
             /\ CommandStays /\ JobsStay
  BY <1>20 DEF vars
<1> HIDE DEF FilesStay, RowsStay, EntriesStay, DueStays, EventStays, CommandStays, JobsStay
<1> QED
  BY <1>1, <1>2, <1>3, <1>4, <1>5, <1>6, <1>7, <1>8, <1>9, <1>10,
     <1>11, <1>12, <1>13, <1>14, <1>15, <1>16, <1>17, <1>18, <1>19, <1>20
  DEF Next, Command, Worker

\* Versions grow: what is right of a version stays right.
LEMMA FilesStep ==
  ASSUME FilesInv, [Next]_vars
  PROVE  /\ FilesInv' /\ Reached \subseteq Reached'
         /\ \A q \in Path, u \in Reached : \A v : Current(q, u, v) => Current(q, u, v)'
<1>1. CASE FilesStay
  BY <1>1 DEF FilesStay, FilesInv, Reached, Current
<1>2. ASSUME NEW p \in DOMAIN fs, ChangeFile(p)
      PROVE  /\ FilesInv' /\ Reached \subseteq Reached'
             /\ \A q \in Path, u \in Reached : \A v : Current(q, u, v) => Current(q, u, v)'
  <2>1. /\ changes \in Nat /\ MaxChange \in Nat /\ changes < MaxChange /\ changes' = changes + 1
        /\ \E w \in {0, changes + 2} : fs' = [fs EXCEPT ![p] = w]
    BY <1>2, ImportAssumption DEF ChangeFile, FilesInv
  <2>2. FilesInv' /\ Reached \subseteq Reached'
    BY <2>1 DEF FilesInv, Reached
  <2>3. ASSUME NEW q \in Path, NEW u \in Reached, NEW v, Current(q, u, v)
        PROVE  Current(q, u, v)'
    <3>1. Real[q] \in DOMAIN fs /\ u # 0 /\ u # changes + 2
      BY <2>1 DEF FilesInv, Reached
    <3>2. fs'[Real[q]] = fs[Real[q]] \/ fs'[Real[q]] \in {0, changes + 2}
      BY <2>1, <3>1 DEF FilesInv
    <3> QED
      BY <2>3, <3>1, <3>2 DEF Current
  <2> QED
    BY <2>2, <2>3
<1> QED
  BY <1>1, <1>2, Frames

\* A file has two jobs or none.
LEMMA TagsAre ==
  ASSUME NEW m
  PROVE  /\ Len(TagsOf(m)) \in {0, 2}
         /\ \A j \in 1..Len(TagsOf(m)) : TagsOf(m)[j] \in 0..3
<1>1. CASE m = "video"
  BY <1>1 DEF TagsOf
<1>2. CASE m = "audio"
  BY <1>2 DEF TagsOf
<1>3. CASE m # "video" /\ m # "audio"
  <2>1. TagsOf(m) = <<>>
    BY <1>3 DEF TagsOf
  <2> QED
    BY <2>1
<1> QED
  BY <1>1, <1>2, <1>3

\* What the decoders may have told of version v of a file.
LEMMA InfosAre ==
  ASSUME NEW x, NEW p \in Path, NEW v \in Nat, NEW i \in Infos(x, p, v)
  PROVE  /\ i.id = x /\ i.path = TextOf[p] /\ (IsId(x) => IsInfo(i))
         /\ Len(TagsOf(i.media)) \in {0, 2}
         /\ \A j \in 1..Len(TagsOf(i.media)) : TagsOf(i.media)[j] \in 0..3
         /\ i.media # "image" => ProbedVersion(i) = v
<1>1. i.id = x /\ i.path = TextOf[p] /\ i.media \in {"video", "audio", "image"}
  BY DEF Infos, VideoRow, AudioRow, ImageRow
<1>2. IsId(x) => IsInfo(i)
  BY DEF IsId, IsInfo, Infos
<1>3. /\ Len(TagsOf(i.media)) \in {0, 2}
      /\ \A j \in 1..Len(TagsOf(i.media)) : TagsOf(i.media)[j] \in 0..3
  BY TagsAre
<1>4. i.media # "image" => ProbedVersion(i) = v
  <2>1. CASE i = VideoRow(x, p, v)
    <3>1. /\ i.media = "video"
          /\ i.rest = VideoRest(v)
      BY <2>1 DEF VideoRow, VideoRest
    <3> QED
      BY <3>1, RestOfVideo DEF ProbedVersion
  <2>2. CASE i = AudioRow(x, p, v)
    <3>1. /\ i.media = "audio"
          /\ i.rest = AudioRest(v)
      BY <2>2 DEF AudioRow, AudioRest
    <3> QED
      BY <3>1, RestOfAudio DEF ProbedVersion
  <2>3. CASE i = ImageRow(x, p)
    BY <2>3 DEF ImageRow
  <2> QED
    BY <2>1, <2>2, <2>3 DEF Infos
<1> QED
  BY <1>1, <1>2, <1>3, <1>4

\* Versions are numbers.
LEMMA ReachedNat ==
  ASSUME FilesInv
  PROVE  Reached \subseteq Nat
  BY DEF FilesInv, Reached

\* The identity that the command has taken.
LEMMA IdentityIs ==
  ASSUME FilesInv, CommandInv, pc \notin {"idle", "canonical", "probe"}
  PROVE  /\ path \in Path /\ stat \in Reached /\ stat \in Nat
         /\ \E q \in {path, Real[path]} : q \in Path /\ Real[q] = Real[path] /\ id = IdOf(q, stat)
         /\ IsId(id) /\ info.id = id /\ IsInfo(info) /\ info.path = TextOf[path]
         /\ \E v \in Reached : Current(path, stat, v) /\ info \in Infos(id, path, v)
<1>1. path \in Path /\ stat \in Reached /\ stat \in Nat
  BY ReachedNat DEF CommandInv
<1>2. PICK q \in {path, Real[path]} : id = IdOf(q, stat)
  BY DEF CommandInv
<1>3. q \in Path /\ Real[q] = Real[path]
  BY <1>1, <1>2, ImportAssumption
<1>4. IsId(id)
  BY <1>1, <1>2, <1>3, IdOfOne
<1>5. PICK v \in Reached : Current(path, stat, v) /\ info \in Infos(id, path, v)
  BY DEF CommandInv
<1>6. v \in Nat
  BY ReachedNat
<1>7. info.id = id /\ IsInfo(info) /\ info.path = TextOf[path]
  BY <1>1, <1>4, <1>5, <1>6, InfosAre
<1> QED
  BY <1>1, <1>2, <1>3, <1>4, <1>5, <1>7

\* Only upsert_asset writes rows, and an asset keeps its file.
LEMMA AssetsStep ==
  ASSUME ImportInv, [Next]_vars
  PROVE  /\ AssetsInv' /\ DOMAIN assets \subseteq DOMAIN assets'
         /\ \A key \in DOMAIN assets : Real[owner'[key]] = Real[owner[key]]
<1>1. /\ FilesInv /\ CommandInv /\ AssetsInv
  BY DEF ImportInv
<1>2. /\ FilesInv' /\ Reached \subseteq Reached'
      /\ \A q \in Path, u \in Reached : \A v : Current(q, u, v) => Current(q, u, v)'
  BY <1>1, FilesStep
<1>3. ASSUME NEW key \in DOMAIN assets, owner'[key] = owner[key], assets'[key] = assets[key]
      PROVE  IsAsset(key)'
  <2>1. PICK q \in Path, u \in Reached, v \in Reached :
          /\ key = KeyBytes(IdOf(q, u)) /\ owner[key] \in Path
          /\ q \in {owner[key], Real[owner[key]]} /\ Current(q, u, v)
          /\ \E i \in Infos(IdOf(q, u), owner[key], v) : assets[key] = EncodeInfo(i)
    BY <1>1 DEF AssetsInv, IsAsset
  <2>2. u \in Reached' /\ v \in Reached' /\ Current(q, u, v)'
    BY <1>2, <2>1
  <2> QED
    BY <1>3, <2>1, <2>2 DEF IsAsset
<1>4. CASE RowsStay
  <2>1. assets' = assets /\ owner' = owner
    BY <1>4 DEF RowsStay
  <2> QED
    BY <1>1, <1>3, <2>1 DEF AssetsInv
<1>5. CASE Register
  <2>1. PICK u \in Reached : u = stat
    BY <1>1, <1>5, IdentityIs DEF Register
  <2>2. PICK new : new = KeyBytes(info.id)
    OBVIOUS
  <2>3. /\ pc = "register" /\ assets' = With(assets, new, EncodeInfo(info))
        /\ owner' = With(owner, new, path)
    BY <1>5, <2>2 DEF Register
  <2>4. /\ path \in Path /\ info.id = id
        /\ \E q \in {path, Real[path]} : q \in Path /\ Real[q] = Real[path] /\ id = IdOf(q, u)
        /\ \E v \in Reached : Current(path, u, v) /\ info \in Infos(id, path, v)
    BY <1>1, <2>1, <2>3, IdentityIs
  <2>5. /\ DOMAIN assets' = DOMAIN assets \cup {new} /\ DOMAIN owner' = DOMAIN owner \cup {new}
        /\ assets'[new] = EncodeInfo(info) /\ owner'[new] = path
        /\ \A key \in DOMAIN assets \ {new} : assets'[key] = assets[key]
        /\ \A key \in DOMAIN owner \ {new} : owner'[key] = owner[key]
    BY <2>3 DEF With
  <2>6. IsAsset(new)'
    <3>1. PICK q \in Path : q \in {path, Real[path]} /\ Real[q] = Real[path] /\ id = IdOf(q, u)
      BY <2>4
    <3>2. PICK v \in Reached : Current(path, u, v) /\ info \in Infos(id, path, v)
      BY <2>4
    <3>3. Current(q, u, v)
      BY <3>1, <3>2 DEF Current
    <3>4. Current(q, u, v)' /\ u \in Reached' /\ v \in Reached'
      BY <1>2, <2>4, <3>1, <3>2, <3>3
    <3>5. new = KeyBytes(IdOf(q, u))
      BY <2>2, <2>4, <3>1
    <3>6. info \in Infos(IdOf(q, u), path, v)
      BY <3>1, <3>2
    <3> QED
      BY <2>4, <2>5, <3>1, <3>4, <3>5, <3>6 DEF IsAsset
  <2>7. AssetsInv'
    BY <1>1, <1>3, <2>5, <2>6 DEF AssetsInv
  <2>8. ASSUME NEW key \in DOMAIN assets
        PROVE  Real[owner'[key]] = Real[owner[key]]
    <3>1. CASE key = new
      <4>1. PICK q \in Path, w \in Reached : key = KeyBytes(IdOf(q, w)) /\ owner[key] \in Path
                                            /\ q \in {owner[key], Real[owner[key]]}
        BY <1>1 DEF AssetsInv, IsAsset
      <4>2. PICK p \in Path : Real[p] = Real[path] /\ id = IdOf(p, u)
        BY <2>4
      <4>3. KeyBytes(IdOf(q, w)) = KeyBytes(IdOf(p, u))
        BY <2>2, <2>4, <3>1, <4>1, <4>2
      <4>4. u \in Nat /\ w \in Nat
        BY <1>1, ReachedNat
      <4>5. p = q
        BY <4>3, <4>4, KeyOfId
      <4>6. Real[q] = Real[owner[key]]
        BY <4>1, ImportAssumption
      <4> QED
        BY <2>5, <3>1, <4>2, <4>5, <4>6
    <3>2. CASE key # new
      BY <1>1, <2>5, <3>2 DEF AssetsInv
    <3> QED
      BY <3>1, <3>2
  <2> QED
    BY <2>5, <2>7, <2>8
<1> QED
  BY <1>4, <1>5, Frames

\* What the command holds is of the version that it has seen.
LEMMA CommandStep ==
  ASSUME ImportInv, [Next]_vars
  PROVE  CommandInv'
<1>1. FilesInv /\ CommandInv /\ JobsInv
  BY DEF ImportInv
<1>2. /\ FilesInv' /\ Reached \subseteq Reached'
      /\ \A q \in Path, u \in Reached : \A v : Current(q, u, v) => Current(q, u, v)'
  BY <1>1, FilesStep
<1>3. DOMAIN assets \subseteq DOMAIN assets'
  BY AssetsStep
\* Whoever has taken an identity and keeps the argument keeps it.
<1>4. ASSUME pc # "idle", path' = path, stat' = stat
      PROVE  path' \in Path /\ stat' \in Reached'
  BY <1>1, <1>2, <1>4 DEF CommandInv
<1>5. ASSUME pc \notin {"idle", "canonical"}, path' = path, stat' = stat, id' = id
      PROVE  \E q \in {path', Real[path']} : id' = IdOf(q, stat')
  BY <1>1, <1>5 DEF CommandInv
<1>6. ASSUME pc \notin {"idle", "canonical", "probe"}, path' = path, stat' = stat, id' = id,
             info' = info
      PROVE  \E v \in Reached' : Current(path, stat, v)' /\ info' \in Infos(id, path, v)'
  <2>1. PICK v \in Reached : Current(path, stat, v) /\ info \in Infos(id, path, v)
    BY <1>1, <1>6 DEF CommandInv
  <2>2. PICK p \in Path, u \in Reached : p = path /\ u = stat
    BY <1>1, <1>6 DEF CommandInv
  <2>3. Current(p, u, v)
    BY <2>1, <2>2
  <2>4. Current(p, u, v)' /\ v \in Reached'
    BY <1>2, <2>3
  <2>5. Current(path, stat, v)'
    BY <1>6, <2>2, <2>4
  <2> QED
    BY <1>6, <2>1, <2>4, <2>5 DEF Infos
<1>7. CASE CommandStays
  <2>1. pc' = pc /\ path' = path /\ stat' = stat /\ id' = id /\ info' = info
    BY <1>7 DEF CommandStays
  <2> QED
    BY <1>1, <1>3, <1>4, <1>5, <1>6, <2>1 DEF CommandInv, Registered
<1>8. ASSUME NEW p \in Path, Stat(p)
      PROVE  CommandInv'
  <2>1. /\ pc' = "canonical" /\ path' = p /\ stat' = fs[Real[p]] /\ fs[Real[p]] # 0
        /\ changes' = changes
    BY <1>8 DEF Stat, At, fileVars
  <2>2. stat' \in Reached'
    BY <1>1, <2>1 DEF FilesInv, Reached
  <2> QED
    BY <2>1, <2>2 DEF CommandInv, Registered
<1>9. CASE Identify
  <2>1. /\ pc = "canonical" /\ pc' = "probe" /\ path' = path /\ stat' = stat
        /\ \E q \in {path, Real[path]} : id' = IdOf(q, stat)
    BY <1>9 DEF Identify, Canonical
  <2> QED
    BY <1>4, <2>1 DEF CommandInv, Registered
<1>10. ASSUME Exit
       PROVE  CommandInv'
  BY <1>10 DEF Exit, CommandInv, Registered
<1>11. CASE Probe
  <2>1. CASE Exit
    BY <1>10, <2>1
  <2>2. CASE ~Exit
    <3>1. /\ pc = "probe" /\ pc' = "register" /\ path' = path /\ stat' = stat /\ id' = id
          /\ fs' = fs /\ changes' = changes /\ info' \in Probed
      BY <1>11, <2>2 DEF Probe, fileVars
    <3>2. path \in Path /\ stat \in Reached
      BY <1>1, <3>1 DEF CommandInv
    <3>3. \E v \in Reached : Current(path, stat, v) /\ info' \in Infos(id, path, v)
      <4>1. fs[Real[path]] \in 0..(changes + 1)
        BY <1>1, <3>2 DEF FilesInv
      <4>2. CASE fs[Real[path]] # 0
        <5>1. info' \in Infos(id, path, fs[Real[path]])
          BY <3>1, <4>2 DEF Probed, At, Infos
        <5>2. fs[Real[path]] \in Reached
          BY <1>1, <4>1, <4>2 DEF Reached, FilesInv
        <5> QED
          BY <5>1, <5>2 DEF Current
      <4>3. CASE fs[Real[path]] = 0
        <5>1. info' = ImageRow(id, path)
          BY <3>1, <4>3 DEF Probed, At
        <5> QED
          BY <3>2, <5>1 DEF Current, Infos
      <4> QED
        BY <4>2, <4>3
    <3>4. \E v \in Reached' : Current(path, stat, v)' /\ info' \in Infos(id, path, v)'
      BY <3>1, <3>3 DEF Current, Reached, Infos
    <3> QED
      BY <1>4, <1>5, <3>1, <3>4 DEF CommandInv, Registered
  <2> QED
    BY <2>1, <2>2
<1>12. ASSUME pc \notin {"idle", "canonical", "probe"}, path' = path, stat' = stat, id' = id,
              info' = info, pc' \in {"submit", "wait", "stop", "list"},
              KeyBytes(id) \in DOMAIN assets'
       PROVE  CommandInv'
  BY <1>4, <1>5, <1>6, <1>12 DEF CommandInv, Registered
<1>13. CASE Register
  <2>1. info.id = id
    BY <1>1, <1>13, IdentityIs DEF Register
  <2>2. KeyBytes(id) \in DOMAIN assets'
    BY <1>13, <2>1 DEF Register, With
  <2> QED
    BY <1>12, <1>13, <2>2 DEF Register
<1>14. ASSUME Registered, path' = path, stat' = stat, id' = id, info' = info, Registered'
       PROVE  CommandInv'
  <2>1. KeyBytes(id) \in DOMAIN assets'
    BY <1>1, <1>3, <1>14 DEF CommandInv
  <2> QED
    BY <1>12, <1>14, <2>1 DEF Registered
<1>15. CASE Submit
  BY <1>14, <1>15 DEF Submit, Registered
<1>16. CASE Wait \/ TimeOut
  BY <1>7, <1>16 DEF Wait, TimeOut, cmdVars, CommandStays
<1>17. CASE WaitedForAll
  BY <1>14, <1>17 DEF WaitedForAll, Registered
<1>18. CASE Stop
  <2>1. CASE Exit
    BY <1>10, <2>1
  <2>2. CASE ~Exit
    BY <1>14, <1>18, <2>2 DEF Stop, Registered
  <2> QED
    BY <2>1, <2>2
<1>19. CASE List
  BY <1>10, <1>19 DEF List
<1> QED
  BY <1>7, <1>8, <1>9, <1>11, <1>13, <1>15, <1>16, <1>17, <1>18, <1>19, Frames DEF Command

State == {"Pending", "Running", "Recorded", "Completed", "Failed"}

\* A job opens the file at the path of the command, as it then is.
LEMMA JobsStep ==
  ASSUME ImportInv, [Next]_vars
  PROVE  JobsInv'
<1>1. FilesInv /\ CommandInv /\ JobsInv
  BY DEF ImportInv
<1>2. /\ FilesInv' /\ Reached \subseteq Reached'
      /\ \A q \in Path, u \in Reached : \A v : Current(q, u, v) => Current(q, u, v)'
  BY <1>1, FilesStep
<1>3. jobs \in Seq(State) /\ source \in Seq(Nat) /\ Len(source) = Len(jobs) /\ Len(jobs) \in Nat
  BY <1>1 DEF JobsInv, State
<1>4. ASSUME jobs' = <<>>, source' = <<>>
      PROVE  JobsInv'
  <2>1. Len(Tags') \in {0, 2}
    BY TagsAre DEF Tags
  <2>2. jobs' \in Seq(State) /\ source' \in Seq(Nat) /\ Len(jobs') = 0 /\ Len(source') = 0
    BY <1>4
  <2>3. Len(jobs') <= Len(Tags') /\ 1..Len(jobs') = {}
    BY <2>1, <2>2
  <2> QED
    BY <1>4, <2>2, <2>3 DEF JobsInv, State
<1>5. ASSUME ~Registered, JobsStay
      PROVE  JobsInv'
  <2>1. jobs = <<>> /\ jobs' = jobs /\ source' = source
    BY <1>1, <1>5 DEF JobsInv, JobsStay
  <2>2. source = <<>>
    BY <1>3, <2>1, EmptySeq
  <2> QED
    BY <1>4, <2>1, <2>2
\* The jobs of the running command, with what it has taken.
<1>6. ASSUME Registered, Registered', path' = path, stat' = stat, info' = info,
             jobs' \in Seq(State), source' \in Seq(Nat), Len(source') = Len(jobs'),
             Len(jobs') <= Len(Tags),
             \A j \in 1..Len(jobs') :
               jobs'[j] # "Pending" => \/ j \in 1..Len(jobs) /\ jobs[j] # "Pending"
                                          /\ source'[j] = source[j]
                                       \/ source'[j] = fs'[Real[path]]
      PROVE  JobsInv'
  <2>1. PICK p \in Path, u \in Reached : p = path /\ u = stat
    BY <1>1, <1>6 DEF CommandInv, Registered
  <2>2. ASSUME NEW j \in 1..Len(jobs'), jobs'[j] # "Pending"
        PROVE  fs'[Real[p]] = u => source'[j] = u
    <3>1. CASE j \in 1..Len(jobs) /\ jobs[j] # "Pending" /\ source'[j] = source[j]
      <4>1. PICK v : v = source[j]
        OBVIOUS
      <4>2. Current(p, u, v)
        BY <1>1, <2>1, <3>1, <4>1 DEF JobsInv
      <4>3. Current(p, u, v)'
        BY <1>2, <2>1, <4>2
      <4> QED
        BY <3>1, <4>1, <4>3 DEF Current
    <3>2. CASE source'[j] = fs'[Real[path]]
      BY <2>1, <3>2 DEF Current
    <3> QED
      BY <1>6, <2>2, <3>1, <3>2
  <2>3. \A j \in 1..Len(jobs') : jobs'[j] # "Pending" => Current(path, stat, source[j])'
    BY <1>6, <2>1, <2>2 DEF Current
  <2>4. Tags' = Tags
    BY <1>6 DEF Tags
  <2> QED
    BY <1>6, <2>3, <2>4 DEF JobsInv, State
<1>7. ASSUME Registered, Registered', path' = path, stat' = stat, info' = info, JobsStay
      PROVE  JobsInv'
  <2>1. jobs' = jobs /\ source' = source /\ Len(jobs) <= Len(Tags)
    BY <1>1, <1>7 DEF JobsStay, JobsInv
  <2> QED
    BY <1>3, <1>6, <1>7, <2>1
<1>8. CASE CommandStays /\ JobsStay
  <2>1. pc' = pc /\ path' = path /\ stat' = stat /\ info' = info
    BY <1>8 DEF CommandStays
  <2> QED
    BY <1>5, <1>7, <1>8, <2>1 DEF Registered
<1>9. CASE (\E p \in Path : Stat(p)) \/ Identify \/ Register
  BY <1>5, <1>9 DEF Stat, Identify, Register, Registered, jobVars, JobsStay
<1>10. CASE Probe
  BY <1>4, <1>5, <1>10 DEF Probe, Exit, Registered, JobsStay
<1>11. CASE Submit
  <2>1. Registered /\ Registered' /\ path' = path /\ stat' = stat /\ info' = info
    BY <1>11 DEF Submit, Registered
  <2>2. CASE Len(jobs) < Len(Tags)
    <3>1. jobs' = Append(jobs, "Pending") /\ source' = Append(source, 0)
      BY <1>11, <2>2 DEF Submit, Track
    <3>2. "Pending" \in State
      BY DEF State
    <3>3. /\ jobs' \in Seq(State) /\ Len(jobs') = Len(jobs) + 1
          /\ \A j \in 1..Len(jobs) : jobs'[j] = jobs[j]
          /\ jobs'[Len(jobs) + 1] = "Pending"
      BY <1>3, <3>1, <3>2, AppendProperties
    <3>4. /\ source' \in Seq(Nat) /\ Len(source') = Len(source) + 1
          /\ \A j \in 1..Len(source) : source'[j] = source[j]
      BY <1>3, <3>1, AppendProperties
    <3>5. Len(Tags) \in Nat
      BY TagsAre DEF Tags
    <3>6. Len(source') = Len(jobs') /\ Len(jobs') <= Len(Tags)
      BY <1>3, <2>2, <3>3, <3>4, <3>5
    <3>7. \A j \in 1..Len(jobs') : jobs'[j] # "Pending" =>
            j \in 1..Len(jobs) /\ jobs[j] # "Pending" /\ source'[j] = source[j]
      BY <1>3, <3>3, <3>4
    <3> QED
      BY <1>6, <2>1, <3>3, <3>4, <3>6, <3>7
  <2>3. CASE ~(Len(jobs) < Len(Tags))
    BY <1>7, <1>11, <2>1, <2>3 DEF Submit, JobsStay
  <2> QED
    BY <2>2, <2>3
<1>12. CASE Wait \/ TimeOut
  BY <1>8, <1>12 DEF Wait, TimeOut, cmdVars, jobVars, CommandStays, JobsStay
<1>13. CASE WaitedForAll
  BY <1>7, <1>13 DEF WaitedForAll, jobVars, JobsStay, Registered
<1>14. CASE Stop
  BY <1>4, <1>7, <1>14 DEF Stop, Exit, jobVars, JobsStay, Registered
<1>15. CASE List
  BY <1>4, <1>15 DEF List, Exit
<1>16. ASSUME NEW j \in 1..Len(jobs),
              JobBegins(j) \/ JobReports(j) \/ JobRecords(j) \/ JobCompletes(j) \/ JobFails(j)
       PROVE  JobsInv'
  <2>1. pc' = pc /\ path' = path /\ stat' = stat /\ info' = info /\ fs' = fs
    BY <1>16 DEF JobBegins, JobReports, JobRecords, JobCompletes, JobFails, cmdVars, fileVars
  <2>2. Registered /\ Registered' /\ Len(jobs) <= Len(Tags)
    <3>1. Registered
      <4>1. Len(jobs) > 0
        BY <1>3
      <4>2. jobs # <<>>
        BY <4>1
      <4> QED
        BY <1>1, <4>2 DEF JobsInv
    <3> QED
      BY <1>1, <2>1, <3>1 DEF Registered, JobsInv
  <2>3. CASE JobReports(j)
    BY <1>7, <2>1, <2>2, <2>3 DEF JobReports, JobsStay
  <2>4. CASE JobBegins(j)
    <3>1. jobs' = [jobs EXCEPT ![j] = "Running"] /\ source' = [source EXCEPT ![j] = fs[Real[path]]]
      BY <2>4 DEF JobBegins, UpdateState, At
    <3>2. fs[Real[path]] \in Nat
      <4>1. path \in Path
        BY <1>1, <2>2 DEF CommandInv, Registered
      <4>2. fs[Real[path]] \in 0..(changes + 1)
        BY <1>1, <4>1 DEF FilesInv
      <4> QED
        BY <1>1, <4>2 DEF FilesInv
    <3>3. /\ jobs' \in Seq(State) /\ Len(jobs') = Len(jobs)
          /\ \A k \in 1..Len(jobs) : jobs'[k] = IF k = j THEN "Running" ELSE jobs[k]
      <4>1. "Running" \in State
        BY DEF State
      <4> QED
        BY <1>3, <3>1, <4>1, ExceptSeq
    <3>4. /\ source' \in Seq(Nat) /\ Len(source') = Len(jobs)
          /\ \A k \in 1..Len(jobs) : source'[k] = IF k = j THEN fs[Real[path]] ELSE source[k]
      BY <1>3, <3>1, <3>2, ExceptSeq
    <3>5. \A k \in 1..Len(jobs') : jobs'[k] # "Pending" =>
            \/ k \in 1..Len(jobs) /\ jobs[k] # "Pending" /\ source'[k] = source[k]
            \/ source'[k] = fs'[Real[path]]
      BY <2>1, <3>3, <3>4
    <3> QED
      BY <1>6, <2>1, <2>2, <3>3, <3>4, <3>5
  <2>5. CASE JobRecords(j) \/ JobCompletes(j) \/ JobFails(j)
    <3>1. PICK s \in State : jobs' = [jobs EXCEPT ![j] = s]
      BY <2>5 DEF JobRecords, JobCompletes, JobFails, UpdateState, State
    <3>2. source' = source /\ jobs[j] # "Pending"
      BY <2>5 DEF JobRecords, JobCompletes, JobFails, EndsOf
    <3>3. /\ jobs' \in Seq(State) /\ Len(jobs') = Len(jobs)
          /\ \A k \in 1..Len(jobs) : jobs'[k] = IF k = j THEN s ELSE jobs[k]
      BY <1>3, <3>1, ExceptSeq
    <3>4. \A k \in 1..Len(jobs') : jobs'[k] # "Pending" =>
            k \in 1..Len(jobs) /\ jobs[k] # "Pending" /\ source'[k] = source[k]
      BY <3>2, <3>3
    <3> QED
      BY <1>3, <1>6, <2>1, <2>2, <3>2, <3>3, <3>4
  <2> QED
    BY <1>16, <2>3, <2>4, <2>5
<1>17. CASE Command
  BY <1>9, <1>10, <1>11, <1>12, <1>13, <1>14, <1>15, <1>17 DEF Command
<1>18. CASE Worker
  BY <1>16, <1>18 DEF Worker
<1> QED
  BY <1>8, <1>17, <1>18, Frames

\* An entry is recorded under the identity of the command.
LEMMA EntriesStep ==
  ASSUME ImportInv, [Next]_vars
  PROVE  EntriesInv'
<1>1. FilesInv /\ CommandInv /\ JobsInv /\ EntriesInv
  BY DEF ImportInv
<1>2. /\ FilesInv' /\ Reached \subseteq Reached'
      /\ \A q \in Path, u \in Reached : \A v : Current(q, u, v) => Current(q, u, v)'
  BY <1>1, FilesStep
<1>3. DOMAIN assets \subseteq DOMAIN assets'
  BY AssetsStep
<1>4. ASSUME NEW k \in DOMAIN entries, entries'[k] = entries[k]
      PROVE  IsEntry(k)'
  <2>1. PICK q \in Path, u \in Reached, tag \in 0..3 :
          /\ k = CacheKey(IdOf(q, u), tag) /\ KeyBytes(IdOf(q, u)) \in DOMAIN assets
          /\ Current(q, u, entries[k])
    BY <1>1 DEF EntriesInv, IsEntry
  <2>2. PICK v : v = entries[k]
    OBVIOUS
  <2>3. Current(q, u, v)' /\ u \in Reached' /\ KeyBytes(IdOf(q, u)) \in DOMAIN assets'
    BY <1>2, <1>3, <2>1, <2>2
  <2>4. Current(q, u, entries[k])'
    BY <1>4, <2>2, <2>3
  <2> QED
    BY <2>1, <2>3, <2>4 DEF IsEntry
<1>5. CASE EntriesStay
  BY <1>4, <1>5 DEF EntriesStay, EntriesInv
<1>6. ASSUME NEW j \in 1..Len(jobs), JobRecords(j)
      PROVE  EntriesInv'
  <2>1. PICK key, v : key = CacheKey(info.id, Tags[j]) /\ v = source[j]
    OBVIOUS
  <2>2. entries' = With(entries, key, v) /\ jobs[j] = "Running" /\ fs' = fs
    BY <1>6, <2>1 DEF JobRecords, fileVars
  <2>3. DOMAIN entries' = DOMAIN entries \cup {key} /\ entries'[key] = v
        /\ \A k \in DOMAIN entries \ {key} : entries'[k] = entries[k]
    BY <2>2 DEF With
  <2>4. Registered /\ j \in 1..Len(Tags)
    <3>1. Len(jobs) \in Nat /\ Len(jobs) > 0 /\ Len(Tags) \in Nat
      BY <1>1, TagsAre DEF JobsInv, Tags
    <3>2. jobs # <<>>
      BY <3>1
    <3> QED
      BY <1>1, <3>1, <3>2 DEF JobsInv
  <2>5. PICK tag \in 0..3 : tag = Tags[j]
    BY <2>4, TagsAre DEF Tags
  <2>6. PICK u \in Reached : u = stat
    BY <1>1, <2>4, IdentityIs DEF Registered
  <2>7. PICK q \in Path : Real[q] = Real[path] /\ info.id = IdOf(q, u)
    BY <1>1, <2>4, <2>6, IdentityIs DEF Registered
  <2>8. info.id = id /\ KeyBytes(id) \in DOMAIN assets
    BY <1>1, <2>4, IdentityIs DEF CommandInv, Registered
  <2>9. Current(q, u, v)
    BY <1>1, <2>1, <2>2, <2>6, <2>7 DEF JobsInv, Current
  <2>10. Current(q, u, v)' /\ u \in Reached' /\ KeyBytes(IdOf(q, u)) \in DOMAIN assets'
    BY <1>2, <1>3, <2>7, <2>8, <2>9
  <2>11. key = CacheKey(IdOf(q, u), tag)
    BY <2>1, <2>5, <2>7
  <2>12. Current(q, u, entries[key])'
    BY <2>3, <2>10
  <2>13. IsEntry(key)'
    BY <2>10, <2>11, <2>12 DEF IsEntry
  <2> QED
    BY <1>4, <2>3, <2>13 DEF EntriesInv
<1>7. CASE Drop
  <2>1. /\ DOMAIN entries' \subseteq DOMAIN entries
        /\ \A k \in DOMAIN entries' : entries'[k] = entries[k]
    BY <1>7 DEF Drop
  <2> QED
    BY <1>4, <2>1 DEF EntriesInv
<1> QED
  BY <1>5, <1>6, <1>7, Frames

\* The row of an asset is read back, with the path of its owner.
LEMMA RowOfAsset ==
  ASSUME FilesInv, AssetsInv, NEW key \in DOMAIN assets
  PROVE  \E q \in Path, u \in Reached, v \in Reached :
           LET i == DecodeInfo(assets[key]).info IN
           /\ DecodeInfo(assets[key]).ok /\ assets[key] = EncodeInfo(i) /\ IsInfo(i)
           /\ i.id = IdOf(q, u) /\ key = KeyBytes(i.id) /\ PathOf(i.path) = owner[key]
           /\ owner[key] \in Path /\ Real[q] = Real[owner[key]] /\ Current(q, u, v)
           /\ i.media # "image" => ProbedVersion(i) = v
<1>1. PICK q \in Path, u \in Reached, v \in Reached :
        /\ key = KeyBytes(IdOf(q, u)) /\ owner[key] \in Path
        /\ q \in {owner[key], Real[owner[key]]} /\ Current(q, u, v)
        /\ \E i \in Infos(IdOf(q, u), owner[key], v) : assets[key] = EncodeInfo(i)
  BY DEF AssetsInv, IsAsset
<1>2. PICK i \in Infos(IdOf(q, u), owner[key], v) : assets[key] = EncodeInfo(i)
  BY <1>1
<1>3. u \in Nat /\ v \in Nat
  BY ReachedNat
<1>4. IsId(IdOf(q, u))
  BY <1>3, IdOfOne
<1>5. i.id = IdOf(q, u) /\ i.path = TextOf[owner[key]] /\ IsInfo(i)
      /\ (i.media # "image" => ProbedVersion(i) = v)
  BY <1>1, <1>3, <1>4, InfosAre
<1>6. DecodeInfo(assets[key]).ok /\ DecodeInfo(assets[key]).info = i
  BY <1>2, <1>5, DecodeEncode
<1>7. PathOf(i.path) = owner[key]
  BY <1>1, <1>5, ImportAssumption DEF PathOf
<1>8. Real[q] = Real[owner[key]]
  BY <1>1, ImportAssumption
<1> QED
  BY <1>1, <1>2, <1>5, <1>6, <1>7, <1>8

\* An entry's key does not come before the key of its asset.
LEMMA NotBefore ==
  ASSUME NEW i, IsId(i), NEW tag \in Nat
  PROVE  ~Less(CacheKey(i, tag), KeyBytes(i))
<1> DEFINE a == CacheKey(i, tag)
           b == KeyBytes(i)
<1>1. Len(a) = 5 /\ Len(b) = 4 /\ b \in Seq(Nat) /\ \A n \in 1..4 : a[n] = b[n]
  <2>1. Len(a) = 5 /\ \A n \in 1..4 : a[n] = b[n]
    BY EntryKey
  <2>2. Len(b) = 4 /\ b \in Row
    BY KeyOfOne
  <2> QED
    BY <2>1, <2>2 DEF Row
<1> HIDE DEF a, b
<1>2. ASSUME NEW n \in 1..Len(b)
      PROVE  ~(n > Len(a)) /\ ~(a[n] < b[n])
  <2>1. n \in 1..4 /\ ~(n > 5)
    BY <1>1
  <2>2. b[n] \in Nat /\ a[n] = b[n]
    BY <1>1, <2>1, ElementOfSeq
  <2> QED
    BY <1>1, <2>1, <2>2
<1>3. ~Less(a, b)
  BY <1>2 DEF Less
<1> QED
  BY <1>3 DEF a, b

\* What an event finds: the assets of its file, and their entries.
LEMMA EventFinds ==
  ASSUME ImportInv, NEW p \in Path
  PROVE  /\ \A i \in AssetsAt(p) : /\ \E q \in Path, u \in Reached : i = IdOf(q, u)
                                   /\ KeyBytes(i) \in DOMAIN assets
                                   /\ Real[owner[KeyBytes(i)]] = Real[p]
                                   /\ owner[KeyBytes(i)] \in Path
         /\ \A k \in EntriesOf(IF At(p) = 0 THEN {p} ELSE {q \in Path : Real[q] = Real[p]}) :
              k \in DOMAIN entries /\ \E i \in AssetsAt(p) : HasPrefix(k, KeyBytes(i))
<1>1. FilesInv /\ AssetsInv /\ EntriesInv
  BY DEF ImportInv
<1> DEFINE X(key) == DecodeInfo(assets[key]).info
<1>2. ASSUME NEW key \in DOMAIN assets
      PROVE  /\ DecodeInfo(assets[key]).ok
             /\ \E q \in Path, u \in Reached : X(key).id = IdOf(q, u)
             /\ key = KeyBytes(X(key).id) /\ PathOf(X(key).path) = owner[key]
             /\ owner[key] \in Path
  BY <1>1, RowOfAsset
<1>3. ListAssets(assets) = {X(key) : key \in DOMAIN assets}
  BY <1>2 DEF ListAssets
<1> HIDE DEF X
<1>4. ASSUME NEW q \in Path
      PROVE  Canonical(q) \in {q, Real[q]} /\ Real[Canonical(q)] = Real[q] /\ Real[q] \in Path
  BY ImportAssumption DEF Canonical
<1>5. ASSUME NEW i \in AssetsAt(p)
      PROVE  /\ \E q \in Path, u \in Reached : i = IdOf(q, u)
             /\ KeyBytes(i) \in DOMAIN assets /\ Real[owner[KeyBytes(i)]] = Real[p]
             /\ owner[KeyBytes(i)] \in Path
  <2>1. PICK key \in DOMAIN assets : i = X(key).id /\ Canonical(PathOf(X(key).path)) = Canonical(p)
    BY <1>3, <1>5 DEF AssetsAt
  <2>2. key = KeyBytes(i) /\ Canonical(owner[key]) = Canonical(p) /\ owner[key] \in Path
    BY <1>2, <2>1
  <2>3. Real[owner[key]] = Real[p]
    BY <1>4, <2>2
  <2> QED
    BY <1>2, <2>1, <2>2, <2>3
<1>6. ASSUME NEW k \in EntriesOf(IF At(p) = 0 THEN {p} ELSE {q \in Path : Real[q] = Real[p]})
      PROVE  k \in DOMAIN entries /\ \E i \in AssetsAt(p) : HasPrefix(k, KeyBytes(i))
  <2>1. k \in DOMAIN entries
        /\ owner[SubSeq(k, 1, Len(k) - 1)] \in
             (IF At(p) = 0 THEN {p} ELSE {q \in Path : Real[q] = Real[p]})
    BY <1>6 DEF EntriesOf
  <2>2. PICK q \in Path, u \in Reached, tag \in 0..3 :
          k = CacheKey(IdOf(q, u), tag) /\ KeyBytes(IdOf(q, u)) \in DOMAIN assets
    BY <1>1, <2>1 DEF EntriesInv, IsEntry
  <2>3. IsId(IdOf(q, u)) /\ tag \in Nat
    BY <1>1, ReachedNat, IdOfOne
  <2>4. PICK key \in DOMAIN assets : key = KeyBytes(IdOf(q, u))
    BY <2>2
  <2>5. Len(k) = 5 /\ SubSeq(k, 1, 4) = key /\ Len(key) = 4
    BY <2>2, <2>3, <2>4, EntryKey, KeyOfOne
  <2>6. SubSeq(k, 1, Len(k) - 1) = key
    BY <2>5
  <2>7. Canonical(owner[key]) = Canonical(p)
    <3>1. CASE At(p) = 0
      BY <2>1, <2>6, <3>1
    <3>2. CASE At(p) # 0
      <4>1. Real[owner[key]] = Real[p]
        BY <2>1, <2>6, <3>2
      <4> QED
        BY <3>2, <4>1 DEF Canonical, At
    <3> QED
      BY <3>1, <3>2
  <2>8. X(key).id \in AssetsAt(p)
    BY <1>2, <1>3, <2>7 DEF AssetsAt
  <2>9. HasPrefix(k, key)
    BY <2>5 DEF HasPrefix
  <2> QED
    BY <1>2, <2>1, <2>8, <2>9
<1> QED
  BY <1>5, <1>6

\* The event drops entries of its assets, and no others.
LEMMA SweepStep ==
  ASSUME ImportInv, [Next]_vars
  PROVE  SweepInv'
<1>1. FilesInv /\ AssetsInv /\ EntriesInv /\ SweepInv
  BY DEF ImportInv
<1>2. Reached \subseteq Reached'
  BY <1>1, FilesStep
<1>3. /\ AssetsInv' /\ DOMAIN assets \subseteq DOMAIN assets'
      /\ \A key \in DOMAIN assets : Real[owner'[key]] = Real[owner[key]]
  BY AssetsStep
\* Owners stay among the paths of the file of the event.
<1>4. ASSUME NEW i \in doomed
      PROVE  /\ \E q \in Path, u \in Reached' : i = IdOf(q, u)
             /\ KeyBytes(i) \in DOMAIN assets' /\ owner'[KeyBytes(i)] \in target
  <2>1. /\ \E q \in Path, u \in Reached : i = IdOf(q, u)
        /\ KeyBytes(i) \in DOMAIN assets /\ owner[KeyBytes(i)] \in target
    BY <1>1 DEF SweepInv
  <2>2. PICK p \in Path : target = {q \in Path : Real[q] = Real[p]}
    BY <1>1, <2>1 DEF SweepInv
  <2>3. PICK key : key = KeyBytes(i)
    OBVIOUS
  <2>4. owner'[key] \in Path
    BY <1>3, <2>1, <2>3 DEF AssetsInv, IsAsset
  <2>5. Real[owner'[key]] = Real[p]
    BY <1>3, <2>1, <2>2, <2>3
  <2> QED
    BY <1>2, <1>3, <2>1, <2>2, <2>3, <2>4, <2>5
<1>5. ASSUME EventStays, due' \subseteq due, DOMAIN entries \subseteq DOMAIN entries'
      PROVE  SweepInv'
  <2>1. doomed' = doomed /\ target' = target
    BY <1>5 DEF EventStays
  <2>2. \A k \in due' : k \in DOMAIN entries' /\ \E i \in doomed' : HasPrefix(k, KeyBytes(i))
    BY <1>1, <1>5, <2>1 DEF SweepInv
  <2>3. target' = {} \/ \E p \in Path : target' = {q \in Path : Real[q] = Real[p]}
    BY <1>1, <2>1 DEF SweepInv
  <2> QED
    BY <1>4, <2>1, <2>2, <2>3 DEF SweepInv
<1>6. ASSUME NEW j \in 1..Len(jobs), JobRecords(j)
      PROVE  SweepInv'
  <2>1. EventStays /\ due' \subseteq due
    BY <1>6 DEF JobRecords, EventStays
  <2>2. DOMAIN entries \subseteq DOMAIN entries'
    BY <1>6 DEF JobRecords, With
  <2> QED
    BY <1>5, <2>1, <2>2
<1>7. ASSUME NEW p \in Path, LookUp(p)
      PROVE  SweepInv'
  <2>1. /\ doomed' = AssetsAt(p) /\ entries' = entries /\ assets' = assets /\ owner' = owner
        /\ target' = IF doomed' = {} THEN {} ELSE {q \in Path : Real[q] = Real[p]}
        /\ due' = EntriesOf(IF At(p) = 0 THEN {p} ELSE {q \in Path : Real[q] = Real[p]})
    BY <1>7 DEF LookUp
  <2>2. \A i \in doomed' : /\ \E q \in Path, u \in Reached' : i = IdOf(q, u)
                           /\ KeyBytes(i) \in DOMAIN assets' /\ owner'[KeyBytes(i)] \in target'
    BY <1>2, <2>1, EventFinds
  <2>3. \A k \in due' : k \in DOMAIN entries' /\ \E i \in doomed' : HasPrefix(k, KeyBytes(i))
    BY <2>1, EventFinds
  <2>4. target' = {} \/ \E r \in Path : target' = {q \in Path : Real[q] = Real[r]}
    BY <2>1
  <2> QED
    BY <2>2, <2>3, <2>4 DEF SweepInv
<1>8. CASE Drop
  <2>1. PICK i \in doomed :
          /\ doomed' = doomed \ {i} /\ due' = due \ Dropped(DOMAIN entries, i)
          /\ DOMAIN entries' = DOMAIN entries \ Dropped(DOMAIN entries, i)
          /\ target' = IF doomed' = {} THEN {} ELSE target
    BY <1>8 DEF Drop
  <2>2. ASSUME NEW k \in due'
        PROVE  k \in DOMAIN entries' /\ \E o \in doomed' : HasPrefix(k, KeyBytes(o))
    <3>1. k \in due /\ k \in DOMAIN entries /\ k \notin Dropped(DOMAIN entries, i)
      BY <1>1, <2>1, <2>2 DEF SweepInv
    <3>2. PICK o \in doomed : HasPrefix(k, KeyBytes(o))
      BY <1>1, <3>1 DEF SweepInv
    <3>3. PICK q \in Path, u \in Reached, tag \in 0..3 : k = CacheKey(IdOf(q, u), tag)
      BY <1>1, <3>1 DEF EntriesInv, IsEntry
    <3>4. IsId(o) /\ IsId(IdOf(q, u)) /\ tag \in Nat
      BY <1>1, ReachedNat, IdOfOne DEF SweepInv
    <3>5. o = IdOf(q, u) /\ ~Less(k, KeyBytes(o))
      BY <3>2, <3>3, <3>4, EntryKey, NotBefore
    <3>6. o # i
      BY <3>1, <3>2, <3>5 DEF Dropped, From
    <3> QED
      BY <2>1, <3>1, <3>2, <3>6
  <2>3. \A o \in doomed' : /\ \E q \in Path, u \in Reached' : o = IdOf(q, u)
                           /\ KeyBytes(o) \in DOMAIN assets' /\ owner'[KeyBytes(o)] \in target'
    BY <1>4, <2>1
  <2>4. target' = {} \/ \E p \in Path : target' = {q \in Path : Real[q] = Real[p]}
    BY <1>1, <2>1 DEF SweepInv
  <2> QED
    BY <2>2, <2>3, <2>4 DEF SweepInv
<1>9. CASE EntriesStay /\ DueStays /\ EventStays
  BY <1>5, <1>9 DEF EntriesStay, DueStays
<1> QED
  BY <1>6, <1>7, <1>8, <1>9, Frames

\* The invariant holds at first,
LEMMA InitInv ==
  ASSUME Init
  PROVE  ImportInv
<1> DEFINE Id1(p) == IdOf(Real[p], 1)
           Made(p) == IF Media[1] = "video" THEN VideoRow(Id1(p), p, 1) ELSE AudioRow(Id1(p), p, 1)
           Of(P, key) == CHOOSE p \in P : KeyBytes(Id1(p)) = key
           KeysOf(p) == {CacheKey(Id1(p), TagsOf(Made(p).media)[n]) : n \in {1, 2}}
<1>1. PICK P \in Prior :
        /\ fs = [r \in {Real[q] : q \in Path} |-> 1] /\ changes = 0
        /\ assets = [key \in {KeyBytes(Id1(p)) : p \in P} |-> EncodeInfo(Made(Of(P, key)))]
        /\ owner = [key \in DOMAIN assets |-> Of(P, key)]
        /\ entries = [k \in UNION {KeysOf(p) : p \in P} |-> 1]
        /\ pc = "idle" /\ path = NoPath /\ stat = 0 /\ id = <<>> /\ info = None
        /\ jobs = <<>> /\ source = <<>> /\ notify = FALSE
        /\ cursor = 1 /\ ended = 0 /\ asleep = FALSE
        /\ doomed = {} /\ imports = 0 /\ events = 0 /\ faults = 0
        /\ target = {} /\ due = {} /\ swept = FALSE
  BY Zenon DEF Init
<1>3. P \subseteq Path
  BY ImportAssumption
<1> HIDE DEF Made
<1>4. Reached = {1}
  BY <1>1 DEF Reached
<1>5. ASSUME NEW q \in Path
      PROVE  Current(q, 1, 1)
  BY DEF Current
<1>6. FilesInv
  BY <1>1, ImportAssumption DEF FilesInv
<1>7. CommandInv
  BY <1>1 DEF CommandInv, Registered
<1>8. JobsInv
  <2>1. jobs \in Seq({"Pending", "Running", "Recorded", "Completed", "Failed"})
        /\ source \in Seq(Nat) /\ Len(jobs) = 0 /\ Len(source) = 0
    BY <1>1
  <2> QED
    BY <1>1, <2>1 DEF JobsInv, Registered
<1>9. AssetsInv
  <2>1. ASSUME NEW key \in DOMAIN assets
        PROVE  IsAsset(key)
    <3>1. PICK p \in P : KeyBytes(Id1(p)) = key
      BY <1>1
    <3>2. Of(P, key) \in P /\ key = KeyBytes(Id1(Of(P, key)))
      BY <3>1
    <3>3. PICK o \in Path : o = Of(P, key)
      BY <1>3, <3>2
    <3>4. owner[key] = o /\ assets[key] = EncodeInfo(Made(o)) /\ key = KeyBytes(IdOf(Real[o], 1))
      BY <1>1, <3>2, <3>3
    <3>5. Made(o) \in Infos(IdOf(Real[o], 1), o, 1)
      BY DEF Made, Infos
    <3>6. Real[o] \in Path /\ Current(Real[o], 1, 1)
      BY <1>5, ImportAssumption
    <3> QED
      BY <1>4, <3>4, <3>5, <3>6 DEF IsAsset
  <2> QED
    BY <1>1, <2>1 DEF AssetsInv
<1>10. EntriesInv
  <2>1. ASSUME NEW k \in DOMAIN entries
        PROVE  IsEntry(k)
    <3>1. PICK p \in P, n \in {1, 2} : k = CacheKey(Id1(p), TagsOf(Made(p).media)[n])
      BY <1>1
    <3>2. Made(p).media \in {"video", "audio"}
      BY DEF Made, VideoRow, AudioRow
    <3>3. TagsOf(Made(p).media) \in {<<0, 3>>, <<1, 2>>}
      BY <3>2 DEF TagsOf
    <3>4. TagsOf(Made(p).media)[n] \in 0..3
      BY <3>3
    <3>5. entries[k] = 1 /\ KeyBytes(IdOf(Real[p], 1)) \in DOMAIN assets
      BY <1>1
    <3>6. Real[p] \in Path /\ Current(Real[p], 1, 1)
      BY <1>3, <1>5, ImportAssumption
    <3> QED
      BY <1>4, <3>1, <3>4, <3>5, <3>6 DEF IsEntry
  <2> QED
    BY <2>1 DEF EntriesInv
<1>11. SweepInv
  BY <1>1 DEF SweepInv
<1> QED
  BY <1>6, <1>7, <1>8, <1>9, <1>10, <1>11 DEF ImportInv

\* and every step keeps it.
LEMMA ImportStep ==
  ASSUME ImportInv, [Next]_vars
  PROVE  ImportInv'
<1>1. FilesInv'
  BY FilesStep DEF ImportInv
<1>2. AssetsInv'
  BY AssetsStep
<1> QED
  BY <1>1, <1>2, CommandStep, JobsStep, EntriesStep, SweepStep DEF ImportInv

\* The invariant that the theorems below rest on: what the command holds, what
\* the jobs have opened, the rows and the entries are right of the version
\* whose identity they are under, and the event's assets are of its file.
THEOREM ImportInvariant == Spec => []ImportInv
<1>1. Init => ImportInv
  BY InitInv
<1>2. ImportInv /\ [Next]_vars => ImportInv'
  BY ImportStep
<1> QED
  BY <1>1, <1>2, PTL DEF Spec
-----------------------------------------------------------------------------
(* What is stored is current, and events drop what they have to. *)

\* An identity names one version, and what is right of a version under it is
\* right of the file while that is the version.
LEMMA CurrentFollows ==
  ASSUME ImportInv
  PROVE  CurrentIsTrue
<1>1. FilesInv /\ AssetsInv /\ EntriesInv
  BY DEF ImportInv
<1> SUFFICES ASSUME NEW p \in DOMAIN fs, fs[p] # 0
             PROVE  LET key == KeyBytes(IdOf(p, fs[p])) IN
                    /\ key \in DOMAIN assets =>
                         LET i == DecodeInfo(assets[key]).info IN
                         i.media # "image" => ProbedVersion(i) = fs[p]
                    /\ \A k \in DOMAIN entries : HasPrefix(k, key) => entries[k] = fs[p]
  BY DEF CurrentIsTrue
<1>2. p \in Path /\ Real[p] = p
  BY <1>1, ImportAssumption DEF FilesInv
<1>3. PICK now \in Nat : now = fs[p]
  <2>1. fs[p] \in 0..(changes + 1)
    BY <1>1 DEF FilesInv
  <2> QED
    BY <1>1, <2>1 DEF FilesInv
<1>4. PICK key : key = KeyBytes(IdOf(p, now))
  OBVIOUS
<1>5. ASSUME key \in DOMAIN assets, DecodeInfo(assets[key]).info.media # "image"
      PROVE  ProbedVersion(DecodeInfo(assets[key]).info) = now
  <2>1. PICK q \in Path, u \in Reached, v \in Reached :
          /\ key = KeyBytes(IdOf(q, u)) /\ Current(q, u, v)
          /\ ProbedVersion(DecodeInfo(assets[key]).info) = v
    BY <1>1, <1>5, RowOfAsset
  <2>2. u \in Nat /\ KeyBytes(IdOf(q, u)) = KeyBytes(IdOf(p, now))
    BY <1>1, <1>4, <2>1, ReachedNat
  <2>3. q = p /\ u = now
    BY <1>2, <2>2, KeyOfId
  <2> QED
    BY <1>2, <1>3, <2>1, <2>3 DEF Current
<1>6. ASSUME NEW k \in DOMAIN entries, HasPrefix(k, key)
      PROVE  entries[k] = now
  <2>1. PICK q \in Path, u \in Reached, tag \in 0..3 :
          k = CacheKey(IdOf(q, u), tag) /\ Current(q, u, entries[k])
    BY <1>1 DEF EntriesInv, IsEntry
  <2>2. IsId(IdOf(q, u)) /\ IsId(IdOf(p, now)) /\ u \in Nat /\ tag \in Nat
    BY <1>1, <1>2, ReachedNat, IdOfOne
  <2>3. IdOf(q, u) = IdOf(p, now)
    BY <1>4, <1>6, <2>1, <2>2, EntryKey
  <2>4. q = p /\ u = now
    BY <1>2, <2>2, <2>3, IdOfOne
  <2> QED
    BY <1>2, <1>3, <2>1, <2>4 DEF Current
<1> QED
  BY <1>3, <1>4, <1>5, <1>6

\* asset_id.rs, main.rs: in every reachable state, what is stored under the
\* identity that a file has now was read from the file as it is now, however
\* the imports, their jobs, the events and the changes of files interleave.
THEOREM StoredIsCurrent == Spec => []CurrentIsTrue
<1>1. ImportInv => CurrentIsTrue
  BY CurrentFollows
<1> QED
  BY <1>1, ImportInvariant, PTL

\* What a step drops is of the file of its event.
LEMMA SweepFollows ==
  ASSUME ImportInv, ImportInv', [Next]_vars
  PROVE  /\ DOMAIN entries \ DOMAIN entries' \subseteq EntriesOf(target)
         /\ doomed' = {} => due' = {}
<1>1. FilesInv /\ EntriesInv /\ SweepInv /\ SweepInv'
  BY DEF ImportInv
<1>2. doomed' = {} => due' = {}
  BY <1>1 DEF SweepInv
<1>3. ASSUME EntriesStay
      PROVE  DOMAIN entries \subseteq DOMAIN entries'
  BY <1>3 DEF EntriesStay
<1>4. ASSUME NEW j \in 1..Len(jobs), JobRecords(j)
      PROVE  DOMAIN entries \subseteq DOMAIN entries'
  BY <1>4 DEF JobRecords, With
<1>5. CASE Drop
  <2>1. PICK i \in doomed : DOMAIN entries' = DOMAIN entries \ Dropped(DOMAIN entries, i)
    BY <1>5 DEF Drop
  <2>2. ASSUME NEW k \in DOMAIN entries, k \notin DOMAIN entries'
        PROVE  k \in EntriesOf(target)
    <3>1. HasPrefix(k, KeyBytes(i))
      BY <2>1, <2>2 DEF Dropped, From
    <3>2. PICK q \in Path, u \in Reached, tag \in 0..3 : k = CacheKey(IdOf(q, u), tag)
      BY <1>1 DEF EntriesInv, IsEntry
    <3>3. IsId(i) /\ owner[KeyBytes(i)] \in target /\ IsId(IdOf(q, u)) /\ tag \in Nat
      BY <1>1, ReachedNat, IdOfOne DEF SweepInv
    <3>4. i = IdOf(q, u) /\ Len(k) = 5 /\ SubSeq(k, 1, 4) = KeyBytes(IdOf(q, u))
      BY <3>1, <3>2, <3>3, EntryKey
    <3>5. SubSeq(k, 1, Len(k) - 1) = KeyBytes(i)
      BY <3>4
    <3> QED
      BY <3>3, <3>5 DEF EntriesOf
  <2> QED
    BY <1>2, <2>2
<1> QED
  BY <1>2, <1>3, <1>4, <1>5, Frames

\* query.rs:40-44: an event drops no entry of a file that is not its own, and
\* when it is through it has dropped each that it had to.
THEOREM SweepIsWhole == Spec => SweepsAllVersions
<1>1. ImportInv /\ ImportInv' /\ [Next]_vars =>
        [/\ DOMAIN entries \ DOMAIN entries' \subseteq EntriesOf(target)
         /\ doomed' = {} => due' = {}]_vars
  BY SweepFollows
<1> QED
  BY <1>1, ImportInvariant, PTL DEF Spec, SweepsAllVersions

-----------------------------------------------------------------------------
(* What the command lists. *)

\* A cache that a job has recorded is among the entries, unless an event has
\* dropped some of them.
MadeInv ==
  ~swept =>
    \A j \in 1..Len(jobs) :
      jobs[j] \in {"Recorded", "Completed"} => CacheKey(info.id, Tags[j]) \in DOMAIN entries

\* It is kept where nothing is lost and no job gets that far,
LEMMA MadeStays ==
  ASSUME MadeInv, swept' = swept, info' = info, DOMAIN entries \subseteq DOMAIN entries',
         \A j \in 1..Len(jobs') : jobs'[j] \in {"Recorded", "Completed"} =>
           j \in 1..Len(jobs) /\ jobs[j] \in {"Recorded", "Completed"}
  PROVE  MadeInv'
BY DEF MadeInv, Tags, CacheKey

\* and where there are no jobs.
LEMMA MadeOfNone ==
  ASSUME jobs' = <<>>
  PROVE  MadeInv'
BY DEF MadeInv

\* The jobs of the tracker take a state at a time.
LEMMA OneState ==
  ASSUME NEW j \in 1..Len(jobs), NEW s, jobs' = [jobs EXCEPT ![j] = s], JobsInv
  PROVE  /\ Len(jobs') = Len(jobs)
         /\ \A n \in 1..Len(jobs) : jobs'[n] = IF n = j THEN s ELSE jobs[n]
<1>1. jobs \in Seq(State) /\ DOMAIN jobs = 1..Len(jobs) /\ Len(jobs) \in Nat
  BY DEF JobsInv, State
<1>2. DOMAIN jobs' = 1..Len(jobs)
  BY <1>1
<1> QED
  BY <1>1, <1>2

\* Every step of the command and of the workers keeps it,
LEMMA MadeStep ==
  ASSUME ImportInv, MadeInv, [Next]_vars
  PROVE  MadeInv'
<1> USE DEF fileVars, cmdVars, jobVars, waitVars, eventVars
<1>1. FilesInv /\ CommandInv /\ JobsInv
  BY DEF ImportInv
<1>2. jobs \in Seq(State) /\ Len(jobs) \in Nat
  BY <1>1 DEF JobsInv, State
<1>3. ASSUME swept' = swept, info' = info, entries' = entries, jobs' = jobs
      PROVE  MadeInv'
  BY <1>3, MadeStays
<1>4. ASSUME pc \in {"idle", "canonical", "probe", "register"}, jobs' = jobs
      PROVE  MadeInv'
  <2>1. jobs = <<>>
    BY <1>1, <1>4 DEF JobsInv, Registered
  <2> QED
    BY <1>4, <2>1, MadeOfNone
<1>5. ASSUME NEW j \in 1..Len(jobs), NEW s, s \notin {"Recorded", "Completed"},
             jobs' = [jobs EXCEPT ![j] = s],
             swept' = swept, info' = info, entries' = entries
      PROVE  MadeInv'
  <2>1. \A n \in 1..Len(jobs') : jobs'[n] \in {"Recorded", "Completed"} =>
          n \in 1..Len(jobs) /\ jobs[n] \in {"Recorded", "Completed"}
    BY <1>1, <1>5, OneState
  <2> QED
    BY <1>5, <2>1, MadeStays
<1>6. ASSUME NEW p \in DOMAIN fs, ChangeFile(p)
      PROVE  MadeInv'
  BY <1>3, <1>6 DEF ChangeFile
<1>7. ASSUME NEW p \in Path, Stat(p)
      PROVE  MadeInv'
  BY <1>4, <1>7 DEF Stat
<1>8. CASE Identify
  BY <1>4, <1>8 DEF Identify
<1>9. CASE Probe
  <2>1. CASE Exit
    BY <2>1, MadeOfNone DEF Exit
  <2>2. CASE jobs' = jobs
    BY <1>4, <1>9, <2>2 DEF Probe
  <2> QED
    BY <1>9, <2>1, <2>2 DEF Probe
<1>10. CASE Register
  BY <1>4, <1>10 DEF Register
<1>11. CASE Submit
  <2>1. swept' = swept /\ info' = info /\ entries' = entries
    BY <1>11 DEF Submit
  <2>2. CASE jobs' = jobs
    BY <1>3, <2>1, <2>2
  <2>3. CASE jobs' = Append(jobs, "Pending")
    <3>1. \A n \in 1..Len(jobs') :
            \/ n \in 1..Len(jobs) /\ jobs'[n] = jobs[n]
            \/ jobs'[n] = "Pending"
      BY <1>2, <2>3
    <3>2. \A n \in 1..Len(jobs') : jobs'[n] \in {"Recorded", "Completed"} =>
            n \in 1..Len(jobs) /\ jobs[n] \in {"Recorded", "Completed"}
      BY <3>1
    <3> QED
      BY <2>1, <3>2, MadeStays
  <2> QED
    BY <1>11, <2>2, <2>3 DEF Submit, Track
<1>12. CASE Wait
  BY <1>3, <1>12 DEF Wait, NextJob
<1>13. CASE TimeOut
  BY <1>3, <1>13 DEF TimeOut, NextJob
<1>14. CASE WaitedForAll
  BY <1>3, <1>14 DEF WaitedForAll
<1>15. CASE Stop
  <2>1. CASE Exit
    BY <2>1, MadeOfNone DEF Exit
  <2>2. CASE ~Exit
    BY <1>3, <1>15, <2>2 DEF Stop
  <2> QED
    BY <2>1, <2>2
<1>16. CASE List
  BY <1>16, MadeOfNone DEF List, Exit
<1>17. ASSUME NEW j \in 1..Len(jobs), JobBegins(j)
       PROVE  MadeInv'
  BY <1>5, <1>17 DEF JobBegins, UpdateState
<1>18. ASSUME NEW j \in 1..Len(jobs), JobReports(j)
       PROVE  MadeInv'
  BY <1>3, <1>18 DEF JobReports
\* the job that records its cache adds the entry before it completes,
<1>19. ASSUME NEW j \in 1..Len(jobs), JobRecords(j)
       PROVE  MadeInv'
  <2>1. /\ jobs' = [jobs EXCEPT ![j] = "Recorded"] /\ swept' = swept /\ info' = info
        /\ DOMAIN entries' = DOMAIN entries \cup {CacheKey(info.id, Tags[j])}
    BY <1>19 DEF JobRecords, With
  <2>2. /\ Len(jobs') = Len(jobs)
        /\ \A n \in 1..Len(jobs) : jobs'[n] = IF n = j THEN "Recorded" ELSE jobs[n]
    BY <1>1, <2>1, OneState
  <2>3. ASSUME ~swept, NEW n \in 1..Len(jobs), jobs'[n] \in {"Recorded", "Completed"}
        PROVE  CacheKey(info.id, Tags[n]) \in DOMAIN entries'
    BY <2>1, <2>2, <2>3 DEF MadeInv
  <2>4. Tags' = Tags
    BY <2>1 DEF Tags
  <2> QED
    BY <2>1, <2>2, <2>3, <2>4 DEF MadeInv
<1>20. ASSUME NEW j \in 1..Len(jobs), JobCompletes(j)
       PROVE  MadeInv'
  <2>1. /\ jobs[j] = "Recorded" /\ jobs' = [jobs EXCEPT ![j] = "Completed"]
        /\ swept' = swept /\ info' = info /\ entries' = entries
    BY <1>20 DEF JobCompletes, EndsOf, UpdateState
  <2>2. \A n \in 1..Len(jobs') : jobs'[n] \in {"Recorded", "Completed"} =>
          n \in 1..Len(jobs) /\ jobs[n] \in {"Recorded", "Completed"}
    BY <1>1, <2>1, OneState
  <2> QED
    BY <2>1, <2>2, MadeStays
<1>21. ASSUME NEW j \in 1..Len(jobs), JobFails(j)
       PROVE  MadeInv'
  BY <1>5, <1>21 DEF JobFails, UpdateState
<1>22. CASE Signal
  BY <1>3, <1>22 DEF Signal
<1>23. ASSUME NEW p \in Path, LookUp(p)
       PROVE  MadeInv'
  BY <1>3, <1>23 DEF LookUp
\* and what drops an entry while there are jobs says so.
<1>24. CASE Drop
  <2>1. PICK i \in doomed :
          /\ DOMAIN entries' = DOMAIN entries \ Dropped(DOMAIN entries, i)
          /\ swept' = (swept \/ (jobs # <<>> /\ Dropped(DOMAIN entries, i) # {}))
          /\ jobs' = jobs /\ info' = info
    BY <1>24 DEF Drop
  <2>2. CASE jobs = <<>>
    BY <2>1, <2>2, MadeOfNone
  <2>3. CASE jobs # <<>> /\ Dropped(DOMAIN entries, i) # {}
    BY <2>1, <2>3 DEF MadeInv
  <2>4. CASE jobs # <<>> /\ Dropped(DOMAIN entries, i) = {}
    <3>1. DOMAIN entries' = DOMAIN entries
      BY <2>1, <2>4
    <3>2. CASE swept
      BY <2>1, <3>2 DEF MadeInv
    <3>3. CASE ~swept
      <4>1. ~swept' => MadeInv'
        BY <2>1, <3>1, <3>3 DEF MadeInv, Tags, CacheKey
      <4> QED
        BY <4>1 DEF MadeInv
    <3> QED
      BY <3>2, <3>3
  <2> QED
    BY <2>2, <2>3, <2>4
<1>25. CASE UNCHANGED vars
  BY <1>3, <1>25 DEF vars
<1> QED
  BY <1>6, <1>7, <1>8, <1>9, <1>10, <1>11, <1>12, <1>13, <1>14, <1>15, <1>16, <1>17, <1>18,
     <1>19, <1>20, <1>21, <1>22, <1>23, <1>24, <1>25
  DEF Next, Command, Worker

\* The first place where two keys differ decides which comes first.
LEMMA FirstDifference ==
  ASSUME NEW a, NEW b, NEW n \in 1..4,
         Len(a) = 5, Len(b) \in {4, 5}, a \in Seq(Nat), b \in Seq(Nat),
         \A m \in 1..(n - 1) : a[m] = b[m], a[n] < b[n]
  PROVE  Less(a, b)
<1>1. n \in 1..Len(b) /\ n - 1 <= Len(a)
  OBVIOUS
<1>2. SubSeq(a, 1, n - 1) = SubSeq(b, 1, n - 1)
  <2>1. /\ n - 1 \in 0..4 /\ SubSeq(a, 1, n - 1) = [m \in 1..(n - 1) |-> a[m]]
        /\ SubSeq(b, 1, n - 1) = [m \in 1..(n - 1) |-> b[m]]
    OBVIOUS
  <2> QED
    BY <2>1
<1> QED
  BY <1>1, <1>2 DEF Less

\* Between the first key of an asset and any other of its keys there is none of
\* another asset, so the scan that stops at the first foreign key has listed them all.
LEMMA ListsOwn ==
  ASSUME NEW keys, NEW i, IsId(i), NEW tag \in Nat, CacheKey(i, tag) \in keys,
         \A k \in keys : k \in Seq(Nat) /\ Len(k) = 5
  PROVE  CacheKey(i, tag) \in Listed(keys, i)
<1> DEFINE p == KeyBytes(i)
           k == CacheKey(i, tag)
<1>1. p \in Seq(Nat) /\ Len(p) = 4
  BY KeyOfOne DEF Row
<1>2. k \in Seq(Nat) /\ Len(k) = 5 /\ \A n \in 1..4 : k[n] = p[n]
  BY EntryKey DEF Row
<1>3. ~Less(k, p)
  BY NotBefore
<1>4. k \in keys
  OBVIOUS
<1>5. Listed(keys, i) =
        {x \in From(keys, p) : \A f \in From(keys, p) : HasPrefix(f, p) \/ Less(x, f)}
  BY DEF Listed
<1> HIDE DEF p, k
<1>6. ASSUME NEW f \in keys, ~Less(f, p), ~HasPrefix(f, p)
      PROVE  Less(k, f)
  <2>1. f \in Seq(Nat) /\ Len(f) = 5
    BY <1>6
  <2>2. ASSUME NEW n \in 1..4
        PROVE  f[n] \in Nat /\ p[n] \in Nat /\ k[n] = p[n]
    <3>1. n \in 1..5
      OBVIOUS
    <3> QED
      BY <1>1, <1>2, <2>1, <3>1, ElementOfSeq
  <2>3. \E n \in 1..4 : f[n] # p[n]
    <3>1. SUFFICES ASSUME \A n \in 1..4 : f[n] = p[n]
                   PROVE  SubSeq(f, 1, 4) = p
      BY <1>1, <1>6 DEF HasPrefix
    <3>2. \A n \in 1..Len(p) : f[0 + n] = p[n]
      BY <1>1, <3>1
    <3>3. 0 \in Nat /\ 0 + Len(p) <= Len(f) /\ 0 + 1 = 1 /\ 0 + Len(p) = 4
      BY <1>1, <2>1
    <3>4. SubSeq(f, 0 + 1, 0 + Len(p)) = p
      BY <1>1, <2>1, <3>2, <3>3, Cut DEF Row
    <3> QED
      BY <3>3, <3>4
  <2>4. PICK n \in 1..4 : f[n] # p[n] /\ \A m \in 1..(n - 1) : f[m] = p[m]
    <3>1. CASE f[1] # p[1]
      BY <3>1
    <3>2. CASE f[1] = p[1] /\ f[2] # p[2]
      BY <3>2
    <3>3. CASE f[1] = p[1] /\ f[2] = p[2] /\ f[3] # p[3]
      BY <3>3
    <3>4. CASE f[1] = p[1] /\ f[2] = p[2] /\ f[3] = p[3] /\ f[4] # p[4]
      BY <3>4
    <3> QED
      BY <2>3, <3>1, <3>2, <3>3, <3>4
  <2>5. ~(f[n] < p[n])
    BY <1>1, <1>6, <2>1, <2>4, FirstDifference
  <2>6. k[n] < f[n] /\ \A m \in 1..(n - 1) : k[m] = f[m]
    <3>1. p[n] < f[n]
      <4>1. f[n] \in Nat /\ p[n] \in Nat
        BY <2>2
      <4> QED
        BY <2>4, <2>5, <4>1
    <3>2. \A m \in 1..(n - 1) : m \in 1..4
      OBVIOUS
    <3> QED
      BY <2>2, <2>4, <3>1, <3>2
  <2> QED
    BY <1>2, <2>1, <2>6, FirstDifference
<1>7. k \in From(keys, p) /\ \A f \in From(keys, p) : HasPrefix(f, p) \/ Less(k, f)
  BY <1>3, <1>4, <1>6 DEF From
<1>8. k \in Listed(keys, i)
  BY <1>5, <1>7
<1> QED
  BY <1>8 DEF k

\* So what a completed job has recorded is in the list.
LEMMA ListFollows ==
  ASSUME ImportInv, MadeInv
  PROVE  ListsWhatCompleted
<1>1. FilesInv /\ CommandInv /\ JobsInv /\ EntriesInv
  BY DEF ImportInv
<1>2. SUFFICES ASSUME pc = "list", ~swept, NEW j \in 1..Len(jobs), jobs[j] = "Completed"
               PROVE  CacheKey(info.id, Tags[j]) \in Listed(DOMAIN entries, info.id)
  BY DEF ListsWhatCompleted
<1>3. CacheKey(info.id, Tags[j]) \in DOMAIN entries
  BY <1>2 DEF MadeInv
<1>4. IsId(info.id)
  BY <1>1, <1>2, IdentityIs
<1>5. Tags[j] \in Nat
  <2>1. Len(Tags) \in {0, 2} /\ \A n \in 1..Len(Tags) : Tags[n] \in 0..3
    BY TagsAre DEF Tags
  <2>2. Len(jobs) <= Len(Tags) /\ Len(jobs) \in Nat
    BY <1>1, <1>2 DEF JobsInv, Registered
  <2> QED
    BY <2>1, <2>2
<1>6. ASSUME NEW k \in DOMAIN entries
      PROVE  k \in Seq(Nat) /\ Len(k) = 5
  <2>1. PICK q \in Path, u \in Reached, tag \in 0..3 : k = CacheKey(IdOf(q, u), tag)
    BY <1>1 DEF EntriesInv, IsEntry
  <2>2. IsId(IdOf(q, u)) /\ tag \in Nat
    BY <1>1, ReachedNat, IdOfOne
  <2> QED
    BY <2>1, <2>2, EntryKey DEF Row
<1> QED
  BY <1>3, <1>4, <1>5, <1>6, ListsOwn

(* main.rs:191-194: the list has the entry of each job that completed.  A job
   records its cache before it completes, nothing but an event takes it away,
   and the scan of the asset's keys does not stop before it. *)
THEOREM ListIsWhole == Spec => []ListsWhatCompleted
<1>1. Init => MadeInv
  BY DEF Init, MadeInv
<1>2. ImportInv /\ MadeInv /\ [Next]_vars => MadeInv'
  BY MadeStep
<1>3. ImportInv /\ MadeInv => ListsWhatCompleted
  BY ListFollows
<1> QED
  BY <1>1, <1>2, <1>3, ImportInvariant, PTL DEF Spec

-----------------------------------------------------------------------------
(* Rows of jobs, and what is read back from every row. *)

\* The units of t are in the row after the first o.
Has(row, o, t) == o + Len(t) <= Len(row) /\ \A k \in 1..Len(t) : row[o + k] = t[k]

\* Parts stay where they are when more is written.
LEMMA HasJoined ==
  ASSUME NEW s \in Row, NEW t \in Row
  PROVE  /\ s \o t \in Row /\ Len(s \o t) = Len(s) + Len(t) /\ Len(s) \in Nat /\ Len(t) \in Nat
         /\ Has(s \o t, Len(s), t)
         /\ \A o \in Nat, x \in Row : Has(s, o, x) => Has(s \o t, o, x)
<1> DEFINE c == s \o t
<1>1. /\ c \in Seq(Nat) /\ Len(c) = Len(s) + Len(t)
      /\ (\A n \in 1..Len(s) : c[n] = s[n])
      /\ \A n \in 1..Len(t) : c[Len(s) + n] = t[n]
  BY Joined DEF Row
<1>2. Len(s) \in Nat /\ Len(t) \in Nat
  BY DEF Row
<1> HIDE DEF c
<1>3. Has(c, Len(s), t)
  BY <1>1, <1>2 DEF Has
<1>4. ASSUME NEW o \in Nat, NEW x \in Row, Has(s, o, x)
      PROVE  Has(c, o, x)
  <2>1. Len(x) \in Nat /\ o + Len(x) <= Len(s)
    BY <1>4 DEF Row, Has
  <2>2. ASSUME NEW k \in 1..Len(x)
        PROVE  c[o + k] = x[k]
    <3>1. o + k \in 1..Len(s)
      BY <1>2, <2>1
    <3> QED
      BY <1>1, <1>4, <3>1 DEF Has
  <2>3. o + Len(x) <= Len(c)
    BY <1>1, <1>2, <2>1
  <2> QED
    BY <2>2, <2>3 DEF Has
<1> QED
  BY <1>1, <1>2, <1>3, <1>4 DEF c, Row

\* Reading a number that is there,
LEMMA HasOne ==
  ASSUME NEW row \in Row, NEW o \in Nat, NEW e \in Nat, Has(row, o, <<e>>)
  PROVE  Peek(Cur(row, o)) = e /\ Take(Cur(row, o), 1) = Cur(row, o + 1)
<1> DEFINE t == <<e>>
<1>1. Len(t) = 1 /\ t[1] = e
  OBVIOUS
<1> HIDE DEF t
<1>2. Has(row, o, t)
  BY DEF t
<1>3. Len(row) \in Nat /\ o + 1 <= Len(row) /\ row[o + 1] = e
  BY <1>1, <1>2 DEF Has, Row
<1>4. o < Len(row)
  BY <1>3
<1> QED
  BY <1>3, <1>4, CurPeek, CurTake

\* and a string.
LEMMA HasStr ==
  ASSUME NEW row \in Row, NEW o \in Nat, NEW t \in Row, Has(row, o, Str(t))
  PROVE  /\ TakeStr(Cur(row, o)) = Cur(row, o + 1 + Len(t))
         /\ Peek(Cur(row, o)) = Len(t)
         /\ SubSeq(row, o + 2, o + 1 + Len(t)) = t
<1>1. Len(t) \in Nat /\ Len(row) \in Nat /\ t \in Seq(Nat)
  BY DEF Row
<1> DEFINE n == Len(t)
           x == <<n>>
           s == x \o t
<1>2. x \in Seq(Nat) /\ Len(x) = 1 /\ x[1] = n
  BY <1>1
<1>3. Has(row, o, s)
  BY DEF Str
<1> HIDE DEF x
<1>4. Len(s) = 1 + n /\ s[1] = n /\ \A k \in 1..n : s[1 + k] = t[k]
  <2>1. /\ Len(s) = Len(x) + Len(t)
        /\ (\A k \in 1..Len(x) : s[k] = x[k])
        /\ \A k \in 1..Len(t) : s[Len(x) + k] = t[k]
    BY <1>1, <1>2, Joined
  <2> HIDE DEF s
  <2> QED
    BY <1>1, <1>2, <2>1
<1> HIDE DEF s
<1>5. o + 1 + n <= Len(row) /\ row[o + 1] = n
  BY <1>1, <1>3, <1>4 DEF Has
<1>6. ASSUME NEW k \in 1..n
      PROVE  row[(o + 1) + k] = t[k]
  <2>1. 1 + k \in 1..Len(s) /\ o + (1 + k) = (o + 1) + k
    BY <1>1, <1>4
  <2> QED
    BY <1>3, <1>4, <2>1 DEF Has
<1>7. n \in Nat
  BY <1>1
<1>8. TakeStr(Cur(row, o)) = Cur(row, o + 1 + n)
  BY <1>5, <1>7, CurStr
<1>9. Peek(Cur(row, o)) = n
  BY <1>1, <1>5, <1>7, CurPeek
<1>10. SubSeq(row, o + 2, o + 1 + n) = t
  <2>1. o + 1 \in Nat /\ (o + 1) + 1 = o + 2 /\ (o + 1) + Len(t) = o + 1 + n
        /\ (o + 1) + Len(t) <= Len(row)
    BY <1>5, <1>7
  <2>2. SubSeq(row, (o + 1) + 1, (o + 1) + Len(t)) = t
    BY <1>6, <2>1, Cut
  <2> QED
    BY <2>1, <2>2
<1> QED
  BY <1>8, <1>9, <1>10

\* A string takes one unit more than its characters.
LEMMA StrIsRow ==
  ASSUME NEW t \in Row
  PROVE  Str(t) \in Row /\ Len(Str(t)) = 1 + Len(t) /\ Len(t) \in Nat
<1>1. Len(t) \in Nat
  BY DEF Row
<1>2. <<Len(t)>> \in Row /\ Len(<<Len(t)>>) = 1
  BY <1>1 DEF Row
<1> QED
  BY <1>1, <1>2, HasJoined DEF Str

JobUnits(row, key, state, kind, progress, payload, updated, tail) ==
  /\ row \in Row /\ Len(row) = 10 + Len(kind) + Len(payload) + Len(tail)
  /\ Has(row, 0, Str(key)) /\ Has(row, 5, <<state>>) /\ Has(row, 6, Str(kind))
  /\ Has(row, 7 + Len(kind), <<progress>>) /\ Has(row, 8 + Len(kind), Str(payload))
  /\ Has(row, 9 + Len(kind) + Len(payload), <<updated>>)
  /\ Has(row, 10 + Len(kind) + Len(payload), tail)

\* Where the parts of a row of a job are.
LEMMA JobRowUnits ==
  ASSUME NEW key \in Row, Len(key) = 4, NEW state \in Nat, NEW kind \in Row,
         NEW progress \in Nat, NEW payload \in Row, NEW updated \in Nat, NEW tail \in Row
  PROVE  JobUnits(Str(key) \o <<state>> \o Str(kind) \o <<progress>> \o Str(payload)
                    \o <<updated>> \o tail,
                  key, state, kind, progress, payload, updated, tail)
<1> DEFINE s1 == Str(key)
           s2 == <<state>>
           s3 == Str(kind)
           s4 == <<progress>>
           s5 == Str(payload)
           s6 == <<updated>>
           r2 == s1 \o s2
           r3 == r2 \o s3
           r4 == r3 \o s4
           r5 == r4 \o s5
           r6 == r5 \o s6
           row == r6 \o tail
           m == Len(kind)
           n == Len(payload)
<1>1. /\ s1 \in Row /\ Len(s1) = 5 /\ s2 \in Row /\ Len(s2) = 1
      /\ s3 \in Row /\ Len(s3) = 1 + m /\ s4 \in Row /\ Len(s4) = 1
      /\ s5 \in Row /\ Len(s5) = 1 + n /\ s6 \in Row /\ Len(s6) = 1
      /\ m \in Nat /\ n \in Nat /\ Len(tail) \in Nat
  <2>1. ASSUME NEW e \in Nat
        PROVE  <<e>> \in Row /\ Len(<<e>>) = 1
    BY DEF Row
  <2>2. ASSUME NEW t \in Row
        PROVE  Str(t) \in Row /\ Len(Str(t)) = 1 + Len(t) /\ Len(t) \in Nat
    BY StrIsRow
  <2>3. s1 \in Row /\ Len(s1) = 1 + Len(key)
    BY <2>2
  <2>4. Len(s1) = 5
    BY <2>3
  <2> QED
    BY <2>1, <2>2, <2>3, <2>4
<1> HIDE DEF s1, s2, s3, s4, s5, s6, m, n
<1>2. 7 + m \in Nat /\ 8 + m \in Nat /\ 9 + m + n \in Nat
  BY <1>1
<1>3. Has(s1, 0, s1)
  BY <1>1 DEF Has
<1>4. r2 \in Row /\ Len(r2) = 6 /\ Has(r2, 0, s1) /\ Has(r2, 5, s2)
  <2>1. /\ r2 \in Row /\ Len(r2) = Len(s1) + Len(s2) /\ Has(r2, Len(s1), s2)
        /\ \A o \in Nat, x \in Row : Has(s1, o, x) => Has(r2, o, x)
    BY <1>1, <1>3, HasJoined
  <2> HIDE DEF r2
  <2> QED
    BY <1>1, <1>2, <1>3, <2>1
<1> HIDE DEF r2
<1>5. r3 \in Row /\ Len(r3) = 7 + m /\ Has(r3, 0, s1) /\ Has(r3, 5, s2) /\ Has(r3, 6, s3)
  <2>1. /\ r3 \in Row /\ Len(r3) = Len(r2) + Len(s3) /\ Has(r3, Len(r2), s3)
        /\ \A o \in Nat, x \in Row : Has(r2, o, x) => Has(r3, o, x)
    BY <1>1, <1>4, HasJoined
  <2> HIDE DEF r3
  <2> QED
    BY <1>1, <1>2, <1>4, <2>1
<1> HIDE DEF r3
<1>6. /\ r4 \in Row /\ Len(r4) = 8 + m /\ Has(r4, 0, s1) /\ Has(r4, 5, s2) /\ Has(r4, 6, s3)
      /\ Has(r4, 7 + m, s4)
  <2>1. /\ r4 \in Row /\ Len(r4) = Len(r3) + Len(s4) /\ Has(r4, Len(r3), s4)
        /\ \A o \in Nat, x \in Row : Has(r3, o, x) => Has(r4, o, x)
    BY <1>1, <1>5, HasJoined
  <2> HIDE DEF r4
  <2> QED
    BY <1>1, <1>2, <1>5, <2>1
<1> HIDE DEF r4
<1>7. /\ r5 \in Row /\ Len(r5) = 9 + m + n /\ Has(r5, 0, s1) /\ Has(r5, 5, s2) /\ Has(r5, 6, s3)
      /\ Has(r5, 7 + m, s4) /\ Has(r5, 8 + m, s5)
  <2>1. /\ r5 \in Row /\ Len(r5) = Len(r4) + Len(s5) /\ Has(r5, Len(r4), s5)
        /\ \A o \in Nat, x \in Row : Has(r4, o, x) => Has(r5, o, x)
    BY <1>1, <1>6, HasJoined
  <2> HIDE DEF r5
  <2> QED
    BY <1>1, <1>2, <1>6, <2>1
<1> HIDE DEF r5
<1>8. /\ r6 \in Row /\ Len(r6) = 10 + m + n /\ Has(r6, 0, s1) /\ Has(r6, 5, s2) /\ Has(r6, 6, s3)
      /\ Has(r6, 7 + m, s4) /\ Has(r6, 8 + m, s5) /\ Has(r6, 9 + m + n, s6)
  <2>1. /\ r6 \in Row /\ Len(r6) = Len(r5) + Len(s6) /\ Has(r6, Len(r5), s6)
        /\ \A o \in Nat, x \in Row : Has(r5, o, x) => Has(r6, o, x)
    BY <1>1, <1>7, HasJoined
  <2> HIDE DEF r6
  <2> QED
    BY <1>1, <1>2, <1>7, <2>1
<1> HIDE DEF r6
<1>9. /\ row \in Row /\ Len(row) = 10 + m + n + Len(tail)
      /\ Has(row, 0, s1) /\ Has(row, 5, s2) /\ Has(row, 6, s3)
      /\ Has(row, 7 + m, s4) /\ Has(row, 8 + m, s5) /\ Has(row, 9 + m + n, s6)
      /\ Has(row, 10 + m + n, tail)
  <2>1. /\ row \in Row /\ Len(row) = Len(r6) + Len(tail) /\ Has(row, Len(r6), tail)
        /\ \A o \in Nat, x \in Row : Has(r6, o, x) => Has(row, o, x)
    BY <1>1, <1>8, HasJoined
  <2> HIDE DEF row
  <2> QED
    BY <1>1, <1>2, <1>8, <2>1
<1> HIDE DEF row
<1>10. JobUnits(row, key, state, kind, progress, payload, updated, tail)
  BY <1>9 DEF JobUnits, s1, s2, s3, s4, s5, s6, m, n
<1> QED
  BY <1>10 DEF row, r6, r5, r4, r3, r2, s1, s2, s3, s4, s5, s6

\* The cursor of decode_job_record from one part of the row to the next.
JobIdEnd(row) == TakeStr(Start(row))
JobKindEnd(row) == TakeStr(Take(JobIdEnd(row), 1))
JobPayloadEnd(row) == TakeStr(Take(JobKindEnd(row), 1))

JobCut(row, m, n, key, state, kind, progress, payload, updated) ==
  /\ Peek(Start(row)) = 4 /\ JobIdEnd(row) = Cur(row, 5) /\ SubSeq(row, 2, 5) = key
  /\ Peek(JobIdEnd(row)) = state
  /\ JobKindEnd(row) = Cur(row, 7 + m) /\ SubSeq(row, 8, 7 + m) = kind
  /\ Peek(JobKindEnd(row)) = progress
  /\ JobPayloadEnd(row) = Cur(row, 9 + m + n) /\ SubSeq(row, 10 + m, 9 + m + n) = payload
  /\ Peek(JobPayloadEnd(row)) = updated
  /\ JobFlag(row) = Cur(row, 10 + m + n)

\* The reader finds them there.
LEMMA JobCursors ==
  ASSUME NEW row, NEW key \in Row, Len(key) = 4, NEW state \in Nat, NEW kind \in Row,
         NEW progress \in Nat, NEW payload \in Row, NEW updated \in Nat, NEW tail \in Row,
         JobUnits(row, key, state, kind, progress, payload, updated, tail)
  PROVE  JobCut(row, Len(kind), Len(payload), key, state, kind, progress, payload, updated)
<1> DEFINE m == Len(kind)
           n == Len(payload)
<1>1. m \in Nat /\ n \in Nat
  BY DEF Row
<1>2. /\ row \in Row
      /\ Has(row, 0, Str(key)) /\ Has(row, 5, <<state>>) /\ Has(row, 6, Str(kind))
      /\ Has(row, 7 + m, <<progress>>) /\ Has(row, 8 + m, Str(payload))
      /\ Has(row, 9 + m + n, <<updated>>)
  BY DEF JobUnits
<1>3. /\ TakeStr(Cur(row, 0)) = Cur(row, 5) /\ Peek(Cur(row, 0)) = 4
      /\ SubSeq(row, 2, 5) = key
  <2>1. /\ TakeStr(Cur(row, 0)) = Cur(row, 0 + 1 + Len(key)) /\ Peek(Cur(row, 0)) = Len(key)
        /\ SubSeq(row, 0 + 2, 0 + 1 + Len(key)) = key
    BY <1>2, HasStr
  <2>2. 0 + 1 + Len(key) = 5 /\ 0 + 2 = 2
    OBVIOUS
  <2> QED
    BY <2>1, <2>2
<1>4. Peek(Cur(row, 5)) = state /\ Take(Cur(row, 5), 1) = Cur(row, 6)
  BY <1>2, HasOne
<1>5. TakeStr(Cur(row, 6)) = Cur(row, 7 + m) /\ SubSeq(row, 8, 7 + m) = kind
  <2>1. TakeStr(Cur(row, 6)) = Cur(row, 6 + 1 + m) /\ SubSeq(row, 6 + 2, 6 + 1 + m) = kind
    BY <1>2, HasStr
  <2>2. 6 + 1 + m = 7 + m /\ 6 + 2 = 8
    BY <1>1
  <2> QED
    BY <2>1, <2>2
<1>6. Peek(Cur(row, 7 + m)) = progress /\ Take(Cur(row, 7 + m), 1) = Cur(row, 8 + m)
  <2>1. 7 + m \in Nat /\ (7 + m) + 1 = 8 + m
    BY <1>1
  <2>2. Peek(Cur(row, 7 + m)) = progress /\ Take(Cur(row, 7 + m), 1) = Cur(row, (7 + m) + 1)
    BY <1>2, <2>1, HasOne
  <2> QED
    BY <2>1, <2>2
<1>7. TakeStr(Cur(row, 8 + m)) = Cur(row, 9 + m + n) /\ SubSeq(row, 10 + m, 9 + m + n) = payload
  <2>1. 8 + m \in Nat /\ (8 + m) + 1 + n = 9 + m + n /\ (8 + m) + 2 = 10 + m
    BY <1>1
  <2>2. /\ TakeStr(Cur(row, 8 + m)) = Cur(row, (8 + m) + 1 + n)
        /\ SubSeq(row, (8 + m) + 2, (8 + m) + 1 + n) = payload
    BY <1>2, <2>1, HasStr
  <2> QED
    BY <2>1, <2>2
<1>8. /\ Peek(Cur(row, 9 + m + n)) = updated
      /\ Take(Cur(row, 9 + m + n), 1) = Cur(row, 10 + m + n)
  <2>1. 9 + m + n \in Nat /\ (9 + m + n) + 1 = 10 + m + n
    BY <1>1
  <2>2. /\ Peek(Cur(row, 9 + m + n)) = updated
        /\ Take(Cur(row, 9 + m + n), 1) = Cur(row, (9 + m + n) + 1)
    BY <1>2, <2>1, HasOne
  <2> QED
    BY <2>1, <2>2
<1> HIDE DEF m, n
<1>9. Start(row) = Cur(row, 0)
  BY DEF Start, Cur
<1>10. JobIdEnd(row) = Cur(row, 5)
  BY <1>3, <1>9 DEF JobIdEnd
<1>11. JobKindEnd(row) = Cur(row, 7 + m)
  BY <1>4, <1>5, <1>10 DEF JobKindEnd
<1>12. JobPayloadEnd(row) = Cur(row, 9 + m + n)
  BY <1>6, <1>7, <1>11 DEF JobPayloadEnd
<1>13. JobFlag(row) = Cur(row, 10 + m + n)
  BY <1>8, <1>12 DEF JobFlag, JobPayloadEnd, JobKindEnd, JobIdEnd
<1>14. JobCut(row, m, n, key, state, kind, progress, payload, updated)
  BY <1>3, <1>4, <1>5, <1>6, <1>7, <1>8, <1>9, <1>10, <1>11, <1>12, <1>13 DEF JobCut
<1> QED
  BY <1>14 DEF m, n

\* A part of a part is in the row.
LEMMA HasWithin ==
  ASSUME NEW row \in Row, NEW o \in Nat, NEW s \in Row, NEW t \in Row, Has(row, o, s \o t)
  PROVE  Has(row, o, s) /\ Has(row, o + Len(s), t)
<1> DEFINE c == s \o t
<1>1. /\ Len(c) = Len(s) + Len(t) /\ Len(s) \in Nat /\ Len(t) \in Nat
      /\ (\A k \in 1..Len(s) : c[k] = s[k])
      /\ \A k \in 1..Len(t) : c[Len(s) + k] = t[k]
  BY Joined DEF Row
<1>2. Has(row, o, c) /\ Len(row) \in Nat
  BY DEF Row
<1> HIDE DEF c
<1>3. Has(row, o, s)
  BY <1>1, <1>2 DEF Has
<1>4. ASSUME NEW k \in 1..Len(t)
      PROVE  row[(o + Len(s)) + k] = t[k]
  <2>1. Len(s) + k \in 1..Len(c) /\ o + (Len(s) + k) = (o + Len(s)) + k
    BY <1>1
  <2> QED
    BY <1>1, <1>2, <2>1 DEF Has
<1>5. (o + Len(s)) + Len(t) <= Len(row)
  BY <1>1, <1>2 DEF Has
<1> QED
  BY <1>3, <1>4, <1>5 DEF Has

ErrorUnits(error) == IF error = <<>> THEN <<0>> ELSE <<1>> \o Str(error)

\* The flag and the text of an error end the row.
LEMMA JobEnds ==
  ASSUME NEW row \in Row, NEW o \in Nat, NEW error \in Row,
         Has(row, o, ErrorUnits(error)), Len(row) = o + Len(ErrorUnits(error)),
         JobFlag(row) = Cur(row, o)
  PROVE  /\ JobEnd(row) = Cur(row, Len(row))
         /\ error = IF Peek(Cur(row, o)) = 1 THEN SubSeq(row, o + 3, Len(row)) ELSE <<>>
<1>1. CASE error = <<>>
  <2>1. ErrorUnits(error) = <<0>> /\ Len(<<0>>) = 1
    BY <1>1 DEF ErrorUnits
  <2>2. Peek(Cur(row, o)) = 0 /\ Take(Cur(row, o), 1) = Cur(row, o + 1)
    BY <2>1, HasOne
  <2>3. Len(row) = o + 1
    BY <2>1
  <2> QED
    BY <1>1, <2>2, <2>3 DEF JobEnd
<1>2. CASE error # <<>>
  <2> DEFINE one == <<1>>
             t == Str(error)
  <2>1. one \in Row /\ Len(one) = 1 /\ t \in Row /\ Len(t) = 1 + Len(error) /\ Len(error) \in Nat
    BY StrIsRow DEF Row
  <2>2. ErrorUnits(error) = one \o t
    BY <1>2 DEF ErrorUnits
  <2>3. Has(row, o, one \o t)
    BY <2>2
  <2>4. Peek(Cur(row, o)) = 1 /\ Take(Cur(row, o), 1) = Cur(row, o + 1) /\ Has(row, o + 1, t)
    <3>1. Has(row, o, one) /\ Has(row, o + Len(one), t)
      <4> HIDE DEF one, t
      <4> QED
        BY <2>1, <2>3, HasWithin
    <3>2. Has(row, o + 1, t)
      BY <2>1, <3>1
    <3> QED
      BY <3>1, <3>2, HasOne
  <2> HIDE DEF one
  <2>5. Len(row) = o + 2 + Len(error)
    <3>1. Len(one \o t) = Len(one) + Len(t)
      BY <2>1, HasJoined
    <3> QED
      BY <2>1, <2>2, <3>1
  <2>6. /\ TakeStr(Cur(row, o + 1)) = Cur(row, (o + 1) + 1 + Len(error))
        /\ SubSeq(row, (o + 1) + 2, (o + 1) + 1 + Len(error)) = error
    BY <2>1, <2>4, HasStr
  <2>7. (o + 1) + 1 + Len(error) = Len(row) /\ (o + 1) + 2 = o + 3
    BY <2>1, <2>5
  <2> QED
    BY <2>4, <2>6, <2>7 DEF JobEnd
<1> QED
  BY <1>1, <1>2

\* The reader stays on its row.
LEMMA JobEndOf ==
  ASSUME NEW row \in Row
  PROVE  IsCursor(JobEnd(row)) /\ JobEnd(row).row = row
<1>1. IsCursor(Start(row)) /\ Start(row).row = row
  BY DEF IsCursor, Start
<1>2. \A d : IsCursor(d) /\ d.row = row =>
        /\ IsCursor(Take(d, 1)) /\ Take(d, 1).row = row
        /\ IsCursor(TakeStr(d)) /\ TakeStr(d).row = row
  BY CursorTake, CursorTakes
<1>3. IsCursor(JobFlag(row)) /\ JobFlag(row).row = row
  BY <1>1, <1>2 DEF JobFlag
<1> QED
  BY <1>2, <1>3 DEF JobEnd

\* decode_job_record.
LEMMA JobDecoded ==
  ASSUME NEW row
  PROVE  DecodeJob(row) =
           IF JobEnd(row).ok /\ Peek(Start(row)) = 4
           THEN [ok |-> TRUE, job |->
                  [id |-> FromKeyBytes(SubSeq(row, 0 + 2, JobIdEnd(row).at)),
                   state |-> Peek(JobIdEnd(row)),
                   kind |-> SubSeq(row, JobIdEnd(row).at + 1 + 2, JobKindEnd(row).at),
                   progress |-> Peek(JobKindEnd(row)),
                   payload |-> SubSeq(row, JobKindEnd(row).at + 1 + 2, JobPayloadEnd(row).at),
                   updated |-> Peek(JobPayloadEnd(row)),
                   error |-> IF Peek(JobFlag(row)) = 1
                             THEN SubSeq(row, JobFlag(row).at + 1 + 2, JobEnd(row).at)
                             ELSE <<>>]]
           ELSE Corrupt
  BY DEF DecodeJob, JobEnd, JobFlag, JobIdEnd, JobKindEnd, JobPayloadEnd

IsJob(job) ==
  /\ job = [id |-> job.id, state |-> job.state, kind |-> job.kind, progress |-> job.progress,
            payload |-> job.payload, updated |-> job.updated, error |-> job.error]
  /\ IsId(job.id) /\ job.state \in Nat /\ job.kind \in Row /\ job.progress \in Nat
  /\ job.payload \in Row /\ job.updated \in Nat /\ job.error \in Row

\* job_table.rs: a record is read back as it was written, and a row that is
\* cut is rejected.
LEMMA JobReadsBack ==
  ASSUME NEW job, IsJob(job)
  PROVE  /\ DecodeJob(EncodeJob(job)) = [ok |-> TRUE, job |-> job]
         /\ \A cut \in Prefixes(EncodeJob(job)) : ~DecodeJob(cut).ok
<1>0. PICK i \in {job.id}, state \in Nat, kind \in Row, progress \in Nat, payload \in Row,
           updated \in Nat, error \in Row :
        /\ IsId(i)
        /\ job = [id |-> i, state |-> state, kind |-> kind, progress |-> progress,
                  payload |-> payload, updated |-> updated, error |-> error]
  BY DEF IsJob
<1> DEFINE key == KeyBytes(i)
           tail == ErrorUnits(error)
           row == EncodeJob(job)
           m == Len(kind)
           n == Len(payload)
           o == 10 + m + n
<1>1. key \in Row /\ Len(key) = 4 /\ FromKeyBytes(key) = i
  BY <1>0, KeyOfOne
<1>2. row = Str(key) \o <<state>> \o Str(kind) \o <<progress>> \o Str(payload)
              \o <<updated>> \o tail
  BY <1>0 DEF EncodeJob, ErrorUnits
<1>3. tail \in Row /\ m \in Nat /\ n \in Nat /\ Len(tail) \in Nat
  <2>1. <<0>> \in Row /\ <<1>> \in Row
    BY DEF Row
  <2>2. tail \in Row
    BY <2>1, StrIsRow, HasJoined DEF ErrorUnits
  <2> HIDE DEF tail
  <2> QED
    BY <2>2 DEF Row
<1> HIDE DEF row, key, tail, m, n
<1>4. JobUnits(row, key, state, kind, progress, payload, updated, tail)
  BY <1>1, <1>2, <1>3, JobRowUnits
<1>5. row \in Row /\ Len(row) = o + Len(tail) /\ Has(row, o, tail)
  BY <1>4 DEF JobUnits, m, n
<1>6. /\ Peek(Start(row)) = 4 /\ JobIdEnd(row) = Cur(row, 5) /\ SubSeq(row, 2, 5) = key
      /\ Peek(JobIdEnd(row)) = state
      /\ JobKindEnd(row) = Cur(row, 7 + m) /\ SubSeq(row, 8, 7 + m) = kind
      /\ Peek(JobKindEnd(row)) = progress
      /\ JobPayloadEnd(row) = Cur(row, 9 + m + n) /\ SubSeq(row, 10 + m, 9 + m + n) = payload
      /\ Peek(JobPayloadEnd(row)) = updated
      /\ JobFlag(row) = Cur(row, o)
  <2>1. JobCut(row, m, n, key, state, kind, progress, payload, updated)
    BY <1>1, <1>3, <1>4, JobCursors DEF m, n
  <2> QED
    BY <2>1 DEF JobCut
<1>7. o \in Nat /\ 5 + 1 + 2 = 8 /\ 0 + 2 = 2 /\ (7 + m) + 1 + 2 = 10 + m /\ o + 1 + 2 = o + 3
  BY <1>3
<1> HIDE DEF o
<1>8. /\ JobEnd(row) = Cur(row, Len(row))
      /\ error = IF Peek(Cur(row, o)) = 1 THEN SubSeq(row, o + 3, Len(row)) ELSE <<>>
  BY <1>5, <1>6, <1>7, JobEnds DEF tail
<1>9. /\ JobIdEnd(row).at = 5 /\ JobKindEnd(row).at = 7 + m /\ JobPayloadEnd(row).at = 9 + m + n
      /\ JobFlag(row).at = o /\ JobEnd(row).at = Len(row) /\ JobEnd(row).ok
  BY <1>6, <1>8 DEF Cur
<1>10. DecodeJob(row) =
         [ok |-> TRUE,
          job |-> [id |-> FromKeyBytes(key), state |-> state, kind |-> kind,
                   progress |-> progress, payload |-> payload, updated |-> updated,
                   error |-> error]]
  BY <1>6, <1>7, <1>8, <1>9, JobDecoded
<1>11. DecodeJob(row) = [ok |-> TRUE, job |-> job]
  BY <1>0, <1>1, <1>10
<1>12. ASSUME NEW cut \in Prefixes(row)
       PROVE  ~DecodeJob(cut).ok
  <2>1. cut \in Row /\ Len(cut) < Len(row) /\ \A k \in 1..Len(cut) : cut[k] = row[k]
    BY <1>5, CutAgrees
  <2>2. Len(cut) \in Nat /\ Len(row) \in Nat
    BY <1>5, <2>1 DEF Row
  <2>3. Follows(JobEnd(row), JobEnd(cut)) /\ JobEnd(cut).row = cut
    BY <1>5, <2>1, <2>2, FollowsJob, JobEndOf
  <2>4. ~JobEnd(cut).ok
    BY <1>9, <2>1, <2>2, <2>3 DEF Follows
  <2> QED
    BY <2>4, JobDecoded DEF Corrupt
<1> QED
  BY <1>11, <1>12 DEF row

\* Every row is of one of the two kinds, so both results apply.
LEMMA RowsFollow ==
  ASSUME ImportInv
  PROVE  RowsReadBack
<1>1. FilesInv /\ CommandInv /\ AssetsInv /\ JobsInv
  BY DEF ImportInv
<1>2. ASSUME NEW key \in DOMAIN assets
      PROVE  /\ DecodeInfo(assets[key]).ok
             /\ KeyBytes(DecodeInfo(assets[key]).info.id) = key
             /\ EncodeInfo(DecodeInfo(assets[key]).info) = assets[key]
             /\ \A cut \in Prefixes(assets[key]) : ~DecodeInfo(cut).ok
             /\ \A x \in 0..2 : ~DecodeInfo(Append(assets[key], x)).ok
  <2>1. PICK i : i = DecodeInfo(assets[key]).info
    OBVIOUS
  <2>2. /\ DecodeInfo(assets[key]).ok /\ assets[key] = EncodeInfo(i) /\ IsInfo(i)
        /\ key = KeyBytes(i.id)
    BY <1>1, <2>1, RowOfAsset
  <2>3. /\ \A cut \in Prefixes(EncodeInfo(i)) : ~DecodeInfo(cut).ok
        /\ \A x \in 0..2 : ~DecodeInfo(Append(EncodeInfo(i), x)).ok
    BY <2>2, InfoStrict
  <2> QED
    BY <2>1, <2>2, <2>3
<1>3. ASSUME NEW j \in 1..Len(jobs)
      PROVE  /\ DecodeJob(EncodeJob(JobRow(j))) = [ok |-> TRUE, job |-> JobRow(j)]
             /\ \A cut \in Prefixes(EncodeJob(JobRow(j))) : ~DecodeJob(cut).ok
  <2>1. Registered /\ Len(jobs) \in Nat /\ Len(jobs) <= Len(Tags)
    <3>1. Len(jobs) \in Nat
      BY <1>1 DEF JobsInv
    <3>2. Registered
      BY <1>1, <3>1 DEF JobsInv
    <3> QED
      BY <1>1, <3>1, <3>2 DEF JobsInv
  <2>2. IsId(info.id) /\ info.path \in Row /\ stat \in Nat
    <3>1. path \in Path /\ stat \in Nat /\ IsId(id) /\ info.id = id /\ info.path = TextOf[path]
      BY <1>1, <2>1, IdentityIs DEF Registered
    <3> QED
      BY <3>1, ImportAssumption DEF Row
  <2>3. Tags[j] \in Nat
    <3>1. /\ Len(Tags) \in {0, 2}
          /\ \A n \in 1..Len(Tags) : Tags[n] \in 0..3
      BY TagsAre DEF Tags
    <3>2. j \in 1..Len(Tags)
      BY <2>1, <3>1
    <3> QED
      BY <3>1, <3>2
  <2>4. <<Tags[j]>> \in Row
    BY <2>3 DEF Row
  <2>5. PICK job : job = JobRow(j)
    OBVIOUS
  <2>6. IsJob(job)
    <3>1. <<0, 1>> \in Row /\ <<>> \in Row
      BY DEF Row
    <3> QED
      BY <2>2, <2>4, <2>5, <3>1 DEF JobRow, IsJob
  <2>7. /\ DecodeJob(EncodeJob(job)) = [ok |-> TRUE, job |-> job]
        /\ \A cut \in Prefixes(EncodeJob(job)) : ~DecodeJob(cut).ok
    BY <2>6, JobReadsBack
  <2> QED
    BY <2>5, <2>7
<1> QED
  BY <1>2, <1>3 DEF RowsReadBack

(* Every row of the database reads back as what was written, and none does
   that is cut short (asset_table.rs:100, job_table.rs:201): lengths and flags
   say where a row ends, so a prefix of one always lacks a unit, and the row of
   an asset must end there, so that one with a unit more is rejected, too. *)
THEOREM RowsAreReadBack == Spec => []RowsReadBack
<1>1. Spec => []ImportInv
  BY ImportInvariant
<1>2. ImportInv => RowsReadBack
  BY RowsFollow
<1> QED
  BY <1>1, <1>2, PTL
=============================================================================
