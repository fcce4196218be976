---------------------------- MODULE LegacyProofs ----------------------------
(***************************************************************************)
(* What the uploads of the first contract leave on the server, and what    *)
(* the customer is shown of them, for any lines, any batch size and any    *)
(* sequence of failures: the inductive invariants of LegacyUploads and of  *)
(* PipelineStatus.                                                         *)
(***************************************************************************)
EXTENDS LegacyUploads, SequenceTheorems, WellFoundedInduction, TLAPS

-----------------------------------------------------------------------------
(* The inductive invariant of the uploads.                                 *)

LinesOf(p) == UNION {Range(p.old[s]) \cup Range(p.lines[s]) : s \in Source}
Lines == UNION {LinesOf(p) : p \in Pasts}
AnyRecord == {Record(s, line) : s \in Source, line \in Lines}
KeysOf(records) == {KeyOf(records[i]) : i \in DOMAIN records}

(* Files: an identity is never given twice.                                *)
FileOK(file) ==
  /\ file = [exists |-> file.exists, id |-> file.id, lines |-> file.lines, half |-> file.half, writes |-> file.writes]
  /\ file.exists \in BOOLEAN /\ file.half \in BOOLEAN /\ file.lines \in Seq(Lines)
  /\ file.id = <<file.id[1], file.id[2]>> /\ file.id[1] \in Nat \ {0} /\ file.id[2] \in Nat
  /\ file.half => file.lines # <<>>
NotBefore(id, other) == other[1] < id[1] \/ (other[1] = id[1] /\ other[2] <= id[2])

(* A cursor of a file: of what is in it now or was before, at the end of a *)
(* line, and not in a file that only seems to have grown; what it has      *)
(* passed was sent, or is of `pending`, the keys still to be sent.         *)
CursorOK(c, file) ==
  /\ c = [id |-> c.id, at |-> c.at] /\ c.at \in Nat /\ c.at = 2 * (c.at \div 2)
  /\ c.id = <<c.id[1], c.id[2]>> /\ c.id[1] \in Nat /\ c.id[2] \in Nat /\ NotBefore(file.id, c.id)
  /\ c.id = file.id => c.at \div 2 <= Complete(file)
  /\ c.id[1] = file.id[1] /\ c.id # file.id => Size(file) < c.at
Covered(c, s, file, pending) ==
  c.id = file.id =>
    \A i \in 1..(c.at \div 2) : file.lines[i].dated =>
      Sent(s, file, i) \/ KeyOf(Record(s, file.lines[i])) \in pending
SentOK(cursors) ==
  \A s \in DOMAIN cursors :
    s \in Source /\ CursorOK(cursors[s], files[s]) /\ Covered(cursors[s], s, files[s], {})

FilesOK ==
  /\ files = [s \in Source |-> files[s]] /\ coming = [s \in Source |-> coming[s]]
  /\ \A s \in Source : FileOK(files[s]) /\ coming[s] \in Seq(Lines)

CommittedOK ==
  /\ committed = [p \in {Collector, Pipeline} |-> committed[p]]
  /\ \/ committed[Collector] \in {NoFile, Damaged}
     \/ /\ committed[Collector] = StateFile(committed[Collector].at, committed[Collector].stat)
        /\ SentOK(committed[Collector].at)

(* The Collector's run, by where it is; what it has read and not sent.     *)
Reading(r) ==
  /\ r = [pc |-> r.pc, todo |-> r.todo, read |-> r.read, records |-> r.records]
  /\ r.records = [s \in Source |-> r.records[s]] /\ \A s \in Source : r.records[s] \in Seq(AnyRecord)
  /\ r.pc = "read" => r.todo \in {Order, Tail(Order)}
  /\ r.pc = "save" => NoneLeft(r.records)
  /\ \A s \in DOMAIN r.read :
       s \in Source /\ CursorOK(r.read[s], files[s]) /\ Covered(r.read[s], s, files[s], KeysOf(r.records[s]))
Bootstrapping(r) ==
  /\ r = [pc |-> r.pc, todo |-> r.todo, read |-> r.read]
  /\ r.todo \in {Order, Tail(Order), <<>>}
  /\ SentOK(r.read)
RunOK ==
  /\ run = [p \in {Collector, Pipeline} |-> run[p]]
  /\ LET r == run[Collector] IN
       /\ r.pc \in {"idle", "post", "read", "send", "save", "bootstrap"}
       /\ r.pc = "idle" => r = Idle
       /\ r.pc = "post" => r = [pc |-> "post", status |-> r.status]
       /\ r.pc \in {"read", "send", "save"} => Reading(r)
       /\ r.pc = "bootstrap" => Bootstrapping(r)
       /\ committed[Collector] = Damaged => r = Idle

PastOK ==
  /\ past = [programs |-> past.programs, old |-> past.old, lines |-> past.lines, halves |-> past.halves,
             trouble |-> past.trouble, bootstrap |-> past.bootstrap, mayChange |-> past.mayChange,
             mayCutOver |-> past.mayCutOver, reporters |-> past.reporters]
  /\ past.programs \subseteq {Collector, Pipeline} /\ past.halves \in BOOLEAN

UInv == PastOK /\ FilesOK /\ CommittedOK /\ RunOK /\ StoredOnce

-----------------------------------------------------------------------------
(* Numbers, files and cursors.                                             *)

(* A set of numbers has a least one. *)
LEMMA LeastNumber ==
  ASSUME NEW T \in SUBSET Nat, T # {}
  PROVE  \E n \in T : \A m \in T : n <= m
<1>1. PICK n \in T : \A m \in T : <<m, n>> \notin OpToRel(<, Nat)
  BY NatLessThanWellFounded, WFMin
<1>2. \A m \in T : m \in Nat /\ ~(m < n)
  BY <1>1 DEF OpToRel
<1> QED BY <1>2

(* The sizes of a file, in lines and in halves of lines. *)
LEMMA FileSizes ==
  ASSUME NEW file, FileOK(file)
  PROVE  /\ Len(file.lines) \in Nat /\ Complete(file) \in Nat /\ Size(file) \in Nat
         /\ Complete(file) <= Len(file.lines)
         /\ Size(file) = 2 * Complete(file) + (IF file.half THEN 1 ELSE 0)
<1>1. Len(file.lines) \in Nat /\ file.half \in BOOLEAN
  BY DEF FileOK
<1>2. file.half => Len(file.lines) > 0
  BY <1>1, EmptySeq DEF FileOK
<1>3. CASE file.half
  <2>1. Complete(file) = Len(file.lines) - 1 /\ Size(file) = 2 * Len(file.lines) - 1
    BY <1>3 DEF Complete, Size
  <2> QED BY <1>1, <1>2, <1>3, <2>1
<1>4. CASE ~file.half
  <2>1. Complete(file) = Len(file.lines) - 0 /\ Size(file) = 2 * Len(file.lines) - 0
    BY <1>4 DEF Complete, Size
  <2> QED BY <1>1, <1>4, <2>1
<1> QED BY <1>3, <1>4

(* A file by its fields. *)
LEMMA FieldsOfFile ==
  ASSUME NEW new, NEW e \in BOOLEAN, NEW id, NEW lines, NEW h \in BOOLEAN, NEW w, new = File(e, id, lines, h, w),
         lines \in Seq(Lines), id = <<id[1], id[2]>>, id[1] \in Nat \ {0}, id[2] \in Nat, h => lines # <<>>
  PROVE  FileOK(new) /\ new.id = id /\ new.lines = lines /\ new.half = h
<1>1. new.exists = e /\ new.id = id /\ new.lines = lines /\ new.half = h /\ new.writes = w
  BY DEF File
<1>2. new = [exists |-> new.exists, id |-> new.id, lines |-> new.lines, half |-> new.half, writes |-> new.writes]
  BY <1>1 DEF File
<1> QED BY <1>1, <1>2 DEF FileOK

(* A file that changes as a file may: another identity, or more lines. *)
Changed(file, new) ==
  /\ FileOK(file) /\ FileOK(new) /\ NotBefore(new.id, file.id)
  /\ new.id = file.id =>
       /\ Complete(file) <= Complete(new)
       /\ \A i \in 1..Complete(file) : new.lines[i] = file.lines[i]

(* A cursor of the file as it was is one of the file as it is, unless the  *)
(* file has outgrown it.                                                   *)
LEMMA CursorStays ==
  ASSUME NEW file, NEW new, Changed(file, new), NEW c, CursorOK(c, file),
         ~(c.id[1] = new.id[1] /\ c.id # new.id /\ Size(new) >= c.at)
  PROVE  /\ CursorOK(c, new) /\ (c.id = new.id => c.id = file.id)
         /\ \A s, pending : Covered(c, s, file, pending) => Covered(c, s, new, pending)
<1> DEFINE a == c.id[1]
           b == c.id[2]
           k == c.at \div 2
<1>1. /\ file.id = <<file.id[1], file.id[2]>> /\ file.id[1] \in Nat /\ file.id[2] \in Nat
      /\ new.id = <<new.id[1], new.id[2]>> /\ new.id[1] \in Nat /\ new.id[2] \in Nat
  BY DEF Changed, FileOK
<1>2. c.id = <<a, b>> /\ a \in Nat /\ b \in Nat /\ c.at \in Nat /\ k \in Nat
  BY DEF CursorOK
<1>3. NotBefore(file.id, c.id) /\ NotBefore(new.id, file.id)
  BY DEF Changed, CursorOK
<1>4. NotBefore(new.id, c.id)
  BY <1>1, <1>2, <1>3 DEF NotBefore
<1>5. c.id = new.id => c.id = file.id
  <2>1. c.id = new.id => a = file.id[1] /\ b = file.id[2]
    BY <1>1, <1>2, <1>3 DEF NotBefore
  <2> QED BY <2>1, <1>1, <1>2
<1>6. Complete(file) \in Nat /\ Complete(new) \in Nat /\ Size(new) \in Nat
  BY FileSizes DEF Changed
<1>7. c.id = new.id => k <= Complete(file) /\ Complete(file) <= Complete(new) /\ k <= Complete(new)
  BY <1>2, <1>5, <1>6 DEF CursorOK, Changed
<1>8. CursorOK(c, new)
  BY <1>2, <1>4, <1>6, <1>7 DEF CursorOK
<1>9. ASSUME NEW s, NEW pending, Covered(c, s, file, pending) PROVE Covered(c, s, new, pending)
  <2>1. ASSUME c.id = new.id, NEW i \in 1..k, new.lines[i].dated
        PROVE  Sent(s, new, i) \/ KeyOf(Record(s, new.lines[i])) \in pending
    <3>1. new.lines[i] = file.lines[i] /\ new.id = file.id
      BY <2>1, <1>2, <1>5, <1>6, <1>7 DEF Changed
    <3>2. Sent(s, file, i) \/ KeyOf(Record(s, file.lines[i])) \in pending
      BY <2>1, <1>5, <1>9, <3>1 DEF Covered
    <3> QED BY <3>1, <3>2 DEF Sent
  <2> QED BY <2>1 DEF Covered
<1> QED BY <1>5, <1>8, <1>9

(* What was sent stays sent. *)
LEMMA SentGrows ==
  ASSUME skipped \subseteq skipped', DOMAIN stored \subseteq DOMAIN stored'
  PROVE  \A c, s, file, pending, rest :
           /\ Covered(c, s, file, pending) /\ pending \subseteq rest \cup DOMAIN stored'
           => Covered(c, s, file, rest)'
BY DEF Covered, Sent

(* The cursors the model keeps from being outgrown. *)
LEMMA WhoseCursors ==
  ASSUME NEW cursors
  PROVE  /\ committed[Collector].kind = "saved" /\ cursors = committed[Collector].at => cursors \in Cursors(Collector)
         /\ run[Collector].pc \in {"read", "send", "save", "bootstrap"} /\ cursors = run[Collector].read
              => cursors \in Cursors(Collector)
BY DEF Cursors

-----------------------------------------------------------------------------
(* The sorter, and whoever changes a file.                                 *)

(* A change of one file keeps the invariant. *)
LEMMA FileMoves ==
  ASSUME UInv, NEW s \in Source, NEW new, files' = [files EXCEPT ![s] = new], Changed(files[s], new), ~Outgrown(s, new),
         coming' = [t \in Source |-> coming'[t]], \A t \in Source : coming'[t] \in Seq(Lines),
         UNCHANGED <<past, committed, run, stored, skipped>>
  PROVE  UInv'
<1>1. files' = [t \in Source |-> files'[t]] /\ \A t \in Source : files'[t] = IF t = s THEN new ELSE files[t]
  BY DEF UInv, FilesOK
<1>2. ASSUME NEW cursors \in Cursors(Collector), NEW t \in DOMAIN cursors, t \in Source, CursorOK(cursors[t], files[t])
      PROVE  /\ CursorOK(cursors[t], files'[t])
             /\ \A pending : Covered(cursors[t], t, files[t], pending) => Covered(cursors[t], t, files'[t], pending)
  <2>1. CASE t = s
    <3>1. ~(cursors[t].id[1] = new.id[1] /\ cursors[t].id # new.id /\ Size(new) >= cursors[t].at)
      BY <1>2, <2>1 DEF Outgrown
    <3> QED BY <1>1, <1>2, <2>1, <3>1, CursorStays
  <2>2. CASE t # s
    BY <1>1, <1>2, <2>2
  <2> QED BY <2>1, <2>2
<1>3. FilesOK'
  BY <1>1 DEF UInv, FilesOK, Changed
<1>4. \A c, t, file, pending : Covered(c, t, file, pending)' = Covered(c, t, file, pending)
  BY DEF Covered, Sent
<1>5. CommittedOK'
  <2>1. CASE committed[Collector] \in {NoFile, Damaged}
    BY <2>1 DEF UInv, CommittedOK
  <2>2. CASE committed[Collector] = StateFile(committed[Collector].at, committed[Collector].stat)
             /\ SentOK(committed[Collector].at)
    <3>1. committed[Collector].at \in Cursors(Collector)
      BY <2>2, WhoseCursors DEF StateFile
    <3>2. SentOK(committed[Collector].at)'
      BY <1>2, <1>4, <2>2, <3>1 DEF SentOK
    <3> QED BY <2>2, <3>2 DEF UInv, CommittedOK
  <2> QED BY <2>1, <2>2 DEF UInv, CommittedOK
<1>6. RunOK'
  <2> DEFINE r == run[Collector]
  <2>1. ASSUME r.pc \in {"read", "send", "save"} PROVE Reading(r)'
    <3>1. Reading(r) /\ r.read \in Cursors(Collector)
      BY <2>1, WhoseCursors DEF UInv, RunOK
    <3>2. \A t \in DOMAIN r.read : t \in Source /\ CursorOK(r.read[t], files'[t])
                                   /\ Covered(r.read[t], t, files'[t], KeysOf(r.records[t]))
      BY <1>2, <3>1 DEF Reading
    <3> QED BY <1>4, <3>1, <3>2 DEF Reading
  <2>2. ASSUME r.pc = "bootstrap" PROVE Bootstrapping(r)'
    <3>1. Bootstrapping(r) /\ r.read \in Cursors(Collector)
      BY <2>2, WhoseCursors DEF UInv, RunOK
    <3>2. \A t \in DOMAIN r.read : t \in Source /\ CursorOK(r.read[t], files'[t])
                                   /\ Covered(r.read[t], t, files'[t], {})
      BY <1>2, <3>1 DEF Bootstrapping, SentOK
    <3> QED BY <1>4, <3>1, <3>2 DEF Bootstrapping, SentOK
  <2> QED BY <2>1, <2>2 DEF UInv, RunOK
<1> QED BY <1>3, <1>5, <1>6 DEF UInv, StoredOnce, PastOK

(* What the lines to come are. *)
LEMMA LinesToCome ==
  ASSUME FilesOK, NEW s \in Source, coming[s] # <<>>
  PROVE  coming[s][1] \in Lines /\ Tail(coming[s]) \in Seq(Lines)
<1>1. coming[s] \in Seq(Lines)
  BY DEF FilesOK
<1> QED BY <1>1

(* A line written, whole or in two parts. *)
LEMMA WriteLineKeeps == ASSUME UInv, NEW s \in Source, WriteLine(s) PROVE UInv'
<1> DEFINE f == files[s]
<1>1. FileOK(f) /\ FilesOK /\ PastOK
  BY DEF UInv, FilesOK
<1>2. /\ Len(f.lines) \in Nat /\ f.lines \in Seq(Lines) /\ ~f.half
      /\ coming[s] # <<>> /\ coming' = [coming EXCEPT ![s] = Tail(@)]
  BY <1>1 DEF FileOK, WriteLine
<1>3. UNCHANGED <<past, committed, run, stored, skipped>>
  BY DEF WriteLine, Change
<1> DEFINE lines == Append(f.lines, coming[s][1])
<1>4. PICK half \in {FALSE, past.halves} : Change(s, TRUE, f.id, lines, half)
  BY DEF WriteLine
<1> DEFINE new   == File(TRUE, f.id, lines, half, f.writes + 1)
<1>6. ~Outgrown(s, new) /\ files' = [files EXCEPT ![s] = new]
  BY <1>4 DEF Change
<1>9. /\ lines \in Seq(Lines) /\ Len(lines) = Len(f.lines) + 1 /\ lines # <<>>
      /\ \A i \in 1..Len(f.lines) : lines[i] = f.lines[i]
  <2>1. coming[s][1] \in Lines
    BY <1>1, <1>2, LinesToCome
  <2>2. lines \in Seq(Lines) /\ Len(lines) = Len(f.lines) + 1 /\ \A i \in 1..Len(f.lines) : lines[i] = f.lines[i]
    BY <1>2, <2>1
  <2> QED BY <1>2, <2>2
<1>10. half \in BOOLEAN
  BY <1>1 DEF PastOK
<1>11. Changed(f, new)
  <2>1. f.id = <<f.id[1], f.id[2]>> /\ f.id[1] \in Nat \ {0} /\ f.id[2] \in Nat
    BY <1>1 DEF FileOK
  <2> HIDE DEF lines
  <2>2. FileOK(new) /\ new.id = f.id /\ new.lines = lines
    BY <1>9, <1>10, <2>1, FieldsOfFile
  <2> HIDE DEF new
  <2>3. NotBefore(new.id, f.id)
    BY <2>1, <2>2 DEF NotBefore
  <2>4. Complete(f) = Len(f.lines) - 0
    BY <1>2 DEF Complete
  <2>5. Complete(new) = Len(lines) - 1 \/ Complete(new) = Len(lines) - 0
    BY <2>2 DEF Complete
  <2>6. Complete(f) <= Complete(new) /\ 1..Complete(f) = 1..Len(f.lines)
    BY <1>2, <1>9, <2>4, <2>5
  <2> QED BY <1>1, <1>9, <2>2, <2>3, <2>6 DEF Changed
<1>12. coming' = [t \in Source |-> coming'[t]] /\ \A t \in Source : coming'[t] \in Seq(Lines)
  <2>1. Tail(coming[s]) \in Seq(Lines)
    BY <1>1, <1>2, LinesToCome
  <2> QED BY <1>1, <1>2, <2>1 DEF FilesOK
<1> QED BY <1>3, <1>6, <1>11, <1>12, FileMoves

(* The second half of a line. *)
LEMMA FinishLineKeeps == ASSUME UInv, NEW s \in Source, FinishLine(s) PROVE UInv'
<1> DEFINE f == files[s]
           new == File(TRUE, f.id, f.lines, FALSE, f.writes + 1)
<1>1. FileOK(f) /\ FilesOK
  BY DEF UInv, FilesOK
<1>2. /\ UNCHANGED <<coming, past, committed, run, stored, skipped>>
      /\ ~Outgrown(s, new) /\ files' = [files EXCEPT ![s] = new]
  BY DEF FinishLine, Change
<1>3. Changed(f, new)
  <2>1. f.id = <<f.id[1], f.id[2]>> /\ f.id[1] \in Nat \ {0} /\ f.id[2] \in Nat /\ f.lines \in Seq(Lines)
    BY <1>1 DEF FileOK
  <2>2. FileOK(new) /\ new.id = f.id /\ new.lines = f.lines /\ ~new.half
    <3>1. new.exists \in BOOLEAN /\ new.id = f.id /\ new.lines = f.lines /\ ~new.half /\ new.half \in BOOLEAN
      BY DEF File
    <3>2. new = [exists |-> new.exists, id |-> new.id, lines |-> new.lines, half |-> new.half, writes |-> new.writes]
      BY DEF File
    <3> QED BY <2>1, <3>1, <3>2 DEF FileOK
  <2> HIDE DEF new
  <2>3. NotBefore(new.id, f.id)
    BY <2>1, <2>2 DEF NotBefore
  <2>4. Complete(new) = Len(f.lines) - 0
    BY <2>2 DEF Complete
  <2>5. Complete(f) <= Complete(new)
    BY <1>1, <2>4, FileSizes
  <2> QED BY <1>1, <2>2, <2>3, <2>5 DEF Changed
<1>4. coming' = [t \in Source |-> coming'[t]] /\ \A t \in Source : coming'[t] \in Seq(Lines)
  BY <1>1, <1>2 DEF FilesOK
<1> QED BY <1>2, <1>3, <1>4, FileMoves

(* Another file at the path, none, or the file without its lines. *)
LEMMA NewFileKeeps == ASSUME UInv, NEW s \in Source, ReplaceFile(s) \/ EmptyFile(s) PROVE UInv'
<1> DEFINE f == files[s]
<1>1. FileOK(f) /\ FilesOK
  BY DEF UInv, FilesOK
<1>2. UNCHANGED <<coming, past, committed, run, stored, skipped>>
  BY DEF ReplaceFile, EmptyFile, Change
<1>3. PICK exists \in BOOLEAN, id \in {<<f.id[1] + 1, 0>>, <<f.id[1], f.id[2] + 1>>} :
        Change(s, exists, id, <<>>, FALSE)
  BY DEF ReplaceFile, EmptyFile
<1> DEFINE new == File(exists, id, <<>>, FALSE, f.writes + 1)
<1>4. ~Outgrown(s, new) /\ files' = [files EXCEPT ![s] = new]
  BY <1>3 DEF Change
<1>5. Changed(f, new)
  <2>1. f.id = <<f.id[1], f.id[2]>> /\ f.id[1] \in Nat \ {0} /\ f.id[2] \in Nat
    BY <1>1 DEF FileOK
  <2>2. id = <<id[1], id[2]>> /\ id[1] \in Nat \ {0} /\ id[2] \in Nat /\ NotBefore(id, f.id) /\ id # f.id
    BY <2>1, <1>3 DEF NotBefore
  <2>3. <<>> \in Seq(Lines)
    BY EmptySeq
  <2>4. FileOK(new) /\ new.id = id
    <3>1. new.exists \in BOOLEAN /\ new.id = id /\ new.lines = <<>> /\ ~new.half /\ new.half \in BOOLEAN
      BY DEF File
    <3>2. new = [exists |-> new.exists, id |-> new.id, lines |-> new.lines, half |-> new.half, writes |-> new.writes]
      BY DEF File
    <3> HIDE DEF new
    <3> QED BY <2>2, <2>3, <3>1, <3>2 DEF FileOK
  <2> HIDE DEF new
  <2> QED BY <1>1, <2>2, <2>4 DEF Changed
<1>6. coming' = [t \in Source |-> coming'[t]] /\ \A t \in Source : coming'[t] \in Seq(Lines)
  BY <1>1, <1>2 DEF FilesOK
<1> QED BY <1>2, <1>4, <1>5, <1>6, FileMoves
-----------------------------------------------------------------------------
(* What is read, and what is sent of it.                                   *)

(* The records of the first k lines are what the definition says of them. *)
LEMMA RecordsUpToUnfolds ==
  ASSUME NEW s, NEW lines, Len(lines) \in Nat
  PROVE  \A k \in 0..Len(lines) :
           RecordsUpTo(s, lines)[k] = IF k = 0 THEN <<>>
                                      ELSE IF lines[k].dated THEN Append(RecordsUpTo(s, lines)[k - 1], Record(s, lines[k]))
                                      ELSE RecordsUpTo(s, lines)[k - 1]
<1> DEFINE Is(f, n) == f = [k \in 0..n |-> IF k = 0 THEN <<>>
                                           ELSE IF lines[k].dated THEN Append(f[k - 1], Record(s, lines[k]))
                                           ELSE f[k - 1]]
           Undefined == {n \in Nat : \A f : ~Is(f, n)}
<1>1. Undefined = {}
  <2>1. SUFFICES ASSUME Undefined # {} PROVE FALSE
    OBVIOUS
  <2>2. PICK n \in Undefined : \A m \in Undefined : n <= m
    <3>1. Undefined \in SUBSET Nat
      OBVIOUS
    <3> HIDE DEF Undefined
    <3> QED BY <2>1, <3>1, LeastNumber
  <2>3. n \in Nat /\ \A f : ~Is(f, n)
    BY <2>2
  <2>4. CASE n = 0
    <3> DEFINE g == [k \in 0..0 |-> <<>>]
    <3>1. \A k \in 0..0 : g[k] = IF k = 0 THEN <<>>
                                 ELSE IF lines[k].dated THEN Append(g[k - 1], Record(s, lines[k])) ELSE g[k - 1]
      OBVIOUS
    <3>2. g = [k \in 0..0 |-> g[k]]
      OBVIOUS
    <3> HIDE DEF g
    <3>3. Is(g, 0)
      BY <3>1, <3>2
    <3> QED BY <3>3, <2>3, <2>4
  <2>5. CASE n > 0
    <3>1. n - 1 \in Nat /\ n - 1 \notin Undefined
      <4>1. n - 1 \in Nat /\ ~(n <= n - 1)
        BY <2>3, <2>5
      <4> HIDE DEF Undefined
      <4> QED BY <2>2, <4>1
    <3>2. PICK f : Is(f, n - 1)
      <4> HIDE DEF Is
      <4> QED BY <3>1
    <3> DEFINE last == IF lines[n].dated THEN Append(f[n - 1], Record(s, lines[n])) ELSE f[n - 1]
               g == [k \in 0..n |-> IF k = n THEN last ELSE f[k]]
    <3>3. ASSUME NEW k \in 0..n
          PROVE  g[k] = IF k = 0 THEN <<>>
                        ELSE IF lines[k].dated THEN Append(g[k - 1], Record(s, lines[k])) ELSE g[k - 1]
      <4>1. CASE k = n
        <5>1. g[k] = last /\ n - 1 \in 0..n /\ n - 1 # n /\ k # 0
          BY <4>1, <2>3, <2>5
        <5>2. g[n - 1] = f[n - 1]
          BY <5>1
        <5> HIDE DEF g
        <5> QED BY <5>1, <5>2, <4>1
      <4>2. CASE k # n
        <5>1. k \in 0..(n - 1) /\ g[k] = f[k] /\ (k # 0 => k - 1 \in 0..n /\ k - 1 # n)
          BY <4>2, <2>3
        <5>2. k # 0 => g[k - 1] = f[k - 1]
          BY <5>1
        <5>3. f[k] = IF k = 0 THEN <<>>
                     ELSE IF lines[k].dated THEN Append(f[k - 1], Record(s, lines[k])) ELSE f[k - 1]
          BY <3>2, <5>1
        <5> HIDE DEF g, last
        <5> QED BY <5>1, <5>2, <5>3
      <4> QED BY <4>1, <4>2
    <3>4. g = [k \in 0..n |-> g[k]]
      OBVIOUS
    <3> HIDE DEF g
    <3>5. Is(g, n)
      BY <3>3, <3>4
    <3> QED BY <3>5, <2>3
  <2> QED BY <2>3, <2>4, <2>5
<1> DEFINE size == Len(lines)
<1>2. PICK f : Is(f, size)
  <2> HIDE DEF Is
  <2> QED BY <1>1
<1>3. Is(CHOOSE h : Is(h, size), size)
  <2> HIDE DEF Is
  <2> QED BY <1>2, Zenon
<1>4. Is(RecordsUpTo(s, lines), size)
  BY <1>3, Zenon DEF RecordsUpTo
<1> HIDE DEF Undefined
<1> QED BY <1>4

(* The records of lines are records, and every line with a usable time is  *)
(* among them.                                                             *)
LEMMA RecordsAre ==
  ASSUME NEW s \in Source, NEW lines \in Seq(Lines)
  PROVE  /\ Records(s, lines) \in Seq(AnyRecord)
         /\ \A i \in 1..Len(lines) : lines[i].dated => KeyOf(Record(s, lines[i])) \in KeysOf(Records(s, lines))
<1> DEFINE f == RecordsUpTo(s, lines)
           P(k) == /\ f[k] \in Seq(AnyRecord)
                   /\ \A i \in 1..k : lines[i].dated => \E j \in 1..Len(f[k]) : f[k][j] = Record(s, lines[i])
           Wrong == {k \in 0..Len(lines) : ~P(k)}
<1>1. Len(lines) \in Nat /\ \A i \in 1..Len(lines) : lines[i] \in Lines /\ Record(s, lines[i]) \in AnyRecord
  BY DEF AnyRecord
<1>2. \A k \in 0..Len(lines) :
        f[k] = IF k = 0 THEN <<>>
               ELSE IF lines[k].dated THEN Append(f[k - 1], Record(s, lines[k])) ELSE f[k - 1]
  BY <1>1, RecordsUpToUnfolds
<1> HIDE DEF f
<1>3. Wrong = {}
  <2>1. SUFFICES ASSUME Wrong # {} PROVE FALSE
    OBVIOUS
  <2>2. PICK n \in Wrong : \A m \in Wrong : n <= m
    <3>1. Wrong \in SUBSET Nat
      BY <1>1
    <3> HIDE DEF Wrong
    <3> QED BY <2>1, <3>1, LeastNumber
  <2>3. n \in 0..Len(lines) /\ ~P(n)
    BY <2>2
  <2>4. CASE n = 0
    <3>1. f[n] = <<>>
      BY <1>2, <2>3, <2>4
    <3>2. f[n] \in Seq(AnyRecord) /\ 1..n = {}
      BY <3>1, <2>4, EmptySeq
    <3> QED BY <2>3, <3>2
  <2>5. CASE n > 0
    <3>1. n - 1 \in 0..Len(lines) /\ n - 1 \notin Wrong /\ n \in 1..Len(lines)
      <4>1. n - 1 \in 0..Len(lines) /\ ~(n <= n - 1) /\ n \in 1..Len(lines)
        BY <1>1, <2>3, <2>5
      <4> HIDE DEF Wrong
      <4> QED BY <2>2, <4>1
    <3>2. P(n - 1)
      BY <3>1
    <3>3. f[n] = IF lines[n].dated THEN Append(f[n - 1], Record(s, lines[n])) ELSE f[n - 1]
      BY <1>2, <2>3, <2>5
    <3> DEFINE old == f[n - 1]
               record == Record(s, lines[n])
    <3>4. old \in Seq(AnyRecord) /\ record \in AnyRecord /\ Len(old) \in Nat
      BY <1>1, <3>1, <3>2
    <3>5. CASE lines[n].dated
      <4>1. f[n] = Append(old, record)
        BY <3>3, <3>5
      <4> HIDE DEF old, record
      <4>2. /\ f[n] \in Seq(AnyRecord) /\ Len(f[n]) = Len(old) + 1 /\ f[n][Len(old) + 1] = record
            /\ \A j \in 1..Len(old) : f[n][j] = old[j]
        BY <3>4, <4>1
      <4>3. ASSUME NEW i \in 1..n, lines[i].dated PROVE \E j \in 1..Len(f[n]) : f[n][j] = Record(s, lines[i])
        <5>1. CASE i = n
          BY <5>1, <4>2, <3>4 DEF record
        <5>2. CASE i # n
          <6>1. i \in 1..(n - 1)
            BY <5>2, <2>3
          <6>2. PICK j \in 1..Len(old) : old[j] = Record(s, lines[i])
            BY <3>2, <4>3, <6>1 DEF old
          <6> QED BY <4>2, <6>2, <3>4
        <5> QED BY <5>1, <5>2
      <4> QED BY <2>3, <4>2, <4>3
    <3>6. CASE ~lines[n].dated
      <4>1. f[n] = old
        BY <3>3, <3>6
      <4>2. \A i \in 1..n : lines[i].dated => i \in 1..(n - 1)
        BY <3>6, <2>3
      <4> QED BY <2>3, <4>1, <4>2, <3>2
    <3> QED BY <3>5, <3>6
  <2> QED BY <2>3, <2>4, <2>5
<1>4. P(Len(lines))
  BY <1>1, <1>3
<1>5. Records(s, lines) = f[Len(lines)]
  BY DEF Records, f
<1> DEFINE records == Records(s, lines)
<1>6. records \in Seq(AnyRecord) /\ DOMAIN records = 1..Len(records)
  BY <1>4, <1>5
<1>7. \A i \in 1..Len(lines) : lines[i].dated => \E j \in DOMAIN records : records[j] = Record(s, lines[i])
  BY <1>4, <1>5, <1>6
<1> HIDE DEF records
<1> QED BY <1>6, <1>7 DEF KeysOf, records
(* A file that is read to its last line that has ended: of the lines up to *)
(* there, those that were read are to be sent, and the others were.        *)
LEMMA ReadToTheEnd ==
  ASSUME NEW s \in Source, NEW file, FileOK(file), NEW c,
         c.id[1] = file.id[1] => CursorOK(c, file) /\ Covered(c, s, file, {})
  PROVE  /\ Records(s, NewLines(file, c)) \in Seq(AnyRecord)
         /\ CursorOK(CursorAt(file), file)
         /\ Covered(CursorAt(file), s, file, KeysOf(Records(s, NewLines(file, c))))
<1> DEFINE n     == Complete(file)
           start == StartAt(file, c)
           k     == start \div 2
           new   == NewLines(file, c)
           at    == CursorAt(file)
<1>1. n \in Nat /\ Len(file.lines) \in Nat /\ n <= Len(file.lines) /\ Size(file) \in Nat
  BY FileSizes
<1>2. /\ file.lines \in Seq(Lines) /\ file.id = <<file.id[1], file.id[2]>>
      /\ file.id[1] \in Nat /\ file.id[2] \in Nat
  BY DEF FileOK
<1>3. at.id = file.id /\ at.at = 2 * n /\ at = [id |-> at.id, at |-> at.at]
  BY DEF CursorAt, EndAt
<1>4. 2 * n \in Nat /\ (2 * n) \div 2 = n
  BY <1>1
<1> HIDE DEF n, at
<1>5. CursorOK(at, file)
  <2>1. NotBefore(file.id, at.id)
    BY <1>2, <1>3 DEF NotBefore
  <2> QED BY <1>1, <1>2, <1>3, <1>4, <2>1 DEF CursorOK, n
<1>6. \/ start = 0
      \/ start = c.at /\ CursorOK(c, file) /\ Covered(c, s, file, {}) /\ c.id = file.id
  <2>1. start = 0 \/ (start = c.at /\ c.id[1] = file.id[1] /\ ~(Size(file) < c.at))
    BY DEF StartAt
  <2>2. ASSUME c.id[1] = file.id[1], ~(Size(file) < c.at) PROVE c.id = file.id
    BY <2>2 DEF CursorOK
  <2> QED BY <2>1, <2>2
<1> HIDE DEF start
<1>7. start \in Nat /\ k \in Nat /\ (start + 1) \div 2 = k /\ start = 2 * k
  <2>1. start \in Nat /\ start = 2 * (start \div 2)
    BY <1>6 DEF CursorOK
  <2> QED BY <2>1
<1>8. new = SubSeq(file.lines, k + 1, n)
  BY <1>7 DEF NewLines, n, start
<1> HIDE DEF new, k
<1>9. /\ new \in Seq(Lines) /\ Len(new) \in Nat
      /\ \A i \in 1..n : k < i => i - k \in 1..Len(new) /\ new[i - k] = file.lines[i]
  <2>1. CASE k + 1 <= n
    <3>1. /\ new \in Seq(Lines) /\ Len(new) = n - k
          /\ \A j \in 1..(n - k) : new[j] = file.lines[k + j]
      <4>1. k \in Nat /\ file.lines \in Seq(Lines) /\ k + 1 \in 1..(Len(file.lines) + 1) /\ n \in k..Len(file.lines)
        BY <1>1, <1>2, <1>7, <2>1
      <4>2. \A i \in (k + 1)..n : file.lines[i] \in Lines
        BY <1>1, <4>1
      <4>3. k + 1 \in Int /\ n \in Int
        BY <1>1, <4>1
      <4>4. /\ new \in Seq(Lines) /\ Len(new) = IF k + 1 <= n THEN n - (k + 1) + 1 ELSE 0
            /\ \A j \in 1..(n - (k + 1) + 1) : new[j] = file.lines[k + 1 + j - 1]
        BY <1>8, <4>2, <4>3, SubSeqProperties
      <4>5. n - (k + 1) + 1 = n - k /\ \A j \in 1..(n - k) : k + 1 + j - 1 = k + j
        <5>1. k \in Int /\ n \in Int
          BY <1>1, <1>7
        <5> QED BY <5>1
      <4> QED BY <2>1, <4>4, <4>5
    <3>2. \A i \in 1..n : k < i => i - k \in 1..(n - k) /\ k + (i - k) = i
      <4>1. k \in Nat /\ n \in Nat
        BY <1>1, <1>7
      <4> QED BY <4>1
    <3> QED BY <1>1, <1>7, <3>1, <3>2, <2>1
  <2>2. CASE ~(k + 1 <= n)
    <3>1. new = <<>>
      BY <1>1, <1>2, <1>7, <1>8, <2>2
    <3>2. \A i \in 1..n : ~(k < i)
      BY <1>1, <1>7, <2>2
    <3> QED BY <3>1, <3>2, EmptySeq
  <2> QED BY <2>1, <2>2
<1>10. /\ Records(s, new) \in Seq(AnyRecord)
       /\ \A i \in 1..Len(new) : new[i].dated => KeyOf(Record(s, new[i])) \in KeysOf(Records(s, new))
  BY <1>9, RecordsAre
<1>11. ASSUME NEW i \in 1..n, file.lines[i].dated
       PROVE  Sent(s, file, i) \/ KeyOf(Record(s, file.lines[i])) \in KeysOf(Records(s, new))
  <2>1. CASE k < i
    BY <1>9, <1>10, <1>11, <2>1
  <2>2. CASE ~(k < i)
    <3>1. start # 0 /\ i \in 1..k
      BY <1>1, <1>7, <2>2
    <3>2. Covered(c, s, file, {}) /\ c.id = file.id /\ c.at \div 2 = k
      BY <1>6, <3>1 DEF k
    <3> QED BY <1>11, <3>1, <3>2 DEF Covered
  <2> QED BY <2>1, <2>2
<1>12. Covered(at, s, file, KeysOf(Records(s, new)))
  BY <1>3, <1>4, <1>11 DEF Covered
<1> QED BY <1>5, <1>10, <1>12 DEF new, at

(* A batch is stored. *)
LEMMA BatchStored ==
  ASSUME StoredOnce, NEW batch, stored' = Inserted(batch)
  PROVE  StoredOnce' /\ DOMAIN stored' = DOMAIN stored \cup KeysOf(batch)
<1>1. \A i : KeyOf(batch[i])[3] # NoBarcode
  BY DEF KeyOf, NoBarcode
<1>2. \A key \in KeysOf(batch) : key[3] # NoBarcode
  BY <1>1 DEF KeysOf
<1>3. DOMAIN stored' = DOMAIN stored \cup KeysOf(batch)
  BY DEF Inserted, KeysOf
<1>4. \A key \in DOMAIN stored' :
        stored'[key] = IF key \notin KeysOf(batch) THEN stored[key]
                       ELSE IF key[3] = NoBarcode THEN RowsOf(key) + Cardinality({i \in DOMAIN batch : KeyOf(batch[i]) = key})
                       ELSE 1
  BY DEF Inserted, KeysOf
<1>5. \A key \in DOMAIN stored' : stored'[key] = 1
  BY <1>2, <1>3, <1>4 DEF StoredOnce
<1> QED BY <1>3, <1>5 DEF StoredOnce

(* What is left of the records after a batch, with the batch, is all there *)
(* was.                                                                    *)
LEMMA BatchAndRest ==
  ASSUME NEW records, records = [s \in Source |-> records[s]], \A s \in Source : records[s] \in Seq(AnyRecord)
  PROVE  /\ After(records) = [s \in Source |-> After(records)[s]]
         /\ \A s \in Source : /\ After(records)[s] \in Seq(AnyRecord)
                              /\ KeysOf(records[s]) \subseteq KeysOf(After(records)[s]) \cup KeysOf(Batch(records))
<1>1. After(records) = [s \in Source |-> After(records)[s]]
  BY DEF After
<1>2. MaxBatch \in Nat \ {0}
  BY UploadsAssumption
<1>3. ASSUME NEW s \in Source
      PROVE  /\ FirstOf(records[s]) \in Seq(AnyRecord)
             /\ After(records)[s] \in Seq(AnyRecord)
             /\ KeysOf(records[s]) \subseteq KeysOf(After(records)[s]) \cup KeysOf(FirstOf(records[s]))
  <2> DEFINE q == records[s]
             m == IF Len(q) < MaxBatch THEN Len(q) ELSE MaxBatch
             first == FirstOf(q)
             rest == After(records)[s]
  <2>1. q \in Seq(AnyRecord) /\ Len(q) \in Nat /\ DOMAIN q = 1..Len(q)
    BY <1>3
  <2>2. first = SubSeq(q, 1, m) /\ rest = SubSeq(q, MaxBatch + 1, Len(q))
    BY <1>3 DEF FirstOf, After
  <2>3. m \in Nat /\ m <= Len(q) /\ (m < Len(q) => m = MaxBatch)
    BY <1>2, <2>1
  <2> HIDE DEF m, first, rest, q
  <2>4. first \in Seq(AnyRecord) /\ Len(first) = m /\ \A i \in 1..m : first[i] = q[i]
    BY <2>1, <2>2, <2>3
  <2>5. /\ rest \in Seq(AnyRecord)
        /\ \A i \in 1..Len(q) : m < i => \E j \in 1..Len(rest) : rest[j] = q[i]
    <3>1. CASE m < Len(q)
      <4>1. rest \in Seq(AnyRecord) /\ Len(rest) = Len(q) - m /\ \A j \in 1..(Len(q) - m) : rest[j] = q[m + j]
        BY <2>1, <2>2, <2>3, <3>1
      <4>2. \A i \in 1..Len(q) : m < i => i - m \in 1..(Len(q) - m) /\ m + (i - m) = i
        BY <2>1, <2>3
      <4> QED BY <4>1, <4>2
    <3>2. CASE ~(m < Len(q))
      <4>1. rest = <<>>
        BY <1>2, <2>1, <2>2, <2>3, <3>2 DEF m
      <4> QED BY <4>1, <2>1, <2>3, <3>2, EmptySeq
    <3> QED BY <3>1, <3>2
  <2>6. DOMAIN first = 1..m /\ DOMAIN rest = 1..Len(rest)
    BY <2>4, <2>5
  <2>7. ASSUME NEW i \in 1..Len(q) PROVE KeyOf(q[i]) \in KeysOf(rest) \cup KeysOf(first)
    <3>1. CASE m < i
      BY <2>5, <2>6, <3>1 DEF KeysOf
    <3>2. CASE ~(m < i)
      <4>1. i \in 1..m
        BY <2>3, <3>2
      <4> QED BY <2>4, <2>6, <4>1 DEF KeysOf
    <3> QED BY <3>1, <3>2
  <2>8. KeysOf(q) \subseteq KeysOf(rest) \cup KeysOf(first)
    BY <2>1, <2>7 DEF KeysOf
  <2> QED BY <2>4, <2>5, <2>8 DEF q, first, rest
<1>4. \A s \in Source : KeysOf(FirstOf(records[s])) \subseteq KeysOf(Batch(records))
  <2> DEFINE a == FirstOf(records["checkins"])
             b == FirstOf(records["acs"])
  <2>1. a \in Seq(AnyRecord) /\ b \in Seq(AnyRecord) /\ Batch(records) = a \o b
    BY <1>3 DEF Batch, Order, Source
  <2> HIDE DEF a, b
  <2>2. /\ DOMAIN a = 1..Len(a) /\ DOMAIN b = 1..Len(b) /\ DOMAIN Batch(records) = 1..(Len(a) + Len(b))
        /\ \A i \in 1..Len(a) : i \in 1..(Len(a) + Len(b)) /\ Batch(records)[i] = a[i]
        /\ \A i \in 1..Len(b) : i + Len(a) \in 1..(Len(a) + Len(b)) /\ Batch(records)[i + Len(a)] = b[i]
    <3>1. Len(a) \in Nat /\ Len(b) \in Nat /\ DOMAIN a = 1..Len(a) /\ DOMAIN b = 1..Len(b)
      BY <2>1
    <3>2. /\ Len(Batch(records)) = Len(a) + Len(b) /\ Batch(records) \in Seq(AnyRecord)
          /\ \A i \in 1..(Len(a) + Len(b)) : Batch(records)[i] = IF i <= Len(a) THEN a[i] ELSE b[i - Len(a)]
      <4>1. /\ Len(a \o b) = Len(a) + Len(b) /\ a \o b \in Seq(AnyRecord)
            /\ \A i \in 1..Len(a) + Len(b) : (a \o b)[i] = IF i <= Len(a) THEN a[i] ELSE b[i - Len(a)]
        BY <2>1, ConcatProperties, Zenon
      <4> QED BY <2>1, <4>1, Zenon
    <3>3. \A i \in 1..Len(b) : i + Len(a) \in 1..(Len(a) + Len(b)) /\ ~(i + Len(a) <= Len(a)) /\ (i + Len(a)) - Len(a) = i
      BY <3>1
    <3>4. \A i \in 1..Len(a) : i \in 1..(Len(a) + Len(b)) /\ i <= Len(a)
      BY <3>1
    <3>5. \A i \in 1..Len(a) : Batch(records)[i] = a[i]
      BY <3>2, <3>4
    <3>6. \A i \in 1..Len(b) : Batch(records)[i + Len(a)] = b[i]
      <4> SUFFICES ASSUME NEW i \in 1..Len(b) PROVE Batch(records)[i + Len(a)] = b[i]
        OBVIOUS
      <4> DEFINE j == i + Len(a)
      <4>1. j \in 1..(Len(a) + Len(b)) /\ ~(j <= Len(a)) /\ j - Len(a) = i
        BY <3>3
      <4> HIDE DEF j
      <4>2. Batch(records)[j] = b[j - Len(a)]
        BY <3>2, <4>1
      <4> QED BY <4>1, <4>2 DEF j
    <3>7. DOMAIN Batch(records) = 1..(Len(a) + Len(b))
      BY <3>2
    <3> QED BY <3>1, <3>3, <3>4, <3>5, <3>6, <3>7
  <2>3. KeysOf(a) \subseteq KeysOf(Batch(records)) /\ KeysOf(b) \subseteq KeysOf(Batch(records))
    BY <2>2 DEF KeysOf
  <2> QED BY <2>3 DEF a, b, Source
<1>5. \A s \in Source : KeysOf(records[s]) \subseteq KeysOf(After(records)[s]) \cup KeysOf(Batch(records))
  BY <1>3, <1>4
<1> QED BY <1>1, <1>3, <1>5
-----------------------------------------------------------------------------
(* The programs.                                                           *)

(* While the files stay and nothing that was sent goes, what held of the   *)
(* positions holds, and the state file and the run that stay are right.    *)
LEMMA QuietKeeps ==
  ASSUME UInv, UNCHANGED <<files, coming>>, skipped \subseteq skipped', DOMAIN stored \subseteq DOMAIN stored'
  PROVE  /\ (UNCHANGED past => PastOK') /\ FilesOK'
         /\ \A cursors : SentOK(cursors) => SentOK(cursors)'
         /\ \A r : Reading(r) => Reading(r)'
         /\ \A r : Bootstrapping(r) => Bootstrapping(r)'
         /\ committed' = [p \in {Collector, Pipeline} |-> committed'[p]] /\ committed'[Collector] = committed[Collector]
              => CommittedOK'
         /\ run' = [p \in {Collector, Pipeline} |-> run'[p]] /\ run'[Collector] = run[Collector]
              /\ (committed'[Collector] = Damaged => committed[Collector] = Damaged \/ run[Collector] = Idle) => RunOK'
<1>1. (UNCHANGED past => PastOK') /\ FilesOK'
  BY DEF UInv, PastOK, FilesOK
<1>2. \A c, s, file, pending : Covered(c, s, file, pending) => Covered(c, s, file, pending)'
  BY SentGrows
<1>3. \A cursors : SentOK(cursors) => SentOK(cursors)'
  BY <1>2 DEF SentOK
<1>4. ASSUME NEW r, Reading(r) PROVE Reading(r)'
  BY <1>2, <1>4 DEF Reading
<1>5. \A r : Bootstrapping(r) => Bootstrapping(r)'
  BY <1>3 DEF Bootstrapping
<1>6. ASSUME committed' = [p \in {Collector, Pipeline} |-> committed'[p]], committed'[Collector] = committed[Collector]
      PROVE  CommittedOK'
  BY <1>3, <1>6 DEF UInv, CommittedOK
<1>7. ASSUME run' = [p \in {Collector, Pipeline} |-> run'[p]], run'[Collector] = run[Collector],
             committed'[Collector] = Damaged => committed[Collector] = Damaged \/ run[Collector] = Idle
      PROVE  RunOK'
  BY <1>4, <1>5, <1>7 DEF UInv, RunOK
<1> QED BY <1>1, <1>3, <1>4, <1>5, <1>6, <1>7

(* A step of the Collector's run to a state that is right. *)
LEMMA CollectorRuns ==
  ASSUME UInv, NEW r, Step(Collector, r), committed[Collector] # Damaged \/ r = Idle,
         UNCHANGED <<past, files, coming, committed>>, skipped \subseteq skipped', DOMAIN stored \subseteq DOMAIN stored',
         StoredOnce',
         r.pc \in {"idle", "post", "read", "send", "save", "bootstrap"},
         r.pc = "idle" => r = Idle, r.pc = "post" => r = [pc |-> "post", status |-> r.status],
         r.pc \in {"read", "send", "save"} => Reading(r)', r.pc = "bootstrap" => Bootstrapping(r)'
  PROVE  UInv'
<1>1. PastOK' /\ FilesOK' /\ CommittedOK'
  BY QuietKeeps DEF UInv, CommittedOK
<1>2. run' = [p \in {Collector, Pipeline} |-> run'[p]] /\ run'[Collector] = r
  BY DEF UInv, RunOK, Step
<1>3. RunOK'
  BY <1>2 DEF RunOK
<1> QED BY <1>1, <1>3 DEF UInv

(* What the Collector is doing. *)
LEMMA CollectorAt ==
  ASSUME UInv
  PROVE  /\ run[Collector].pc \in {"read", "send", "save"} =>
              Reading(run[Collector]) /\ run[Collector] # Idle /\ committed[Collector] # Damaged
         /\ run[Collector].pc = "bootstrap" =>
              Bootstrapping(run[Collector]) /\ run[Collector] # Idle /\ committed[Collector] # Damaged
         /\ \A pc, todo, read, records : At(pc, todo, read, records) # Idle
         /\ Idle.pc = "idle"
<1>1. Idle.pc = "idle"
  BY DEF Idle
<1>2. \A pc, todo, read, records : DOMAIN At(pc, todo, read, records) # DOMAIN Idle
  BY DEF At, Idle
<1> QED BY <1>1, <1>2 DEF UInv, RunOK

(* A run's fields. *)
LEMMA FieldsOfRun ==
  ASSUME NEW pc, NEW todo, NEW read, NEW records
  PROVE  /\ At(pc, todo, read, records).pc = pc /\ At(pc, todo, read, records).todo = todo
         /\ At(pc, todo, read, records).read = read /\ At(pc, todo, read, records).records = records
         /\ LET r == At(pc, todo, read, records) IN
              r = [pc |-> r.pc, todo |-> r.todo, read |-> r.read, records |-> r.records]
BY DEF At

(* The start of a run. *)
LEMMA BeginKeeps == ASSUME UInv, Begin PROVE UInv'
<1>1. /\ Step(Collector, ReadAll) /\ committed[Collector] # Damaged
      /\ UNCHANGED <<past, files, coming, committed, stored, skipped>>
  BY DEF Begin, Quiet
<1>2. /\ ReadAll.pc = "read" /\ ReadAll.todo = Order /\ ReadAll.read = <<>> /\ ReadAll.records = None
      /\ ReadAll = [pc |-> ReadAll.pc, todo |-> ReadAll.todo, read |-> ReadAll.read, records |-> ReadAll.records]
  BY FieldsOfRun DEF ReadAll
<1>3. None = [s \in Source |-> None[s]] /\ \A s \in Source : None[s] \in Seq(AnyRecord)
  BY EmptySeq DEF None
<1> HIDE DEF ReadAll
<1>4. Reading(ReadAll)'
  BY <1>2, <1>3 DEF Reading
<1>5. StoredOnce'
  BY <1>1 DEF UInv, StoredOnce
<1> QED BY <1>1, <1>2, <1>4, <1>5, CollectorRuns

(* What the sources to come are. *)
LEMMA SourcesToDo ==
  /\ Head(Order) \in Source /\ Head(Tail(Order)) \in Source /\ Order # <<>> /\ Tail(Order) # <<>>
  /\ Tail(Tail(Order)) = <<>>
BY DEF Order, Source

(* A source that was read, or is missing. *)
LEMMA ReadKeeps == ASSUME UInv, Read PROVE UInv'
<1> DEFINE r == run[Collector]
           s == Head(r.todo)
           file == files[s]
           new == Records(s, NewLines(file, Saved(s)))
<1>1. r.pc = "read" /\ UNCHANGED <<past, files, coming, committed, stored, skipped>>
  BY DEF Read, Quiet
<1>2. Reading(r) /\ committed[Collector] # Damaged
  BY <1>1, CollectorAt
<1>3. s \in Source /\ (Tail(r.todo) # <<>> => Tail(r.todo) = Tail(Order))
  BY <1>1, <1>2, SourcesToDo DEF Reading
<1>4. FileOK(file)
  BY <1>3 DEF UInv, FilesOK
<1>5. Saved(s).id[1] = file.id[1] => CursorOK(Saved(s), file) /\ Covered(Saved(s), s, file, {})
  <2>1. CASE Saved(s) = Nothing
    BY <1>4, <2>1 DEF Nothing, FileOK
  <2>2. CASE Saved(s) # Nothing
    <3>1. committed[Collector] # NoFile /\ s \in DOMAIN committed[Collector].at /\ Saved(s) = committed[Collector].at[s]
      BY <2>2 DEF Saved
    <3> QED BY <3>1, <1>2 DEF UInv, CommittedOK, SentOK
  <2> QED BY <2>1, <2>2
<1>6. /\ new \in Seq(AnyRecord) /\ CursorOK(CursorAt(file), file)
      /\ Covered(CursorAt(file), s, file, KeysOf(new))
  BY <1>3, <1>4, <1>5, ReadToTheEnd
<1>7. PICK read, records :
        /\ Step(Collector, SourceRead(r, read, records))
        /\ \/ read = r.read /\ records = r.records
           \/ read = Over([t \in {s} |-> CursorAt(file)], r.read) /\ records = [r.records EXCEPT ![s] = new]
  BY DEF Read
<1>8. /\ records = [t \in Source |-> records[t]] /\ \A t \in Source : records[t] \in Seq(AnyRecord)
      /\ \A t \in DOMAIN read : t \in Source /\ CursorOK(read[t], files[t])
                                /\ Covered(read[t], t, files[t], KeysOf(records[t]))
  <2> HIDE DEF r, s, new, file
  <2>1. CASE read = r.read /\ records = r.records
    BY <1>2, <2>1 DEF Reading
  <2>2. CASE read = Over([t \in {s} |-> CursorAt(file)], r.read) /\ records = [r.records EXCEPT ![s] = new]
    <3>1. /\ DOMAIN read = {s} \cup DOMAIN r.read
          /\ \A t \in DOMAIN read : read[t] = IF t = s THEN CursorAt(file) ELSE r.read[t]
      BY <2>2 DEF Over
    <3>2. records = [t \in Source |-> IF t = s THEN new ELSE r.records[t]]
      BY <1>2, <2>2 DEF Reading
    <3> QED BY <1>2, <1>3, <1>6, <3>1, <3>2 DEF Reading, file
  <2> QED BY <1>7, <2>1, <2>2
<1> DEFINE todo == Tail(r.todo)
           pc == IF todo = <<>> THEN "send" ELSE "read"
<1>9. PICK next : next = At(pc, todo, read, records)
  OBVIOUS
<1>10. /\ next.pc = pc /\ next.todo = todo /\ next.read = read /\ next.records = records
      /\ next = [pc |-> next.pc, todo |-> next.todo, read |-> next.read, records |-> next.records]
  <2> HIDE DEF pc, todo
  <2> QED BY <1>9, FieldsOfRun
<1>11. next.pc \in {"read", "send"} /\ (next.pc = "read" => next.todo = Tail(Order)) /\ next.pc # "save"
  BY <1>3, <1>10
<1>12. Step(Collector, next)
  BY <1>7, <1>9 DEF SourceRead
<1>13. Reading(next)
  BY <1>8, <1>10, <1>11 DEF Reading
<1>14. Reading(next)' /\ StoredOnce'
  <2>1. StoredOnce'
    BY <1>1 DEF UInv, StoredOnce
  <2>2. Reading(next)'
    BY <1>1, <1>13, QuietKeeps
  <2> QED BY <2>1, <2>2
<1> HIDE DEF r, pc, todo, s, file, new
<1> QED BY <1>1, <1>2, <1>11, <1>12, <1>14, CollectorRuns
(* A batch that is sent, or refused, or the end of the records. *)
LEMMA SendKeeps == ASSUME UInv, Send(Collector) PROVE UInv'
<1> DEFINE r == run[Collector]
           batch == Batch(r.records)
           post == [pc |-> "post", status |-> "failed_upload"]
<1>1. r.pc = "send" /\ UNCHANGED <<past, files, coming, committed, skipped>>
  BY DEF Send, Quiet
<1>2. Reading(r) /\ committed[Collector] # Damaged /\ StoredOnce
  BY <1>1, CollectorAt DEF UInv
<1>3. post.pc = "post" /\ post = [pc |-> "post", status |-> post.status] /\ OnFailure(Collector, r) = post
  BY DEF OnFailure, Failed, Collector
<1>4. CASE NoneLeft(r.records) /\ Step(Collector, At("save", r.todo, r.read, r.records)) /\ UNCHANGED stored
  <2>1. PICK next : next = At("save", r.todo, r.read, r.records)
    OBVIOUS
  <2>2. /\ next.pc = "save" /\ next.todo = r.todo /\ next.read = r.read /\ next.records = r.records
        /\ next = [pc |-> next.pc, todo |-> next.todo, read |-> next.read, records |-> next.records]
    BY <2>1, FieldsOfRun
  <2>3. Reading(next)
    BY <1>2, <1>4, <2>2 DEF Reading
  <2>4. Reading(next)' /\ StoredOnce'
    <3>1. StoredOnce'
      BY <1>2, <1>4 DEF StoredOnce
    <3> QED BY <1>1, <1>4, <2>3, <3>1, QuietKeeps
  <2> HIDE DEF r
  <2> QED BY <1>1, <1>2, <1>4, <2>1, <2>2, <2>4, CollectorRuns
<1>5. CASE stored' = Inserted(batch) /\ Step(Collector, At(IF NoneLeft(After(r.records)) THEN "save" ELSE "send", r.todo, r.read, After(r.records)))
  <2> DEFINE pc == IF NoneLeft(After(r.records)) THEN "save" ELSE "send"
  <2>1. PICK next : next = At(pc, r.todo, r.read, After(r.records))
    OBVIOUS
  <2>2. /\ next.pc = pc /\ next.todo = r.todo /\ next.read = r.read /\ next.records = After(r.records)
        /\ next = [pc |-> next.pc, todo |-> next.todo, read |-> next.read, records |-> next.records]
    <3> HIDE DEF pc
    <3> QED BY <2>1, FieldsOfRun
  <2>3. /\ next.pc \in {"send", "save"} /\ (next.pc = "save" => NoneLeft(next.records))
    BY <2>2
  <2>4. StoredOnce' /\ DOMAIN stored' = DOMAIN stored \cup KeysOf(batch)
    BY <1>2, <1>5, BatchStored
  <2>5. /\ next.records = [s \in Source |-> next.records[s]]
        /\ \A s \in Source : /\ next.records[s] \in Seq(AnyRecord)
                             /\ KeysOf(r.records[s]) \subseteq KeysOf(next.records[s]) \cup DOMAIN stored'
    <3>1. r.records = [s \in Source |-> r.records[s]] /\ \A s \in Source : r.records[s] \in Seq(AnyRecord)
      BY <1>2 DEF Reading
    <3> QED BY <2>2, <2>4, <3>1, BatchAndRest
  <2> HIDE DEF pc, batch, r
  <2>6. \A s \in DOMAIN next.read :
          s \in Source /\ CursorOK(next.read[s], files[s])
          /\ Covered(next.read[s], s, files[s], KeysOf(next.records[s]))'
    <3>1. \A s \in DOMAIN r.read :
            s \in Source /\ CursorOK(r.read[s], files[s]) /\ Covered(r.read[s], s, files[s], KeysOf(r.records[s]))
      BY <1>2 DEF Reading
    <3>2. skipped \subseteq skipped' /\ DOMAIN stored \subseteq DOMAIN stored'
      BY <1>1, <2>4
    <3>3. ASSUME NEW s \in DOMAIN next.read PROVE Covered(next.read[s], s, files[s], KeysOf(next.records[s]))'
      <4>1. PICK c, file, pending, rest :
              c = next.read[s] /\ file = files[s] /\ pending = KeysOf(r.records[s]) /\ rest = KeysOf(next.records[s])
        OBVIOUS
      <4>2. Covered(c, s, file, rest)'
        BY <2>2, <3>1, <3>2, <3>3, <4>1, <2>5, SentGrows
      <4>3. file = files'[s]
        BY <1>1, <4>1
      <4> QED BY <4>1, <4>2, <4>3
    <3> QED BY <2>2, <3>1, <3>3
  <2>7. Reading(next)'
    BY <1>1, <2>2, <2>3, <2>5, <2>6 DEF Reading
  <2>8. Step(Collector, next) /\ DOMAIN stored \subseteq DOMAIN stored' /\ skipped \subseteq skipped'
    BY <1>1, <1>5, <2>1, <2>4 DEF pc
  <2> QED BY <1>1, <1>2, <2>3, <2>4, <2>7, <2>8, CollectorRuns
<1>6. CASE (stored' = Inserted(batch) \/ UNCHANGED stored) /\ Step(Collector, OnFailure(Collector, r))
  <2>1. StoredOnce' /\ DOMAIN stored \subseteq DOMAIN stored'
    <3>1. CASE stored' = Inserted(batch)
      BY <1>2, <3>1, BatchStored
    <3>2. CASE UNCHANGED stored
      BY <1>2, <3>2 DEF StoredOnce
    <3> QED BY <1>6, <3>1, <3>2
  <2> HIDE DEF r, post
  <2> QED BY <1>1, <1>2, <1>3, <1>6, <2>1, CollectorRuns
<1> QED BY <1>4, <1>5, <1>6 DEF Send, Collector, Pipeline

(* The state file, of a run that has sent everything. *)
LEMMA SaveKeeps == ASSUME UInv, Save PROVE UInv'
<1> DEFINE r == run[Collector]
           old == IF committed[Collector] = NoFile THEN <<>> ELSE committed[Collector].at
           at == Over(r.read, old)
           post == [pc |-> "post", status |-> "completed"]
<1>1. /\ r.pc = "save" /\ UNCHANGED <<past, files, coming, skipped, stored>>
      /\ committed' = [committed EXCEPT ![Collector] = StateFile(at, None)] /\ Step(Collector, post)
  BY DEF Save, Quiet
<1>2. Reading(r) /\ committed[Collector] # Damaged /\ StoredOnce
  BY <1>1, CollectorAt DEF UInv
<1>3. SentOK(r.read)
  <2>1. ASSUME NEW s \in DOMAIN r.read
        PROVE  s \in Source /\ CursorOK(r.read[s], files[s]) /\ Covered(r.read[s], s, files[s], {})
    <3>1. s \in Source /\ CursorOK(r.read[s], files[s]) /\ Covered(r.read[s], s, files[s], KeysOf(r.records[s]))
      BY <1>2, <2>1 DEF Reading
    <3>2. r.records[s] = <<>>
      BY <1>1, <1>2, <3>1 DEF Reading, NoneLeft
    <3>3. KeysOf(r.records[s]) = {}
      BY <3>2 DEF KeysOf
    <3> QED BY <3>1, <3>3
  <2> QED BY <2>1 DEF SentOK
<1>4. SentOK(old)
  <2>1. CASE committed[Collector] = NoFile
    BY <2>1 DEF SentOK
  <2>2. CASE committed[Collector] # NoFile
    BY <1>2, <2>2 DEF UInv, CommittedOK
  <2> QED BY <2>1, <2>2
<1> HIDE DEF old, r
<1>5. SentOK(at)
  BY <1>3, <1>4 DEF SentOK, Over
<1>6. PICK saved : saved = at
  OBVIOUS
<1>7. SentOK(saved)'
  BY <1>1, <1>5, <1>6, QuietKeeps
<1> HIDE DEF at
<1>8. /\ committed' = [p \in {Collector, Pipeline} |-> committed'[p]]
      /\ committed'[Collector] = StateFile(saved, None)
  BY <1>1, <1>6 DEF UInv, CommittedOK
<1>9. CommittedOK' /\ committed'[Collector] # Damaged
  <2>1. /\ StateFile(saved, None).at = saved /\ StateFile(saved, None).stat = None
        /\ StateFile(saved, None).kind = "saved" /\ Damaged.kind = "damaged"
    BY DEF StateFile, Damaged
  <2>2. StateFile(saved, None) # Damaged
    BY <2>1
  <2> QED BY <1>7, <1>8, <2>1, <2>2 DEF CommittedOK
<1>10. PastOK' /\ FilesOK' /\ StoredOnce'
  <2>1. StoredOnce'
    BY <1>1, <1>2 DEF StoredOnce
  <2> QED BY <1>1, <2>1, QuietKeeps
<1>11. RunOK'
  <2>1. run' = [p \in {Collector, Pipeline} |-> run'[p]] /\ run'[Collector] = post
    BY <1>1 DEF UInv, RunOK, Step
  <2>2. post.pc = "post" /\ post = [pc |-> "post", status |-> post.status]
    OBVIOUS
  <2> HIDE DEF post
  <2> QED BY <1>9, <2>1, <2>2 DEF RunOK
<1> QED BY <1>9, <1>10, <1>11 DEF UInv
(* The last report of a run. *)
LEMMA PostKeeps == ASSUME UInv, Post(Collector) PROVE UInv'
<1>1. /\ run[Collector].pc = "post" /\ Step(Collector, Idle)
      /\ UNCHANGED <<past, files, coming, skipped, committed, stored>>
  BY DEF Post, Quiet
<1>2. StoredOnce' /\ skipped \subseteq skipped' /\ DOMAIN stored \subseteq DOMAIN stored'
  BY <1>1 DEF UInv, StoredOnce
<1>3. Idle.pc = "idle"
  BY DEF Idle
<1> QED BY <1>1, <1>2, <1>3, CollectorRuns

(* The bootstrap is begun, before there is any state. *)
LEMMA BeginBootstrapKeeps == ASSUME UInv, BeginBootstrap PROVE UInv'
<1> DEFINE next == [pc |-> "bootstrap", todo |-> Order, read |-> <<>>]
<1>1. /\ Step(Collector, next) /\ committed[Collector] = NoFile
      /\ UNCHANGED <<files, coming, committed, stored, skipped>> /\ past' = [past EXCEPT !.bootstrap = FALSE]
  BY DEF BeginBootstrap
<1>2. FilesOK' /\ CommittedOK' /\ StoredOnce'
  <2>1. StoredOnce'
    BY <1>1 DEF UInv, StoredOnce
  <2> QED BY <1>1, <2>1, QuietKeeps DEF UInv, CommittedOK
<1>3. PastOK'
  BY <1>1 DEF UInv, PastOK
<1>4. RunOK'
  <2>1. run' = [p \in {Collector, Pipeline} |-> run'[p]] /\ run'[Collector] = next
    BY <1>1 DEF UInv, RunOK, Step
  <2>2. /\ next.pc = "bootstrap" /\ next.todo = Order /\ next.read = <<>>
        /\ next = [pc |-> next.pc, todo |-> next.todo, read |-> next.read]
    OBVIOUS
  <2> HIDE DEF next
  <2>3. Bootstrapping(next)'
    BY <2>2 DEF Bootstrapping, SentOK
  <2>4. committed'[Collector] # Damaged
    BY <1>1 DEF NoFile, Damaged
  <2> QED BY <2>1, <2>2, <2>3, <2>4 DEF RunOK
<1> QED BY <1>2, <1>3, <1>4 DEF UInv

(* A position of the bootstrap: what it passes is skipped. *)
LEMMA BootstrapPasses ==
  ASSUME NEW s \in Source, NEW file, FileOK(file),
         \A i \in 1..Complete(file) : <<s, file.id, i>> \in skipped'
  PROVE  /\ CursorOK(CursorAt(file), file)
         /\ \A c : c = CursorAt(file) => Covered(c, s, file, {})'
<1>1. Complete(file) \in Nat
  BY FileSizes
<1>2. PICK n : n = Complete(file)
  OBVIOUS
<1>3. n \in Nat /\ 2 * n \in Nat /\ (2 * n) \div 2 = n
  BY <1>1, <1>2
<1>4. /\ CursorAt(file).id = file.id /\ CursorAt(file).at = 2 * n
      /\ CursorAt(file) = [id |-> CursorAt(file).id, at |-> CursorAt(file).at]
  BY <1>2 DEF CursorAt, EndAt
<1>5. file.id = <<file.id[1], file.id[2]>> /\ file.id[1] \in Nat /\ file.id[2] \in Nat /\ NotBefore(file.id, file.id)
  BY DEF FileOK, NotBefore
<1>6. CursorOK(CursorAt(file), file)
  <2>1. PICK c : c = CursorAt(file)
    OBVIOUS
  <2>2. c.id = file.id /\ c.at = 2 * n /\ c = [id |-> c.id, at |-> c.at]
    BY <1>4, <2>1
  <2>3. c.at \div 2 <= Complete(file)
    BY <1>2, <1>3, <2>2
  <2>4. CursorOK(c, file)
    BY <1>3, <1>5, <2>2, <2>3 DEF CursorOK
  <2> QED BY <2>1, <2>4
<1>7. ASSUME NEW c, c = CursorAt(file) PROVE Covered(c, s, file, {})'
  <2>1. c.at = 2 * n /\ c.id = file.id
    BY <1>4, <1>7
  <2>2. \A i \in 1..(c.at \div 2) : <<s, file.id, i>> \in skipped'
    BY <1>2, <1>3, <2>1
  <2> QED BY <2>2 DEF Covered, Sent
<1> QED BY <1>6, <1>7

(* The bootstrap passes a source, stops at a missing one, or is done. *)
LEMMA BootstrapKeeps == ASSUME UInv, Bootstrap PROVE UInv'
<1> DEFINE r == run[Collector]
<1>1. r.pc = "bootstrap" /\ UNCHANGED <<past, files, coming, stored>>
  BY DEF Bootstrap
<1>2. Bootstrapping(r) /\ committed[Collector] # Damaged /\ StoredOnce /\ Idle.pc = "idle"
  BY <1>1, CollectorAt DEF UInv
<1>3. StoredOnce' /\ DOMAIN stored \subseteq DOMAIN stored'
  BY <1>1, <1>2 DEF StoredOnce
<1>4. CASE r.todo = <<>>
  <2>1. /\ committed' = [committed EXCEPT ![Collector] = StateFile(r.read, None)] /\ Step(Collector, Idle)
        /\ UNCHANGED skipped
    BY <1>4 DEF Bootstrap
  <2>2. PICK saved : saved = r.read
    OBVIOUS
  <2>3. SentOK(saved)'
    BY <1>1, <1>2, <1>3, <2>1, <2>2, QuietKeeps DEF Bootstrapping
  <2>4. /\ committed' = [p \in {Collector, Pipeline} |-> committed'[p]]
        /\ committed'[Collector] = StateFile(saved, None)
    BY <2>1, <2>2 DEF UInv, CommittedOK
  <2>5. CommittedOK'
    <3>1. StateFile(saved, None).at = saved /\ StateFile(saved, None).stat = None
      BY DEF StateFile
    <3> QED BY <2>3, <2>4, <3>1 DEF CommittedOK
  <2>6. run' = [p \in {Collector, Pipeline} |-> run'[p]] /\ run'[Collector] = Idle
    BY <2>1 DEF UInv, RunOK, Step
  <2>7. RunOK'
    BY <1>2, <2>6 DEF RunOK
  <2> QED BY <1>1, <1>3, <2>1, <2>5, <2>7, QuietKeeps DEF UInv
<1>5. CASE r.todo # <<>>
  <2> DEFINE s == Head(r.todo)
             file == files[s]
  <2>1. s \in Source /\ Tail(r.todo) \in {Tail(Order), <<>>}
    BY <1>2, <1>5, SourcesToDo DEF Bootstrapping
  <2>2. FileOK(file)
    BY <2>1 DEF UInv, FilesOK
  <2>3. CASE ~file.exists
    <3>1. Step(Collector, Idle) /\ UNCHANGED <<skipped, committed>>
      BY <1>5, <2>3 DEF Bootstrap
    <3> QED BY <1>1, <1>2, <1>3, <3>1, CollectorRuns
  <2>4. CASE file.exists
    <3>1. /\ Step(Collector, [pc |-> "bootstrap", todo |-> Tail(r.todo), read |-> Over([t \in {s} |-> CursorAt(file)], r.read)])
          /\ UNCHANGED committed /\ skipped' = skipped \cup {<<s, file.id, i>> : i \in 1..Complete(file)}
      BY <1>5, <2>4 DEF Bootstrap
    <3>2. PICK todo, read, cursor, src, f :
            /\ todo = Tail(r.todo) /\ cursor = CursorAt(file) /\ src = s /\ f = file
            /\ read = Over([t \in {src} |-> cursor], r.read)
      OBVIOUS
    <3>3. PICK next : next = [pc |-> "bootstrap", todo |-> todo, read |-> read]
      OBVIOUS
    <3>4. /\ next.pc = "bootstrap" /\ next.todo = todo /\ next.read = read
          /\ next = [pc |-> next.pc, todo |-> next.todo, read |-> next.read]
      BY <3>3
    <3>5. Step(Collector, next) /\ skipped \subseteq skipped' /\ UNCHANGED committed
      BY <3>1, <3>2, <3>3
    <3> HIDE DEF s, file, r
    <3>6. CursorOK(cursor, f) /\ Covered(cursor, src, f, {})'
      <4>1. \A i \in 1..Complete(f) : <<src, f.id, i>> \in skipped'
        BY <3>1, <3>2
      <4> QED BY <2>1, <2>2, <3>2, <4>1, BootstrapPasses
    <3>7. /\ DOMAIN read = {src} \cup DOMAIN r.read
          /\ \A t \in DOMAIN read : read[t] = IF t = src THEN cursor ELSE r.read[t]
      BY <3>2 DEF Over
    <3>8. SentOK(read)'
      <4>1. \A t \in DOMAIN r.read : t \in Source /\ CursorOK(r.read[t], files[t]) /\ Covered(r.read[t], t, files[t], {})
        BY <1>2 DEF Bootstrapping, SentOK
      <4>2. skipped \subseteq skipped' /\ DOMAIN stored \subseteq DOMAIN stored'
        BY <1>3, <3>5
      <4>3. ASSUME NEW t \in DOMAIN read PROVE t \in Source /\ CursorOK(read[t], files'[t]) /\ Covered(read[t], t, files[t], {})'
        <5>1. CASE t = src
          BY <1>1, <2>1, <3>2, <3>6, <3>7, <5>1 DEF file
        <5>2. CASE t # src
          <6>1. PICK c, g : c = r.read[t] /\ g = files[t]
            OBVIOUS
          <6>2. t \in DOMAIN r.read /\ read[t] = c /\ g = files'[t]
            BY <1>1, <3>7, <5>2, <6>1
          <6>3. t \in Source /\ CursorOK(c, g) /\ Covered(c, t, g, {})
            BY <4>1, <6>1, <6>2
          <6>4. Covered(c, t, g, {})'
            BY <4>2, <6>3, SentGrows
          <6> QED BY <6>2, <6>3, <6>4
        <5> QED BY <5>1, <5>2
      <4> QED BY <4>3 DEF SentOK
    <3>9. Bootstrapping(next)'
      BY <2>1, <3>2, <3>4, <3>8 DEF Bootstrapping
    <3> QED BY <1>1, <1>2, <1>3, <3>4, <3>5, <3>9, CollectorRuns
  <2> QED BY <2>3, <2>4
<1> QED BY <1>4, <1>5
(* The state file is damaged between two runs, and set aside. *)
LEMMA DamageKeeps == ASSUME UInv, Damage \/ Quarantine PROVE UInv'
<1>1. /\ UNCHANGED <<past, files, coming, skipped, run, stored>>
      /\ committed' = [committed EXCEPT ![Collector] = committed'[Collector]]
      /\ \/ committed'[Collector] = Damaged /\ run[Collector] = Idle
         \/ committed'[Collector] = NoFile
  BY DEF Damage, Quarantine, Quiet, UInv, CommittedOK
<1>2. PastOK' /\ FilesOK' /\ StoredOnce'
  <2>1. StoredOnce'
    BY <1>1 DEF UInv, StoredOnce
  <2> QED BY <1>1, <2>1, QuietKeeps
<1>3. CommittedOK'
  <2>1. committed' = [p \in {Collector, Pipeline} |-> committed'[p]]
    BY <1>1 DEF UInv, CommittedOK
  <2> QED BY <1>1, <2>1 DEF CommittedOK
<1>4. RunOK'
  <2>1. run' = [p \in {Collector, Pipeline} |-> run'[p]]
    BY <1>1 DEF UInv, RunOK
  <2>2. committed'[Collector] = Damaged => run[Collector] = Idle
    BY <1>1 DEF NoFile, Damaged
  <2> QED BY <1>1, <2>1, <2>2, QuietKeeps
<1> QED BY <1>2, <1>3, <1>4 DEF UInv

(* A step that leaves the Collector and its state file alone. *)
LEMMA OthersKeep ==
  ASSUME UInv, UNCHANGED <<past, files, coming, skipped>>, DOMAIN stored \subseteq DOMAIN stored', StoredOnce',
         committed' = [p \in {Collector, Pipeline} |-> committed'[p]], committed'[Collector] = committed[Collector],
         run' = [p \in {Collector, Pipeline} |-> run'[p]], run'[Collector] = run[Collector]
  PROVE  UInv'
<1>1. skipped \subseteq skipped'
  OBVIOUS
<1>2. PastOK' /\ FilesOK' /\ CommittedOK' /\ RunOK'
  BY <1>1, QuietKeeps
<1> QED BY <1>2 DEF UInv

(* A step of the pipeline, and what was neither read nor stored. *)
LEMMA PipelineSteps ==
  ASSUME UInv, NEW r, Step(Pipeline, r)
  PROVE  run' = [p \in {Collector, Pipeline} |-> run'[p]] /\ run'[Collector] = run[Collector]
BY DEF UInv, RunOK, Step, Collector, Pipeline

(* The pipeline's steps: of the server they change what a batch adds. *)
LEMMA PipelineKeeps == ASSUME UInv, PipelineStep PROVE UInv'
<1>1. UNCHANGED <<past, files, coming, skipped>> /\ \E r : Step(Pipeline, r)
  BY DEF PipelineStep, StartPipeline, ReadPipeline, Send, SavePipeline, Post, Quiet
<1>2. run' = [p \in {Collector, Pipeline} |-> run'[p]] /\ run'[Collector] = run[Collector]
  BY <1>1, PipelineSteps
<1>3. committed' = [p \in {Collector, Pipeline} |-> committed'[p]] /\ committed'[Collector] = committed[Collector]
  BY DEF PipelineStep, StartPipeline, ReadPipeline, Send, SavePipeline, Post, UInv, CommittedOK, Collector, Pipeline
<1>4. UNCHANGED stored \/ \E batch : stored' = Inserted(batch)
  BY DEF PipelineStep, StartPipeline, ReadPipeline, Send, SavePipeline, Post
<1>5. StoredOnce' /\ DOMAIN stored \subseteq DOMAIN stored'
  <2>1. CASE UNCHANGED stored
    BY <2>1 DEF UInv, StoredOnce
  <2>2. ASSUME NEW batch, stored' = Inserted(batch) PROVE StoredOnce' /\ DOMAIN stored \subseteq DOMAIN stored'
    BY <2>2, BatchStored DEF UInv
  <2> QED BY <1>4, <2>1, <2>2
<1> QED BY <1>1, <1>2, <1>3, <1>5, OthersKeep

(* A program is killed, at any step. *)
LEMMA CrashKeeps == ASSUME UInv, NEW p \in past.programs, Crash(p) PROVE UInv'
<1>1. /\ p \in {Collector, Pipeline} /\ Step(p, Idle) /\ UNCHANGED <<past, files, coming, skipped, stored>>
      /\ committed' = committed \/ (p = Pipeline /\ committed' = [committed EXCEPT ![p] = NoFile])
  BY DEF Crash, Quiet, UInv, PastOK
<1>2. StoredOnce' /\ DOMAIN stored \subseteq DOMAIN stored' /\ skipped \subseteq skipped' /\ Idle.pc = "idle"
  BY <1>1 DEF UInv, StoredOnce, Idle
<1>3. CASE p = Collector
  <2>1. UNCHANGED committed
    BY <1>1, <1>3 DEF Collector, Pipeline
  <2> QED BY <1>1, <1>2, <1>3, <2>1, CollectorRuns
<1>4. CASE p = Pipeline
  <2>1. run' = [q \in {Collector, Pipeline} |-> run'[q]] /\ run'[Collector] = run[Collector]
    BY <1>1, <1>4, PipelineSteps
  <2>2. committed' = [q \in {Collector, Pipeline} |-> committed'[q]] /\ committed'[Collector] = committed[Collector]
    BY <1>1, <1>4 DEF UInv, CommittedOK, Collector, Pipeline
  <2> QED BY <1>1, <1>2, <2>1, <2>2, OthersKeep
<1> QED BY <1>1, <1>3, <1>4

(* What the parameters say of what there is to begin with. *)
LEMMA PastsAre ==
  ASSUME NEW p \in Pasts
  PROVE  /\ p.programs \subseteq {Collector, Pipeline} /\ p.halves \in BOOLEAN
         /\ \A s \in Source : p.old[s] \in Seq(Lines) /\ p.lines[s] \in Seq(Lines)
         /\ p.lines = [s \in Source |-> p.lines[s]]
<1>1. \A s \in Source : \A lines \in {p.old[s], p.lines[s]} : lines \in Seq(Range(lines))
  BY UploadsAssumption
<1>2. \A s \in Source : Range(p.old[s]) \subseteq Lines /\ Range(p.lines[s]) \subseteq Lines
  <2> SUFFICES ASSUME NEW s \in Source PROVE Range(p.old[s]) \cup Range(p.lines[s]) \subseteq Lines
    OBVIOUS
  <2>1. Range(p.old[s]) \cup Range(p.lines[s]) \subseteq LinesOf(p)
    BY DEF LinesOf
  <2>2. LinesOf(p) \subseteq Lines
    BY DEF Lines
  <2> QED BY <2>1, <2>2
<1>3. \A s \in Source : p.old[s] \in Seq(Lines) /\ p.lines[s] \in Seq(Lines)
  BY <1>1, <1>2
<1> QED BY <1>3, UploadsAssumption

(* To begin with nothing is read, sent or saved. *)
LEMMA UploadsBegin == ASSUME Init PROVE UInv
<1>1. PastOK
  BY UploadsAssumption, PastsAre DEF Init, PastOK
<1>2. FilesOK
  <2>1. files = [s \in Source |-> files[s]] /\ coming = [s \in Source |-> coming[s]]
    BY PastsAre DEF Init
  <2>2. ASSUME NEW s \in Source PROVE FileOK(files[s]) /\ coming[s] \in Seq(Lines)
    <3>1. past.old[s] \in Seq(Lines) /\ coming[s] \in Seq(Lines) /\ files[s] = File(TRUE, <<1, 0>>, past.old[s], FALSE, 0)
      BY PastsAre DEF Init
    <3> DEFINE new == files[s]
    <3>2. new.exists \in BOOLEAN /\ new.id = <<1, 0>> /\ new.lines = past.old[s] /\ ~new.half /\ new.half \in BOOLEAN
      BY <3>1 DEF File
    <3>3. new = [exists |-> new.exists, id |-> new.id, lines |-> new.lines, half |-> new.half, writes |-> new.writes]
      BY <3>1 DEF File
    <3> HIDE DEF new
    <3>4. FileOK(new)
      BY <3>1, <3>2, <3>3 DEF FileOK
    <3> QED BY <3>1, <3>4 DEF new
  <2> QED BY <2>1, <2>2 DEF FilesOK
<1>3. CommittedOK
  BY DEF Init, CommittedOK
<1>4. RunOK
  <2>1. run = [p \in {Collector, Pipeline} |-> Idle] /\ committed[Collector] # Damaged /\ Idle.pc = "idle"
    BY DEF Init, NoFile, Damaged, Idle, Collector, Pipeline
  <2> QED BY <2>1 DEF RunOK, Collector, Pipeline
<1>5. StoredOnce
  BY DEF Init, StoredOnce
<1> QED BY <1>1, <1>2, <1>3, <1>4, <1>5 DEF UInv

(* Every step keeps the invariant. *)
LEMMA UploadsStep == ASSUME UInv, [Next]_vars PROVE UInv'
<1>1. ASSUME NEW s \in Source, WriteLine(s) \/ FinishLine(s) \/ ReplaceFile(s) \/ EmptyFile(s) PROVE UInv'
  BY <1>1, WriteLineKeeps, FinishLineKeeps, NewFileKeeps
<1>2. ASSUME CollectorStep \/ BeginBootstrap \/ Damage \/ Quarantine PROVE UInv'
  BY <1>2, BeginKeeps, ReadKeeps, SendKeeps, SaveKeeps, PostKeeps, BootstrapKeeps, BeginBootstrapKeeps, DamageKeeps
     DEF CollectorStep
<1>3. ASSUME PipelineStep PROVE UInv'
  BY <1>3, PipelineKeeps
<1>4. ASSUME NEW p \in past.programs, Crash(p) PROVE UInv'
  BY <1>4, CrashKeeps
<1>5. ASSUME Reporting \/ Cutover \/ UNCHANGED vars PROVE UInv'
  <2>1. UNCHANGED <<past, files, coming, skipped, committed, run, stored>>
    BY <1>5 DEF Reporting, Cutover, vars
  <2>2. /\ committed' = [p \in {Collector, Pipeline} |-> committed'[p]]
        /\ run' = [p \in {Collector, Pipeline} |-> run'[p]] /\ StoredOnce'
    BY <2>1 DEF UInv, CommittedOK, RunOK, StoredOnce
  <2> QED BY <2>1, <2>2, OthersKeep
<1> QED BY <1>1, <1>2, <1>3, <1>4, <1>5 DEF Next

(* Whatever the lines are, however small the batches, and whatever fails:  *)
(* positions pass only what was sent or is still to be sent by the run     *)
(* that holds them, and every key has one row.                             *)
THEOREM UploadsHold == Spec => []UInv
<1>1. Init => UInv
  BY UploadsBegin
<1>2. UInv /\ [Next]_vars => UInv'
  BY UploadsStep
<1> QED BY <1>1, <1>2, PTL DEF Spec

(* A line that the Collector's saved position has passed is on the server, *)
(* with one row, for every sequence of lines, batches and failures.        *)
THEOREM UploadedOnceAlways == Spec => []UploadedOnce
<1>1. UInv => UploadedOnce
  <2> SUFFICES ASSUME UInv PROVE UploadedOnce
    OBVIOUS
  <2>1. StoredOnce
    BY DEF UInv
  <2>2. ASSUME committed[Collector].kind = "saved", NEW s \in DOMAIN committed[Collector].at,
               committed[Collector].at[s].id = files[s].id,
               NEW i \in 1..(committed[Collector].at[s].at \div 2), files[s].lines[i].dated
        PROVE  Sent(s, files[s], i)
    <3>1. committed[Collector] \notin {NoFile, Damaged}
      BY <2>2 DEF NoFile, Damaged
    <3>2. SentOK(committed[Collector].at)
      BY <3>1 DEF UInv, CommittedOK
    <3>3. Covered(committed[Collector].at[s], s, files[s], {})
      BY <2>2, <3>2 DEF SentOK
    <3> QED BY <2>2, <3>3 DEF Covered
  <2>3. NothingPassed
    BY <2>2 DEF NothingPassed
  <2> QED BY <2>1, <2>3 DEF UploadedOnce
<1> QED BY <1>1, UploadsHold, PTL
-----------------------------------------------------------------------------
(* What the customer is shown.                                             *)

Distinct(seq) == \A i, j \in DOMAIN seq : seq[i].id = seq[j].id => i = j
Reported == [id : Nat, report : [health : {"healthy", "error"}, schedule : {Absent, "healthy", "task_missing", "query_failed"}]]
AnyKey == [id : Nat, report : [health : {"healthy", "error", Absent}, schedule : {Absent, "healthy", "task_missing", "query_failed"}]]

(* The keys that have reported come first, in the order of their last      *)
(* reports.                                                                *)
StatusOK ==
  /\ LegacyStatus = told.row /\ told = [row |-> told.row, keys |-> told.keys]
  /\ keys \in Seq(AnyKey) /\ Distinct(keys) /\ told.keys \in Seq(Reported) /\ Distinct(told.keys)
  /\ issued \in Nat
  /\ \A i \in DOMAIN keys : keys[i].id <= issued
  /\ \A n \in DOMAIN told.keys : told.keys[n].id <= issued
KeyTold(i) ==
  \/ keys[i].report = Unasked /\ \A n \in DOMAIN told.keys : told.keys[n].id # keys[i].id
  \/ \E n \in DOMAIN told.keys : told.keys[n] = keys[i]
InOrder ==
  \A i, j \in DOMAIN keys, n \in DOMAIN told.keys :
    i < j /\ told.keys[n].id = keys[j].id => \E m \in DOMAIN told.keys : m < n /\ told.keys[m].id = keys[i].id
SInv == StatusOK /\ (\A i \in DOMAIN keys : KeyTold(i)) /\ InOrder

(* Where the elements without k of a sequence are in another that keeps    *)
(* them, in their order, and has no others from its position `past` on.    *)
Kept(seq, new, k, from) ==
  \E was \in [from..Len(new) -> DOMAIN seq] :
    /\ \A x, y \in from..Len(new) : x < y => was[x] < was[y]
    /\ \A x \in from..Len(new) : new[x] = seq[was[x]] /\ new[x].id # k
    /\ \A j \in DOMAIN seq : seq[j].id # k => \E x \in from..Len(new) : was[x] = j

(* The others keep their order. *)
LEMMA OthersAre ==
  ASSUME NEW S, NEW seq \in Seq(S), Distinct(seq), NEW k
  PROVE  Others(seq, k) \in Seq(S) /\ Kept(seq, Others(seq, k), k, 1)
<1> DEFINE new == Others(seq, k)
           L   == Len(seq)
<1>1. L \in Nat /\ DOMAIN seq = 1..L /\ \A i \in 1..L : seq[i] \in S
  OBVIOUS
<1>2. CASE \A i \in DOMAIN seq : seq[i].id # k
  <2>1. new = seq
    BY <1>2 DEF Others
  <2> DEFINE was == [x \in 1..L |-> x]
  <2>2. was \in [1..L -> DOMAIN seq] /\ \A x \in 1..L : was[x] = x
    BY <1>1
  <2> HIDE DEF was
  <2> QED BY <1>1, <1>2, <2>1, <2>2 DEF Kept
<1>3. CASE \E i \in DOMAIN seq : seq[i].id = k
  <2>1. PICK p : p = CHOOSE i \in DOMAIN seq : seq[i].id = k
    OBVIOUS
  <2>2. p \in 1..L /\ seq[p].id = k /\ \A i \in 1..L : seq[i].id = k => i = p
    BY <1>1, <1>3, <2>1 DEF Distinct
  <2>3. new = SubSeq(seq, 1, p - 1) \o SubSeq(seq, p + 1, L)
    BY <1>3, <2>1 DEF Others, RemoveAt
  <2> DEFINE a == SubSeq(seq, 1, p - 1)
             b == SubSeq(seq, p + 1, L)
  <2>4. a \in Seq(S) /\ Len(a) = p - 1 /\ \A x \in 1..(p - 1) : a[x] = seq[x]
    <3>1. p - 1 \in Int /\ \A i \in 1..(p - 1) : seq[i] \in S
      BY <1>1, <2>2
    <3>2. a \in Seq(S) /\ Len(a) = IF 1 <= p - 1 THEN p - 1 - 1 + 1 ELSE 0
      BY <3>1, SubSeqProperties
    <3>3. \A x \in 1..(p - 1 - 1 + 1) : a[x] = seq[1 + x - 1]
      BY <3>1, SubSeqProperties
    <3> HIDE DEF a
    <3> QED BY <2>2, <3>2, <3>3
  <2>5. b \in Seq(S) /\ Len(b) = L - p /\ \A x \in 1..(L - p) : b[x] = seq[p + x]
    <3>1. p + 1 \in Int /\ L \in Int /\ \A i \in (p + 1)..L : seq[i] \in S
      BY <1>1, <2>2
    <3>2. b \in Seq(S) /\ Len(b) = IF p + 1 <= L THEN L - (p + 1) + 1 ELSE 0
      BY <3>1, SubSeqProperties
    <3>3. \A x \in 1..(L - (p + 1) + 1) : b[x] = seq[p + 1 + x - 1]
      BY <3>1, SubSeqProperties
    <3>4. \A x \in 1..(L - p) : x \in 1..(L - (p + 1) + 1) /\ p + 1 + x - 1 = p + x
      BY <1>1, <2>2
    <3> HIDE DEF b, L
    <3>5. Len(b) = L - p
      BY <1>1, <2>2, <3>2
    <3>6. \A x \in 1..(L - p) : b[x] = seq[p + x]
      BY <3>3, <3>4
    <3> QED BY <3>2, <3>5, <3>6
  <2> HIDE DEF a, b, new, L
  <2>6. /\ new \in Seq(S) /\ Len(new) = L - 1
        /\ \A x \in 1..(L - 1) : new[x] = IF x <= p - 1 THEN a[x] ELSE b[x - (p - 1)]
    <3>1. new = a \o b
      BY <2>3 DEF a, b
    <3>2. Len(a) + Len(b) = L - 1
      BY <1>1, <2>2, <2>4, <2>5
    <3>3. new \in Seq(S) /\ Len(new) = Len(a) + Len(b)
      BY <2>4, <2>5, <3>1, ConcatProperties
    <3>4. \A x \in 1..(Len(a) + Len(b)) : new[x] = IF x <= Len(a) THEN a[x] ELSE b[x - Len(a)]
      BY <2>4, <2>5, <3>1, ConcatProperties
    <3> QED BY <2>4, <3>2, <3>3, <3>4
  <2> DEFINE was == [x \in 1..(L - 1) |-> IF x < p THEN x ELSE x + 1]
  <2>7. was \in [1..(L - 1) -> 1..L] /\ \A x \in 1..(L - 1) : was[x] = IF x < p THEN x ELSE x + 1
    BY <1>1, <2>2
  <2> HIDE DEF was
  <2>8. \A x, y \in 1..(L - 1) : x < y => was[x] < was[y]
    BY <1>1, <2>2, <2>7
  <2>9. ASSUME NEW x \in 1..(L - 1) PROVE new[x] = seq[was[x]] /\ new[x].id # k
    <3>1. CASE x < p
      <4>1. x \in 1..(p - 1) /\ x <= p - 1 /\ was[x] = x /\ x \in 1..L /\ x # p
        BY <1>1, <2>2, <2>7, <3>1
      <4> QED BY <2>2, <2>4, <2>6, <4>1
    <3>2. CASE ~(x < p)
      <4>1. ~(x <= p - 1) /\ x - (p - 1) \in 1..(L - p) /\ was[x] = x + 1 /\ x + 1 \in 1..L /\ x + 1 # p
            /\ p + (x - (p - 1)) = x + 1
        BY <1>1, <2>2, <2>7, <3>2
      <4>2. new[x] = b[x - (p - 1)] /\ b[x - (p - 1)] = seq[x + 1]
        BY <2>5, <2>6, <4>1
      <4> QED BY <2>2, <4>1, <4>2
    <3> QED BY <3>1, <3>2
  <2>10. ASSUME NEW j \in 1..L, seq[j].id # k PROVE \E x \in 1..(L - 1) : was[x] = j
    <3>1. j # p
      BY <2>2, <2>10
    <3>2. CASE j < p
      <4>1. j \in 1..(L - 1) /\ was[j] = j
        BY <1>1, <2>2, <2>7, <3>2
      <4> QED BY <4>1
    <3>3. CASE p < j
      <4>1. j - 1 \in 1..(L - 1) /\ was[j - 1] = j
        BY <1>1, <2>2, <2>7, <3>3
      <4> QED BY <4>1
    <3> QED BY <1>1, <2>2, <3>1, <3>2, <3>3
  <2>11. Kept(seq, new, k, 1)
    <3>1. was \in [1..Len(new) -> DOMAIN seq]
      BY <1>1, <2>6, <2>7
    <3>2. \A x, y \in 1..Len(new) : x < y => was[x] < was[y]
      BY <2>6, <2>8
    <3>3. \A x \in 1..Len(new) : new[x] = seq[was[x]] /\ new[x].id # k
      BY <2>6, <2>9
    <3>4. \A j \in DOMAIN seq : seq[j].id # k => \E x \in 1..Len(new) : was[x] = j
      BY <1>1, <2>6, <2>10
    <3> QED BY <3>1, <3>2, <3>3, <3>4, Zenon DEF Kept
  <2> QED BY <2>6, <2>11 DEF new
<1> QED BY <1>2, <1>3

(* An element before the others. *)
LEMMA FirstAndOthers ==
  ASSUME NEW S, NEW seq \in Seq(S), Distinct(seq), NEW e \in S, NEW k, e.id = k
  PROVE  /\ <<e>> \o Others(seq, k) \in Seq(S) /\ (<<e>> \o Others(seq, k))[1] = e
         /\ Len(<<e>> \o Others(seq, k)) \in Nat \ {0}
         /\ Kept(seq, <<e>> \o Others(seq, k), k, 2)
<1> DEFINE q == Others(seq, k)
           new == <<e>> \o q
<1>1. q \in Seq(S) /\ Kept(seq, q, k, 1) /\ Len(q) \in Nat
  BY OthersAre
<1> HIDE DEF q
<1>2. <<e>> \in Seq(S) /\ Len(<<e>>) = 1 /\ <<e>>[1] = e
  OBVIOUS
<1>3. /\ new \in Seq(S) /\ Len(new) = Len(q) + 1 /\ new[1] = e
      /\ \A x \in 2..(Len(q) + 1) : new[x] = q[x - 1]
  <2>1. new \in Seq(S) /\ Len(new) = 1 + Len(q) /\ \A x \in 1..(1 + Len(q)) : new[x] = IF x <= 1 THEN <<e>>[x] ELSE q[x - 1]
    BY <1>1, <1>2, ConcatProperties
  <2> HIDE DEF new
  <2> QED BY <1>1, <1>2, <2>1
<1> HIDE DEF new
<1>4. PICK was \in [1..Len(q) -> DOMAIN seq] :
        /\ \A x, y \in 1..Len(q) : x < y => was[x] < was[y]
        /\ \A x \in 1..Len(q) : q[x] = seq[was[x]] /\ q[x].id # k
        /\ \A j \in DOMAIN seq : seq[j].id # k => \E x \in 1..Len(q) : was[x] = j
  BY <1>1 DEF Kept
<1> DEFINE now == [x \in 2..(Len(q) + 1) |-> was[x - 1]]
<1>5. \A x \in 2..(Len(q) + 1) : x - 1 \in 1..Len(q) /\ now[x] = was[x - 1]
  BY <1>1
<1>6. now \in [2..(Len(q) + 1) -> DOMAIN seq]
  BY <1>5
<1> HIDE DEF now
<1>7. \A x, y \in 2..(Len(q) + 1) : x < y => now[x] < now[y]
  <2> SUFFICES ASSUME NEW x \in 2..(Len(q) + 1), NEW y \in 2..(Len(q) + 1), x < y PROVE now[x] < now[y]
    OBVIOUS
  <2>1. x - 1 < y - 1
    BY <1>1
  <2> QED BY <1>4, <1>5, <2>1
<1>8. \A x \in 2..(Len(q) + 1) : new[x] = seq[now[x]] /\ new[x].id # k
  BY <1>3, <1>4, <1>5
<1>9. ASSUME NEW j \in DOMAIN seq, seq[j].id # k PROVE \E x \in 2..(Len(q) + 1) : now[x] = j
  <2>1. PICK x \in 1..Len(q) : was[x] = j
    BY <1>4, <1>9
  <2>2. x + 1 \in 2..(Len(q) + 1) /\ (x + 1) - 1 = x
    BY <1>1
  <2>3. now[x + 1] = j
    BY <1>5, <2>1, <2>2
  <2> QED BY <2>2, <2>3
<1>10. Kept(seq, new, k, 2)
  <2>1. now \in [2..Len(new) -> DOMAIN seq]
    BY <1>3, <1>6
  <2>2. \A x, y \in 2..Len(new) : x < y => now[x] < now[y]
    BY <1>3, <1>7
  <2>3. \A x \in 2..Len(new) : new[x] = seq[now[x]] /\ new[x].id # k
    BY <1>3, <1>8
  <2>4. \A j \in DOMAIN seq : seq[j].id # k => \E x \in 2..Len(new) : now[x] = j
    BY <1>3, <1>9
  <2> QED BY <2>1, <2>2, <2>3, <2>4, Zenon DEF Kept
<1> QED BY <1>1, <1>3, <1>10 DEF new, q
(* Of what a sequence keeps, the ids are still different ones. *)
LEMMA KeptDistinct ==
  ASSUME NEW S, NEW seq \in Seq(S), Distinct(seq), NEW new, NEW k, NEW from \in Nat, Kept(seq, new, k, from), Len(new) \in Nat
  PROVE  \A x, y \in from..Len(new) : new[x].id = new[y].id => x = y
<1>1. PICK was \in [from..Len(new) -> DOMAIN seq] :
        /\ \A x, y \in from..Len(new) : x < y => was[x] < was[y]
        /\ \A x \in from..Len(new) : new[x] = seq[was[x]] /\ new[x].id # k
  BY DEF Kept
<1>2. \A i \in DOMAIN seq : i \in Nat
  OBVIOUS
<1> SUFFICES ASSUME NEW x \in from..Len(new), NEW y \in from..Len(new), new[x].id = new[y].id PROVE x = y
  OBVIOUS
<1>3. was[x] = was[y] /\ was[x] \in Nat
  BY <1>1, <1>2 DEF Distinct
<1>4. ~(x < y) /\ ~(y < x)
  <2>1. ~(was[x] < was[y]) /\ ~(was[y] < was[x])
    BY <1>3
  <2> QED BY <1>1, <2>1
<1> QED BY <1>4

(* The keys to show are in the order of the reports. *)
LEMMA StatusShown == ASSUME SInv PROVE ShownIsLastReport
<1>1. CASE ~cutover
  BY <1>1 DEF ShownIsLastReport, Shown, SInv, StatusOK
<1>2. CASE cutover
  <2> DEFINE live == {n \in DOMAIN told.keys : \E i \in DOMAIN keys : keys[i].id = told.keys[n].id}
             least == CHOOSE n \in live : \A m \in live : n <= m
  <2>1. /\ keys \in Seq(AnyKey) /\ told.keys \in Seq(Reported) /\ Distinct(told.keys)
        /\ DOMAIN keys = 1..Len(keys) /\ DOMAIN told.keys = 1..Len(told.keys) /\ Len(keys) \in Nat
    BY DEF SInv, StatusOK
  <2>2. CASE live = {}
    <3>1. CurrentStatus = "unknown"
      <4>1. CASE keys = <<>>
        BY <4>1 DEF CurrentStatus
      <4>2. CASE keys # <<>>
        <5>1. 1 \in DOMAIN keys
          BY <2>1, <4>2, EmptySeq
        <5>2. keys[1].report = Unasked
          BY <2>2, <5>1 DEF SInv, KeyTold
        <5>3. Unasked.health = Absent /\ Unasked.schedule = Absent
          BY DEF Unasked
        <5> QED BY <4>2, <5>2, <5>3 DEF CurrentStatus, StateForCurrent, StateForHealth, Absent
      <4> QED BY <4>1, <4>2
    <3> QED BY <1>2, <2>2, <3>1 DEF ShownIsLastReport, Shown
  <2>3. CASE live # {}
    <3>1. live \in SUBSET Nat
      BY <2>1
    <3>2. least \in live /\ \A m \in live : least <= m
      <4>1. \E n \in live : \A m \in live : n <= m
        <5> HIDE DEF live
        <5> QED BY <2>3, <3>1, LeastNumber
      <4> HIDE DEF live
      <4> QED BY <4>1
    <3>3. PICK n : n = least
      OBVIOUS
    <3>4. /\ n \in DOMAIN told.keys /\ n \in live /\ \A m \in live : n <= m
      BY <3>2, <3>3
    <3>5. PICK j \in DOMAIN keys : keys[j].id = told.keys[n].id
      BY <3>4
    <3>6. 1 \in DOMAIN keys /\ j \in Nat /\ 1 <= j /\ keys # <<>>
      BY <2>1, <3>5
    <3>7. j = 1
      <4>1. SUFFICES ASSUME 1 < j PROVE FALSE
        BY <3>6
      <4>2. PICK m \in DOMAIN told.keys : m < n /\ told.keys[m].id = keys[1].id
        BY <3>4, <3>5, <3>6, <4>1 DEF SInv, InOrder
      <4>3. m \in live
        BY <3>6, <4>2
      <4>4. m \in Nat /\ n \in Nat
        BY <2>1, <3>4
      <4> QED BY <3>4, <4>2, <4>3, <4>4
    <3>8. told.keys[n] = keys[1]
      BY <2>1, <3>4, <3>5, <3>6, <3>7 DEF SInv, KeyTold, Distinct
    <3>9. told.keys[n].report \in [health : {"healthy", "error"}, schedule : {Absent, "healthy", "task_missing", "query_failed"}]
      <4>1. told.keys[n] \in Reported
        BY <2>1, <3>4
      <4> QED BY <4>1 DEF Reported
    <3>10. PICK report : report = told.keys[n].report
      OBVIOUS
    <3>11. StateForCurrent(report) = WorstOf(report)
      <4>1. report.health \in {"healthy", "error"} /\ report.schedule \in {Absent, "healthy", "task_missing", "query_failed"}
        BY <3>9, <3>10
      <4> DEFINE health == StateForHealth(report.health)
      <4>2. health \in {"ok", "failed"}
        BY <4>1 DEF StateForHealth
      <4>3. /\ Severity["ok"] = 1 /\ Severity["degraded"] = 2 /\ Severity["failed"] = 3
        BY DEF Severity
      <4> HIDE DEF health
      <4>4. CASE report.schedule \in {Absent, "healthy"}
        <5>1. StateForCurrent(report) = health
          <6>1. CASE report.schedule = Absent
            BY <6>1 DEF StateForCurrent, health, Absent
          <6>2. CASE report.schedule = "healthy"
            BY <6>2 DEF StateForCurrent, health, Absent
          <6> QED BY <4>4, <6>1, <6>2
        <5>2. WorstOf(report) = CHOOSE state \in {health} : \A other \in {health} : Severity[state] >= Severity[other]
          BY <4>4 DEF WorstOf, health, Absent
        <5>3. Severity[health] >= Severity[health]
          BY <4>2, <4>3
        <5> QED BY <5>1, <5>2, <5>3
      <4>5. CASE report.schedule = "task_missing"
        <5>1. StateForCurrent(report) = "failed"
          BY <4>5, <4>2, <4>3 DEF StateForCurrent, Worse, health, Absent
        <5>2. WorstOf(report) = CHOOSE state \in {"failed", health} : \A other \in {"failed", health} : Severity[state] >= Severity[other]
          BY <4>5 DEF WorstOf, health
        <5> QED BY <4>2, <4>3, <5>1, <5>2
      <4>6. CASE report.schedule = "query_failed"
        <5>1. StateForCurrent(report) = IF health = "ok" THEN "degraded" ELSE "failed"
          BY <4>6, <4>2, <4>3 DEF StateForCurrent, Worse, health, Absent
        <5>2. WorstOf(report) = CHOOSE state \in {"degraded", health} : \A other \in {"degraded", health} : Severity[state] >= Severity[other]
          BY <4>6 DEF WorstOf, health
        <5> QED BY <4>2, <4>3, <5>1, <5>2
      <4> QED BY <4>1, <4>4, <4>5, <4>6
    <3>12. CurrentStatus = StateForCurrent(report)
      BY <3>6, <3>8, <3>10 DEF CurrentStatus
    <3>13. Shown = WorstOf(told.keys[least].report)
      BY <1>2, <3>3, <3>10, <3>11, <3>12 DEF Shown
    <3>14. ShownIsLastReport <=> Shown = IF live = {} THEN "unknown" ELSE WorstOf(told.keys[least].report)
      BY <1>2 DEF ShownIsLastReport
    <3> HIDE DEF live, least
    <3> QED BY <2>3, <3>13, <3>14
  <2> QED BY <2>2, <2>3
<1> QED BY <1>1, <1>2
(* A report for the row, which carries one of the two signals. *)
LEMMA AcceptKeeps ==
  ASSUME SInv, NEW value, Accept([run |-> value]) \/ Accept([health |-> value])
  PROVE  SInv'
<1>1. UNCHANGED <<keys, issued>> /\ told'.keys = told.keys /\ told' = [row |-> told'.row, keys |-> told'.keys]
  BY DEF Accept, SInv, StatusOK
<1>2. LegacyStatus' = told'.row
  <2>1. CASE Accept([run |-> value])
    <3> DEFINE report == [run |-> value]
    <3>1. "run" \in DOMAIN report /\ "health" \notin DOMAIN report /\ DOMAIN report = {"run"} /\ report.run = value
      OBVIOUS
    <3>2. row' = Upserted(report) /\ told' = [told EXCEPT !.row = IF "health" \in DOMAIN report THEN StateForHealth(report.health)
                                                                  ELSE StateForRun(report.run)]
      BY <2>1 DEF Accept
    <3> HIDE DEF report
    <3>3. row'.newest = {"run"} /\ row'.run = value
      BY <3>1, <3>2 DEF Upserted, Carried
    <3>4. told'.row = StateForRun(value)
      BY <3>1, <3>2 DEF SInv, StatusOK
    <3> QED BY <3>3, <3>4 DEF LegacyStatus
  <2>2. CASE Accept([health |-> value])
    <3> DEFINE report == [health |-> value]
    <3>1. "health" \in DOMAIN report /\ DOMAIN report = {"health"} /\ report.health = value
      OBVIOUS
    <3>2. row' = Upserted(report) /\ told' = [told EXCEPT !.row = IF "health" \in DOMAIN report THEN StateForHealth(report.health)
                                                                  ELSE StateForRun(report.run)]
      BY <2>2 DEF Accept
    <3> HIDE DEF report
    <3>3. row'.newest = {"health"} /\ row'.health = value
      BY <3>1, <3>2 DEF Upserted, Carried
    <3>4. told'.row = StateForHealth(value)
      BY <3>1, <3>2 DEF SInv, StatusOK
    <3> QED BY <3>3, <3>4 DEF LegacyStatus
  <2> QED BY <2>1, <2>2
<1> QED BY <1>1, <1>2 DEF SInv, StatusOK, KeyTold, InOrder

(* A key that is issued sorts last, and has not reported. *)
LEMMA IssueKeyKeeps == ASSUME SInv, NEW max, IssueKey(max) PROVE SInv'
<1> DEFINE key == [id |-> issued + 1, report |-> Unasked]
           n   == Len(keys)
<1>1. /\ UNCHANGED <<row, cutover, told>> /\ issued' = issued + 1 /\ keys' = Append(keys, key)
      /\ keys \in Seq(AnyKey) /\ Distinct(keys) /\ issued \in Nat /\ DOMAIN keys = 1..n /\ n \in Nat
      /\ \A i \in 1..n : keys[i].id \in Nat /\ keys[i].id <= issued
      /\ DOMAIN told.keys = 1..Len(told.keys) /\ \A m \in DOMAIN told.keys : told.keys[m].id \in Nat /\ told.keys[m].id <= issued
  <2>1. /\ keys \in Seq(AnyKey) /\ Distinct(keys) /\ issued \in Nat /\ told.keys \in Seq(Reported)
        /\ \A i \in DOMAIN keys : keys[i].id <= issued
        /\ \A m \in DOMAIN told.keys : told.keys[m].id <= issued
    BY DEF SInv, StatusOK
  <2>2. DOMAIN keys = 1..n /\ n \in Nat /\ DOMAIN told.keys = 1..Len(told.keys)
    BY <2>1
  <2>3. \A any \in AnyKey \cup Reported : any.id \in Nat
    BY DEF AnyKey, Reported
  <2>4. \A i \in 1..n : keys[i] \in AnyKey
    BY <2>1, <2>2
  <2>5. \A m \in DOMAIN told.keys : told.keys[m] \in Reported
    BY <2>1, <2>2
  <2> HIDE DEF n
  <2>6. UNCHANGED <<row, cutover, told>> /\ issued' = issued + 1 /\ keys' = Append(keys, key)
    BY DEF IssueKey
  <2> QED BY <2>1, <2>2, <2>3, <2>4, <2>5, <2>6
<1>2. n \in Nat
  BY <1>1
<1>3. key \in AnyKey /\ key.id = issued + 1 /\ key.report = Unasked
  BY <1>1 DEF AnyKey, Unasked
<1> HIDE DEF key
<1>4. /\ keys' \in Seq(AnyKey) /\ DOMAIN keys' = 1..(n + 1) /\ keys'[n + 1] = key
      /\ \A i \in 1..n : keys'[i] = keys[i]
  BY <1>1, <1>3
<1> HIDE DEF n
<1>5. Distinct(keys')
  <2> SUFFICES ASSUME NEW i \in 1..(n + 1), NEW j \in 1..(n + 1), keys'[i].id = keys'[j].id PROVE i = j
    BY <1>4 DEF Distinct
  <2>1. i \in 1..n \/ i = n + 1
    BY <1>2
  <2>2. j \in 1..n \/ j = n + 1
    BY <1>2
  <2> QED BY <1>1, <1>3, <1>4, <2>1, <2>2 DEF Distinct
<1>6. \A i \in DOMAIN keys' : keys'[i].id <= issued'
  <2> SUFFICES ASSUME NEW i \in 1..(n + 1) PROVE keys'[i].id <= issued'
    BY <1>4
  <2>1. i \in 1..n \/ i = n + 1
    BY <1>2
  <2> QED BY <1>1, <1>3, <1>4, <2>1
<1>7. StatusOK'
  <2>1. LegacyStatus' = LegacyStatus
    BY <1>1 DEF LegacyStatus
  <2>2. \A m \in DOMAIN told'.keys : told'.keys[m].id <= issued'
    BY <1>1
  <2> QED BY <1>1, <1>4, <1>5, <1>6, <2>1, <2>2 DEF SInv, StatusOK
<1>8. ASSUME NEW i \in DOMAIN keys' PROVE KeyTold(i)'
  <2>1. CASE i \in 1..n
    <3>1. KeyTold(i) /\ keys'[i] = keys[i]
      BY <1>1, <1>4, <2>1 DEF SInv
    <3> QED BY <1>1, <3>1 DEF KeyTold
  <2>2. CASE i = n + 1
    <3>1. \A m \in DOMAIN told.keys : told.keys[m].id # key.id
      BY <1>1, <1>3
    <3> QED BY <1>1, <1>3, <1>4, <2>2, <3>1 DEF KeyTold
  <2> QED BY <1>1, <1>4, <2>1, <2>2
<1>9. InOrder'
  <2> SUFFICES ASSUME NEW i \in 1..(n + 1), NEW j \in 1..(n + 1), NEW m \in DOMAIN told.keys,
                      i < j, told.keys[m].id = keys'[j].id
               PROVE  \E l \in DOMAIN told.keys : l < m /\ told.keys[l].id = keys'[i].id
    BY <1>1, <1>4 DEF InOrder
  <2>1. j # n + 1
    BY <1>1, <1>3, <1>4
  <2>2. i \in 1..n /\ j \in 1..n
    BY <1>1, <2>1
  <2>3. i \in DOMAIN keys /\ j \in DOMAIN keys /\ keys'[i] = keys[i] /\ keys'[j] = keys[j]
    BY <1>1, <1>4, <2>2
  <2>4. \E l \in DOMAIN told.keys : l < m /\ told.keys[l].id = keys[i].id
    BY <2>3 DEF SInv, InOrder
  <2> QED BY <2>3, <2>4
<1> QED BY <1>7, <1>8, <1>9 DEF SInv

(* A key is retired. *)
LEMMA RetireKeyKeeps == ASSUME SInv, RetireKey PROVE SInv'
<1>1. PICK i \in DOMAIN keys : keys' = Others(keys, keys[i].id) /\ UNCHANGED <<row, issued, cutover, told>>
  BY DEF RetireKey
<1>2. keys \in Seq(AnyKey) /\ Distinct(keys) /\ \A x \in DOMAIN keys : keys[x].id <= issued
  BY DEF SInv, StatusOK
<1>3. PICK k, new : k = keys[i].id /\ new = keys'
  OBVIOUS
<1>4. new \in Seq(AnyKey) /\ Kept(keys, new, k, 1)
  BY <1>1, <1>2, <1>3, OthersAre
<1>5. Len(new) \in Nat /\ DOMAIN new = 1..Len(new)
  BY <1>4
<1>6. PICK was \in [1..Len(new) -> DOMAIN keys] :
        /\ \A x, y \in 1..Len(new) : x < y => was[x] < was[y]
        /\ \A x \in 1..Len(new) : new[x] = keys[was[x]]
  BY <1>4 DEF Kept
<1>7. Distinct(new)
  BY <1>2, <1>4, <1>5, KeptDistinct DEF Distinct
<1>8. StatusOK'
  <2>1. LegacyStatus' = LegacyStatus
    BY <1>1 DEF LegacyStatus
  <2>2. \A x \in DOMAIN new : new[x].id <= issued
    BY <1>2, <1>5, <1>6
  <2> QED BY <1>1, <1>3, <1>4, <1>7, <2>1, <2>2 DEF SInv, StatusOK
<1>9. ASSUME NEW x \in DOMAIN new PROVE KeyTold(x)'
  <2>1. was[x] \in DOMAIN keys /\ new[x] = keys[was[x]] /\ KeyTold(was[x])
    BY <1>5, <1>6 DEF SInv
  <2> QED BY <1>1, <1>3, <2>1 DEF KeyTold
<1>10. InOrder'
  <2> SUFFICES ASSUME NEW x \in DOMAIN new, NEW y \in DOMAIN new, NEW m \in DOMAIN told.keys,
                      x < y, told.keys[m].id = new[y].id
               PROVE  \E l \in DOMAIN told.keys : l < m /\ told.keys[l].id = new[x].id
    BY <1>1, <1>3 DEF InOrder
  <2>1. /\ was[x] \in DOMAIN keys /\ was[y] \in DOMAIN keys /\ was[x] < was[y]
        /\ new[x] = keys[was[x]] /\ new[y] = keys[was[y]]
    BY <1>5, <1>6
  <2> QED BY <2>1 DEF SInv, InOrder
<1> QED BY <1>3, <1>8, <1>9, <1>10 DEF SInv

(* A key reports: it comes first among the keys and among the reports. *)
LEMMA KeyHeartbeatKeeps == ASSUME SInv, KeyHeartbeat PROVE SInv'
<1>1. PICK i \in DOMAIN keys, health \in {"healthy", "error"}, schedule \in {Absent, "healthy", "task_missing", "query_failed"} :
        LET report == [health |-> health, schedule |-> schedule]
            k == keys[i].id IN
        /\ keys' = <<[id |-> k, report |-> Snapshot(keys[i].report, report)]>> \o Others(keys, k)
        /\ told' = [told EXCEPT !.keys = <<[id |-> k, report |-> report]>> \o Others(@, k)]
        /\ UNCHANGED <<row, issued, cutover>>
  BY Zenon DEF KeyHeartbeat
<1>2. /\ keys \in Seq(AnyKey) /\ Distinct(keys) /\ \A x \in DOMAIN keys : keys[x].id \in Nat /\ keys[x].id <= issued
      /\ told.keys \in Seq(Reported) /\ Distinct(told.keys) /\ \A x \in DOMAIN told.keys : told.keys[x].id <= issued
      /\ told = [row |-> told.row, keys |-> told.keys] /\ issued \in Nat
  <2>1. /\ keys \in Seq(AnyKey) /\ Distinct(keys) /\ \A x \in DOMAIN keys : keys[x].id <= issued
        /\ told.keys \in Seq(Reported) /\ Distinct(told.keys) /\ \A x \in DOMAIN told.keys : told.keys[x].id <= issued
        /\ told = [row |-> told.row, keys |-> told.keys] /\ issued \in Nat
    BY DEF SInv, StatusOK
  <2>2. \A x \in DOMAIN keys : keys[x] \in AnyKey
    BY <2>1
  <2>3. \A x \in DOMAIN keys : keys[x].id \in Nat
    BY <2>2 DEF AnyKey
  <2> QED BY <2>1, <2>3
<1>3. PICK k, e, new, now : /\ k = keys[i].id /\ e = [id |-> k, report |-> [health |-> health, schedule |-> schedule]]
                            /\ new = keys' /\ now = told'.keys
  OBVIOUS
<1>4. /\ new = <<e>> \o Others(keys, k) /\ now = <<e>> \o Others(told.keys, k)
      /\ told' = [row |-> told.row, keys |-> now] /\ UNCHANGED <<row, issued, cutover>>
  BY <1>1, <1>2, <1>3 DEF Snapshot
<1>5. e \in AnyKey /\ e \in Reported /\ e.id = k /\ k <= issued
  BY <1>2, <1>3 DEF AnyKey, Reported
<1>6. /\ new \in Seq(AnyKey) /\ new[1] = e /\ Len(new) \in Nat \ {0} /\ Kept(keys, new, k, 2)
      /\ now \in Seq(Reported) /\ now[1] = e /\ Len(now) \in Nat \ {0} /\ Kept(told.keys, now, k, 2)
  <2>1. new \in Seq(AnyKey) /\ new[1] = e /\ Len(new) \in Nat \ {0} /\ Kept(keys, new, k, 2)
    <3>1. keys \in Seq(AnyKey) /\ Distinct(keys) /\ e \in AnyKey /\ e.id = k
      BY <1>2, <1>5
    <3>2. /\ <<e>> \o Others(keys, k) \in Seq(AnyKey) /\ (<<e>> \o Others(keys, k))[1] = e
          /\ Len(<<e>> \o Others(keys, k)) \in Nat \ {0} /\ Kept(keys, <<e>> \o Others(keys, k), k, 2)
      BY <3>1, FirstAndOthers
    <3> QED BY <1>4, <3>2
  <2>2. now \in Seq(Reported) /\ now[1] = e /\ Len(now) \in Nat \ {0} /\ Kept(told.keys, now, k, 2)
    <3>1. told.keys \in Seq(Reported) /\ Distinct(told.keys) /\ e \in Reported /\ e.id = k
      BY <1>2, <1>5
    <3>2. /\ <<e>> \o Others(told.keys, k) \in Seq(Reported) /\ (<<e>> \o Others(told.keys, k))[1] = e
          /\ Len(<<e>> \o Others(told.keys, k)) \in Nat \ {0} /\ Kept(told.keys, <<e>> \o Others(told.keys, k), k, 2)
      BY <3>1, FirstAndOthers
    <3> QED BY <1>4, <3>2
  <2> QED BY <2>1, <2>2
<1>7. DOMAIN new = 1..Len(new) /\ DOMAIN now = 1..Len(now)
  BY <1>6
<1>8. PICK was \in [2..Len(new) -> DOMAIN keys] :
        /\ \A x, y \in 2..Len(new) : x < y => was[x] < was[y]
        /\ \A x \in 2..Len(new) : new[x] = keys[was[x]] /\ new[x].id # k
  BY <1>6 DEF Kept
<1>9. PICK old \in [2..Len(now) -> DOMAIN told.keys] :
        /\ \A x, y \in 2..Len(now) : x < y => old[x] < old[y]
        /\ \A x \in 2..Len(now) : now[x] = told.keys[old[x]] /\ now[x].id # k
        /\ \A j \in DOMAIN told.keys : told.keys[j].id # k => \E x \in 2..Len(now) : old[x] = j
  BY <1>6 DEF Kept
<1>10. Distinct(new)
  <2>1. \A x, y \in 2..Len(new) : new[x].id = new[y].id => x = y
    BY <1>2, <1>6, KeptDistinct
  <2>2. \A x \in 1..Len(new) : x = 1 \/ x \in 2..Len(new)
    BY <1>6
  <2> QED BY <1>5, <1>6, <1>7, <1>8, <2>1, <2>2 DEF Distinct
<1>11. Distinct(now)
  <2>1. \A x, y \in 2..Len(now) : now[x].id = now[y].id => x = y
    BY <1>2, <1>6, KeptDistinct
  <2>2. \A x \in 1..Len(now) : x = 1 \/ x \in 2..Len(now)
    BY <1>6
  <2> QED BY <1>5, <1>6, <1>7, <1>9, <2>1, <2>2 DEF Distinct
<1>12. \A x \in 1..Len(new) : x = 1 \/ x \in 2..Len(new)
  BY <1>6
<1>13. \A x \in 1..Len(now) : x = 1 \/ x \in 2..Len(now)
  BY <1>6
<1>14. StatusOK'
  <2>1. LegacyStatus' = LegacyStatus
    BY <1>4 DEF LegacyStatus
  <2>2. \A x \in DOMAIN new : new[x].id <= issued
    BY <1>2, <1>5, <1>6, <1>7, <1>8, <1>12
  <2>3. \A x \in DOMAIN now : now[x].id <= issued
    BY <1>2, <1>5, <1>6, <1>7, <1>9, <1>13
  <2>4. told'.row = told.row /\ told' = [row |-> told'.row, keys |-> told'.keys]
    BY <1>4
  <2> QED BY <1>2, <1>3, <1>4, <1>6, <1>10, <1>11, <2>1, <2>2, <2>3, <2>4 DEF SInv, StatusOK
<1>15. ASSUME NEW x \in DOMAIN new PROVE KeyTold(x)'
  <2>1. CASE x = 1
    <3>1. 1 \in DOMAIN now /\ now[1] = new[x]
      BY <1>6, <1>7, <2>1
    <3> QED BY <1>3, <3>1 DEF KeyTold
  <2>2. CASE x \in 2..Len(new)
    <3>1. was[x] \in DOMAIN keys /\ new[x] = keys[was[x]] /\ new[x].id # k /\ KeyTold(was[x])
      BY <1>8, <2>2 DEF SInv
    <3>2. CASE new[x].report = Unasked /\ \A n \in DOMAIN told.keys : told.keys[n].id # new[x].id
      <4>1. \A n \in DOMAIN now : now[n].id # new[x].id
        <5> SUFFICES ASSUME NEW n \in DOMAIN now PROVE now[n].id # new[x].id
          OBVIOUS
        <5>1. CASE n = 1
          BY <1>5, <1>6, <3>1, <5>1
        <5>2. CASE n \in 2..Len(now)
          <6>1. old[n] \in DOMAIN told.keys /\ now[n] = told.keys[old[n]]
            BY <1>9, <5>2
          <6> QED BY <3>2, <6>1
        <5> QED BY <1>7, <1>13, <5>1, <5>2
      <4> QED BY <1>3, <3>2, <4>1 DEF KeyTold
    <3>3. CASE \E n \in DOMAIN told.keys : told.keys[n] = new[x]
      <4>1. PICK n \in DOMAIN told.keys : told.keys[n] = new[x]
        BY <3>3
      <4>2. PICK y \in 2..Len(now) : old[y] = n
        BY <1>9, <3>1, <4>1
      <4>3. y \in DOMAIN now /\ now[y] = new[x]
        BY <1>7, <1>9, <4>1, <4>2
      <4> QED BY <1>3, <4>3 DEF KeyTold
    <3> QED BY <3>1, <3>2, <3>3 DEF KeyTold
  <2> QED BY <1>7, <1>12, <2>1, <2>2
<1>16. InOrder'
  <2> SUFFICES ASSUME NEW x \in DOMAIN new, NEW y \in DOMAIN new, NEW n \in DOMAIN now,
                      x < y, now[n].id = new[y].id
               PROVE  \E m \in DOMAIN now : m < n /\ now[m].id = new[x].id
    BY <1>3 DEF InOrder
  <2>1. y \in 2..Len(new)
    BY <1>7, <1>12
  <2>2. was[y] \in DOMAIN keys /\ new[y] = keys[was[y]] /\ new[y].id # k
    BY <1>8, <2>1
  <2>3. n \in 2..Len(now)
    BY <1>5, <1>6, <1>7, <1>13, <2>2
  <2>4. old[n] \in DOMAIN told.keys /\ now[n] = told.keys[old[n]]
    BY <1>9, <2>3
  <2>5. CASE x = 1
    <3>1. 1 \in DOMAIN now /\ 1 < n /\ now[1].id = new[x].id
      BY <1>6, <1>7, <2>3, <2>5
    <3> QED BY <3>1
  <2>6. CASE x \in 2..Len(new)
    <3>1. was[x] \in DOMAIN keys /\ new[x] = keys[was[x]] /\ new[x].id # k /\ was[x] < was[y]
      BY <1>8, <2>1, <2>6
    <3>2. PICK m \in DOMAIN told.keys : m < old[n] /\ told.keys[m].id = new[x].id
      BY <2>2, <2>4, <3>1 DEF SInv, InOrder
    <3>3. PICK z \in 2..Len(now) : old[z] = m
      BY <1>9, <3>1, <3>2
    <3>4. now[z].id = new[x].id /\ z \in DOMAIN now
      BY <1>7, <1>9, <3>2, <3>3
    <3>5. m \in Nat /\ old[n] \in Nat /\ z \in Nat /\ n \in Nat
      BY <1>2, <2>3, <2>4
    <3>6. z < n
      <4>1. SUFFICES ASSUME ~(z < n) PROVE FALSE
        OBVIOUS
      <4>2. n < z \/ n = z
        BY <3>5, <4>1
      <4>3. old[n] < old[z] \/ old[n] = old[z]
        BY <1>9, <2>3, <3>3, <4>2
      <4> QED BY <3>2, <3>3, <3>5, <4>3
    <3> QED BY <3>4, <3>6
  <2> QED BY <1>7, <1>12, <2>5, <2>6
<1> QED BY <1>3, <1>14, <1>15, <1>16 DEF SInv

(* To begin with nobody has reported. *)
LEMMA StatusBegins == ASSUME StatusInit PROVE SInv
<1>1. /\ keys = <<>> /\ told.keys = <<>> /\ told = [row |-> told.row, keys |-> told.keys] /\ issued = 0
      /\ told.row = "unknown" /\ row.newest = {}
  BY DEF StatusInit
<1>2. LegacyStatus = told.row
  BY <1>1 DEF LegacyStatus
<1>3. keys \in Seq(AnyKey) /\ told.keys \in Seq(Reported) /\ DOMAIN keys = {} /\ DOMAIN told.keys = {}
  BY <1>1, EmptySeq
<1> QED BY <1>1, <1>2, <1>3 DEF SInv, StatusOK, Distinct, InOrder

(* Every step keeps the order of the keys and of the reports. *)
LEMMA StatusSteps == ASSUME SInv, [Next]_vars PROVE SInv'
<1>1. \/ UNCHANGED statusVars
      \/ \E value : Accept([run |-> value]) \/ Accept([health |-> value])
      \/ KeyHeartbeat \/ IssueKey(2) \/ RetireKey \/ MoveCutover
  <2>1. ASSUME NEW s \in Source, WriteLine(s) \/ FinishLine(s) \/ ReplaceFile(s) \/ EmptyFile(s) PROVE UNCHANGED statusVars
    BY <2>1 DEF WriteLine, FinishLine, ReplaceFile, EmptyFile, Change
  <2>2. ASSUME NEW p, Send(p) \/ Crash(p) PROVE UNCHANGED statusVars
    BY <2>2 DEF Send, Crash
  <2>3. ASSUME NEW p, Post(p) PROVE UNCHANGED statusVars \/ \E value : Accept([run |-> value])
    BY <2>3 DEF Post, Report
  <2>4. ASSUME StartPipeline PROVE UNCHANGED statusVars \/ \E value : Accept([run |-> value])
    BY <2>4 DEF StartPipeline, Report
  <2>5. ASSUME Begin \/ Read \/ Save \/ Bootstrap \/ BeginBootstrap \/ Damage \/ Quarantine \/ ReadPipeline \/ SavePipeline
        PROVE  UNCHANGED statusVars
    BY <2>5 DEF Begin, Read, Save, Bootstrap, BeginBootstrap, Damage, Quarantine, ReadPipeline, SavePipeline
  <2>6. ASSUME Reporting
        PROVE  (\E value : Accept([run |-> value]) \/ Accept([health |-> value])) \/ KeyHeartbeat \/ IssueKey(2) \/ RetireKey
    BY <2>6 DEF Reporting, AgentHeartbeat, Preflight
  <2>7. ASSUME Cutover PROVE MoveCutover
    BY <2>7 DEF Cutover
  <2>8. ASSUME UNCHANGED vars PROVE UNCHANGED statusVars
    BY <2>8 DEF vars
  <2> QED BY <2>1, <2>2, <2>3, <2>4, <2>5, <2>6, <2>7, <2>8 DEF Next, CollectorStep, PipelineStep
<1>2. CASE UNCHANGED statusVars
  BY <1>2 DEF statusVars, SInv, StatusOK, LegacyStatus, KeyTold, InOrder
<1>3. CASE MoveCutover
  BY <1>3 DEF MoveCutover, SInv, StatusOK, LegacyStatus, KeyTold, InOrder
<1> QED BY <1>1, <1>2, <1>3, AcceptKeeps, KeyHeartbeatKeeps, IssueKeyKeeps, RetireKeyKeeps

(* Whoever reports, in whatever order, and whichever keys come and go: the *)
(* customer is shown the last accepted report of the era that is in force. *)
THEOREM ShownIsLastReportAlways == Spec => []ShownIsLastReport
<1>1. Init => SInv
  BY StatusBegins DEF Init
<1>2. SInv /\ [Next]_vars => SInv'
  BY StatusSteps
<1>3. SInv => ShownIsLastReport
  BY StatusShown
<1> QED BY <1>1, <1>2, <1>3, PTL DEF Spec
=============================================================================
