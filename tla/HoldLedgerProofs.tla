-------------------------- MODULE HoldLedgerProofs --------------------------
(***************************************************************************)
(* The two tables of the patron cache agree, whatever the log says, however*)
(* it is cut into chunks, and wherever a run ends between the two          *)
(* transactions that commit them (LInv).  And what the server was sent is  *)
(* what the dashboard would say, for an item without two records in one    *)
(* second, however often runs failed and whole logs were sent again        *)
(* (SInv).  Both provided that the log does not grow before an interrupted *)
(* chunk is read again.                                                    *)
(***************************************************************************)
EXTENDS HoldLedger, FiniteSetTheorems, WellFoundedInduction, SequenceTheorems, TLAPS

Lines == SubSeq(log, off + 1, ChunkEnd)

(* A ledger row, by what the argument needs to know of one; and it comes   *)
(* of a hold of the log.                                                   *)
IsRow(row) ==
  /\ row = [time |-> row.time, patron |-> row.patron, static |-> row.static,
            flags |-> row.flags, rev |-> row.rev]
  /\ row.time \in Nat /\ (row # NoRow => row.patron \in Patron)
Logged(i, row) == row = NoRow \/ \E k \in 1..Len(log) : IsHold(log[k], i, row.time)
Rows(table) == \A i \in Item : IsRow(table[i]) /\ Logged(i, table[i])

Typed ==
  /\ log \in Seq(Record) /\ off \in 0..Len(log)
  /\ ledger = [i \in Item |-> ledger[i]] /\ unsaved \in Nat
  /\ pc \in {"idle", "send", "holds", "patrons", "save"}

(* A row follows its patron's profile; or it is of a chunk that was        *)
(* interrupted between the two transactions, and follows the profile the   *)
(* chunk is about to be given again; or its own hold is read again.        *)
Good(i) ==
  \/ Follows(ledger[i], profile)
  \/ unsaved # 0 /\ Follows(ledger[i], Profiles(Lines))
  \/ Awaited(i, ledger[i], off)

(* The tables a chunk stages after k of its lines. *)
Staging(table, new, k) ==
  /\ table = [i \in Item |-> table[i]] /\ Rows(table)
  /\ \A i \in Item : Follows(table[i], new) \/ Awaited(i, table[i], off + k)

(* What is staged in a run, and how far it is committed. *)
Underway ==
  pc # "idle" =>
    /\ unsaved # 0 /\ chunk.to = ChunkEnd /\ chunk.profile = Profiles(Lines)
    /\ Staging(chunk.ledger, chunk.profile, Len(Lines))
    /\ pc \in {"patrons", "save"} => ledger = chunk.ledger
    /\ pc = "save" => profile = chunk.profile

LInv == Typed /\ Rows(ledger) /\ (\A i \in Item : Good(i)) /\ Underway
-----------------------------------------------------------------------------
(* The chunk and its profiles.                                             *)

(* A set of numbers has a least one.  Its negation is a minimal            *)
(* counterexample: this is how what is staged line by line is reached.     *)
LEMMA LeastNumber ==
  ASSUME NEW T \in SUBSET Nat, T # {}
  PROVE  \E n \in T : \A m \in T : n <= m
<1>1. PICK n \in T : \A m \in T : <<m, n>> \notin OpToRel(<, Nat)
  BY NatLessThanWellFounded, WFMin
<1>2. \A m \in T : m \in Nat /\ ~(m < n)
  BY <1>1 DEF OpToRel
<1> QED BY <1>2

(* The lines of a chunk are those of the log from the cursor on. *)
LEMMA ChunkOfLog ==
  ASSUME Typed
  PROVE  /\ ChunkEnd \in off..Len(log) /\ (off < Len(log) => ChunkEnd > off)
         /\ Lines \in Seq(Record) /\ Len(Lines) = ChunkEnd - off
         /\ \A k \in 1..Len(Lines) : Lines[k] = log[off + k] /\ Lines[k] \in Record
<1>1. log \in Seq(Record) /\ off \in 0..Len(log) /\ Len(log) \in Nat /\ ChunkLines \in Nat \ {0}
  BY LedgerAssumption DEF Typed
<1>2. ChunkEnd \in off..Len(log) /\ (off < Len(log) => ChunkEnd > off)
  BY <1>1 DEF ChunkEnd
<1>3. /\ Lines \in Seq(Record) /\ Len(Lines) = ChunkEnd - off
      /\ \A k \in 1..(ChunkEnd - off) : Lines[k] = log[off + k]
  <2>1. \A k \in (off + 1)..ChunkEnd : log[k] \in Record
    BY <1>1, <1>2
  <2>2. off + 1 \in Int /\ ChunkEnd \in Int /\ off + 1 \in 1..(Len(log) + 1) /\ ChunkEnd \in off..Len(log)
    BY <1>1, <1>2
  <2> HIDE DEF ChunkEnd
  <2> QED BY <1>1, <1>2, <2>1, <2>2, SubSeqProperties DEF Lines
<1>4. \A k \in 1..(ChunkEnd - off) : Lines[k] \in Record
  BY <1>2, <1>3, <1>1
<1> QED BY <1>2, <1>3, <1>4

(* Pass 1: every row follows the new profiles, or its own hold is read     *)
(* again.                                                                  *)
LEMMA Pass1Stages ==
  ASSUME Typed, Rows(ledger), \A i \in Item : Good(i)
  PROVE  Staging(Pass1(Profiles(Lines)).ledger, Profiles(Lines), 0)
<1> DEFINE new   == Profiles(Lines)
           table == Pass1(new).ledger
<1>1. table = [i \in Item |-> IF Corrected(i, new) THEN CorrectedRow(ledger[i], new) ELSE ledger[i]]
  BY DEF Pass1
<1> HIDE DEF table, new
<1>2. ASSUME NEW i \in Item
      PROVE  IsRow(table[i]) /\ Logged(i, table[i]) /\ (Follows(table[i], new) \/ Awaited(i, table[i], off + 0))
  <2>1. CASE Corrected(i, new)
    <3>1. table[i] = CorrectedRow(ledger[i], new) /\ ledger[i] # NoRow
      BY <1>1, <2>1 DEF Corrected
    <3>2. IsRow(ledger[i]) /\ Logged(i, ledger[i])
      BY DEF Rows
    <3>3. table[i] = [time |-> ledger[i].time, patron |-> ledger[i].patron, static |-> ledger[i].static,
                      flags |-> Combine(ledger[i].static, new[ledger[i].patron]), rev |-> ledger[i].rev + 1]
      BY <3>1, <3>2 DEF IsRow, CorrectedRow
    <3>4. ledger[i].patron \in Patron /\ ledger[i].time \in Nat
      BY <3>1, <3>2 DEF IsRow
    <3>5. \E k \in 1..Len(log) : IsHold(log[k], i, ledger[i].time)
      BY <3>1, <3>2 DEF Logged
    <3> QED BY <3>3, <3>4, <3>5 DEF IsRow, Logged, Follows
  <2>2. CASE ~Corrected(i, new)
    <3>1. table[i] = ledger[i]
      BY <1>1, <2>2
    <3>2. ledger[i] = NoRow \/ new[ledger[i].patron] = profile[ledger[i].patron]
          \/ Combine(ledger[i].static, new[ledger[i].patron]) = ledger[i].flags
      BY <2>2 DEF Corrected
    <3>3. Follows(ledger[i], profile) \/ Follows(ledger[i], new) \/ Awaited(i, ledger[i], off)
      BY DEF Good, new
    <3>4. off + 0 = off
      BY DEF Typed
    <3> QED BY <3>1, <3>2, <3>3, <3>4 DEF Follows, Rows
  <2> QED BY <2>1, <2>2
<1> QED BY <1>1, <1>2 DEF Staging, Rows, new, table

(* Pass 2, one line. *)
LEMMA Pass2Stages ==
  ASSUME Typed, NEW new, NEW acc, NEW k \in 1..Len(Lines), Staging(acc.ledger, new, k - 1)
  PROVE  Staging(Pass2(acc, Lines[k], new).ledger, new, k)
<1> DEFINE r     == Lines[k]
           table == Pass2(acc, r, new).ledger
<1>1. r = log[off + k] /\ r \in Record /\ off + k \in 1..Len(log) /\ off + (k - 1) = off + k - 1 /\ off \in Nat
  BY ChunkOfLog DEF Typed
<1>2. acc.ledger = [i \in Item |-> acc.ledger[i]]
  BY DEF Staging
<1>3. ASSUME NEW i \in Item
      PROVE  IsRow(acc.ledger[i]) /\ Logged(i, acc.ledger[i])
             /\ (Follows(acc.ledger[i], new) \/ Awaited(i, acc.ledger[i], off + (k - 1)))
  BY DEF Staging, Rows
<1>4. table = IF r.kind = "profile" THEN acc.ledger
              ELSE [acc.ledger EXCEPT ![r.item] = Kept(acc.ledger[r.item], r, new)]
  BY DEF Pass2
<1>5. r.kind = "profile" \/ (r.item \in Item /\ r.time \in Nat)
  BY <1>1, LedgerAssumption DEF Record, Time
<1> HIDE DEF r, table
(* A row this line says nothing of: its own hold is not this line. *)
<1>6. ASSUME NEW i \in Item, ~IsHold(r, i, acc.ledger[i].time)
      PROVE  Follows(acc.ledger[i], new) \/ Awaited(i, acc.ledger[i], off + k)
  <2>1. ASSUME Awaited(i, acc.ledger[i], off + (k - 1))
        PROVE  Awaited(i, acc.ledger[i], off + k)
    <3>1. PICK n \in (off + (k - 1) + 1)..Len(log) : IsHold(log[n], i, acc.ledger[i].time)
      BY <2>1 DEF Awaited
    <3>2. n # off + k
      BY <3>1, <1>1, <1>6
    <3>3. n \in (off + k + 1)..Len(log)
      BY <3>1, <3>2, <1>1
    <3> QED BY <2>1, <3>1, <3>3 DEF Awaited
  <2> QED BY <1>3, <2>1
<1>7. ASSUME NEW i \in Item
      PROVE  IsRow(table[i]) /\ Logged(i, table[i]) /\ (Follows(table[i], new) \/ Awaited(i, table[i], off + k))
  <2>1. CASE r.kind = "profile" \/ r.item # i
    <3>1. table[i] = acc.ledger[i] /\ ~IsHold(r, i, acc.ledger[i].time)
      BY <2>1, <1>2, <1>4, <1>5 DEF IsHold
    <3> QED BY <3>1, <1>3, <1>6
  <2>2. CASE r.kind # "profile" /\ r.item = i
    <3> DEFINE old == acc.ledger[i]
    <3>1. table[i] = Kept(old, r, new)
      BY <2>2, <1>2, <1>4
    <3>2. IsRow(old) /\ old.time \in Nat
      BY <1>3 DEF IsRow
    <3>3. IsRow(NoRow) /\ Logged(i, NoRow) /\ Follows(NoRow, new)
      BY DEF IsRow, Logged, Follows, NoRow
    <3> HIDE DEF old
    <3>4. CASE table[i] = NoRow
      BY <3>3, <3>4
    <3>5. CASE r.kind # "hold" /\ table[i] = old
      <4>1. ~IsHold(r, i, old.time)
        BY <3>5 DEF IsHold
      <4> QED BY <3>5, <4>1, <1>3, <1>6 DEF old
    <3>6. CASE r.kind = "hold" /\ r.time < old.time
      <4>1. ~IsHold(r, i, old.time) /\ table[i] = old
        BY <3>1, <3>2, <3>6, <1>5, <2>2 DEF IsHold, Kept
      <4> QED BY <4>1, <1>3, <1>6 DEF old
    <3>7. CASE r.kind = "hold" /\ r.time >= old.time /\ r.patron # NoPatron
      <4>1. table[i] = HoldRow(old, r, new)
        BY <3>1, <3>7 DEF Kept
      <4>2. r.patron \in Patron
        BY <3>7, <1>1 DEF Record
      <4>3. /\ table[i].time = r.time /\ table[i].patron = r.patron /\ table[i].static = r.static
            /\ table[i].flags = Combine(r.static, new[r.patron])
            /\ table[i] = [time |-> table[i].time, patron |-> table[i].patron, static |-> table[i].static,
                           flags |-> table[i].flags, rev |-> table[i].rev]
        BY <4>1, <3>7 DEF HoldRow
      <4>4. IsHold(log[off + k], i, r.time)
        BY <1>1, <2>2, <3>7 DEF IsHold
      <4> QED BY <4>2, <4>3, <4>4, <1>1, <1>5, <2>2 DEF IsRow, Logged, Follows
    <3>8. table[i] = NoRow \/ (r.kind # "hold" /\ table[i] = old) \/ (r.kind = "hold" /\ r.time < old.time)
          \/ (r.kind = "hold" /\ r.time >= old.time /\ r.patron # NoPatron)
      BY <3>1, <3>2, <1>5, <2>2 DEF Kept
    <3> QED BY <3>4, <3>5, <3>6, <3>7, <3>8
  <2> QED BY <2>1, <2>2
<1>8. table = [i \in Item |-> table[i]]
  BY <1>2, <1>4
<1> QED BY <1>7, <1>8 DEF Staging, Rows, r, table

(* What is staged is well defined: line by line, from pass 1 on. *)
LEMMA StagedUnfolds ==
  ASSUME NEW lines, Len(lines) \in Nat, NEW new
  PROVE  \A k \in 0..Len(lines) :
           Staged(lines, new)[k] = IF k = 0 THEN Pass1(new) ELSE Pass2(Staged(lines, new)[k - 1], lines[k], new)
<1> DEFINE Is(f, n) == f = [k \in 0..n |-> IF k = 0 THEN Pass1(new) ELSE Pass2(f[k - 1], lines[k], new)]
           Undefined == {n \in Nat : \A f : ~Is(f, n)}
<1>1. Undefined = {}
  <2>1. SUFFICES ASSUME Undefined # {} PROVE FALSE
    OBVIOUS
  <2>2. PICK n \in Undefined : \A m \in Undefined : n <= m
    <3>1. Undefined \in SUBSET Nat
      OBVIOUS
    <3> HIDE DEF Undefined
    <3> QED BY <2>1, <3>1, LeastNumber
  <2>3. n \in Nat /\ \A f : ~Is(f, n)
    BY <2>2
  <2>4. CASE n = 0
    <3> DEFINE g == [k \in 0..0 |-> Pass1(new)]
    <3>1. \A k \in 0..0 : g[k] = IF k = 0 THEN Pass1(new) ELSE Pass2(g[k - 1], lines[k], new)
      OBVIOUS
    <3>2. g = [k \in 0..0 |-> g[k]]
      OBVIOUS
    <3> HIDE DEF g
    <3>3. Is(g, 0)
      BY <3>1, <3>2
    <3> QED BY <3>3, <2>3, <2>4
  <2>5. CASE n > 0
    <3>1. n - 1 \in Nat /\ n - 1 \notin Undefined
      <4>1. n - 1 \in Nat /\ ~(n <= n - 1)
        BY <2>3, <2>5
      <4> HIDE DEF Undefined
      <4> QED BY <2>2, <4>1
    <3>2. PICK f : Is(f, n - 1)
      <4> HIDE DEF Is
      <4> QED BY <3>1
    <3> DEFINE g == [k \in 0..n |-> IF k = n THEN Pass2(f[n - 1], lines[n], new) ELSE f[k]]
    <3>3. ASSUME NEW k \in 0..n
          PROVE  g[k] = IF k = 0 THEN Pass1(new) ELSE Pass2(g[k - 1], lines[k], new)
      <4>1. CASE k = n
        BY <4>1, <2>3, <2>5
      <4>2. CASE k # n
        <5>1. k \in 0..(n - 1) /\ g[k] = f[k] /\ (k # 0 => k - 1 \in 0..n /\ k - 1 # n /\ g[k - 1] = f[k - 1])
          BY <4>2, <2>3
        <5>2. f[k] = IF k = 0 THEN Pass1(new) ELSE Pass2(f[k - 1], lines[k], new)
          BY <3>2, <5>1
        <5> HIDE DEF g
        <5> QED BY <5>1, <5>2
      <4> QED BY <4>1, <4>2
    <3>4. g = [k \in 0..n |-> g[k]]
      OBVIOUS
    <3> HIDE DEF g
    <3>5. Is(g, n)
      BY <3>3, <3>4
    <3> QED BY <3>5, <2>3
  <2> QED BY <2>3, <2>4, <2>5
<1>2. PICK f : Is(f, Len(lines))
  BY <1>1
<1>3. Staged(lines, new) = CHOOSE g : Is(g, Len(lines))
  BY Zenon DEF Staged
<1> HIDE DEF Is
<1>4. Is(Staged(lines, new), Len(lines))
  BY <1>2, <1>3, Zenon
<1> QED BY <1>4 DEF Is

(* A chunk as it is staged. *)
LEMMA TransformStages ==
  ASSUME Typed, Rows(ledger), \A i \in Item : Good(i)
  PROVE  /\ Transform(Lines).profile = Profiles(Lines)
         /\ Staging(Transform(Lines).ledger, Profiles(Lines), Len(Lines))
<1> DEFINE new   == Profiles(Lines)
           S(k)  == Staging(Staged(Lines, new)[k].ledger, new, k)
           Wrong == {k \in Nat : k <= Len(Lines) /\ ~S(k)}
<1>1. Len(Lines) \in Nat
  BY ChunkOfLog
<1>2. \A k \in 0..Len(Lines) :
        Staged(Lines, new)[k] = IF k = 0 THEN Pass1(new) ELSE Pass2(Staged(Lines, new)[k - 1], Lines[k], new)
  BY <1>1, StagedUnfolds
<1>3. S(0)
  BY <1>1, <1>2, Pass1Stages
<1>4. ASSUME NEW k \in 1..Len(Lines), S(k - 1)
      PROVE  S(k)
  <2>1. Staging(Staged(Lines, new)[k - 1].ledger, new, k - 1)
    BY <1>4
  <2>2. Staged(Lines, new)[k] = Pass2(Staged(Lines, new)[k - 1], Lines[k], new)
    BY <1>1, <1>2
  <2> HIDE DEF new
  <2>3. Staging(Pass2(Staged(Lines, new)[k - 1], Lines[k], new).ledger, new, k)
    BY <2>1, Pass2Stages
  <2> QED BY <2>2, <2>3
<1>5. S(Len(Lines))
  <2>1. SUFFICES ASSUME Wrong # {} PROVE FALSE
    BY <1>1
  <2>2. PICK k \in Wrong : \A m \in Wrong : k <= m
    <3>1. Wrong \in SUBSET Nat
      OBVIOUS
    <3> HIDE DEF Wrong
    <3> QED BY <2>1, <3>1, LeastNumber
  <2>3. k \in Nat /\ k <= Len(Lines) /\ ~S(k)
    BY <2>2
  <2> HIDE DEF S
  <2>4. k # 0 /\ k \in 1..Len(Lines) /\ k - 1 \in Nat /\ k - 1 <= Len(Lines) /\ ~(k <= k - 1)
    BY <2>3, <1>3, <1>1
  <2>5. S(k - 1)
    BY <2>2, <2>4
  <2> QED BY <2>3, <2>4, <2>5, <1>4
<1> QED BY <1>5 DEF Transform

-----------------------------------------------------------------------------
(* The invariant.                                                          *)

(* It holds to begin with. *)
LEMMA LedgerInit == Init => LInv
<1> SUFFICES ASSUME Init PROVE LInv
  OBVIOUS
<1>1. log \in Seq(Record) /\ Len(log) = 0
  BY DEF Init
<1>2. Typed /\ Underway
  BY <1>1 DEF Init, Typed, Underway
<1>3. ASSUME NEW i \in Item PROVE IsRow(ledger[i]) /\ Logged(i, ledger[i]) /\ Good(i)
  <2>1. ledger[i] = NoRow
    BY DEF Init
  <2> QED BY <2>1 DEF IsRow, Logged, Good, Follows, NoRow
<1> QED BY <1>2, <1>3 DEF LInv, Rows

(* The log grows.  Nothing of it is being read, and what was to come is    *)
(* still to come.                                                          *)
LEMMA AppendRecordKeeps ==
  ASSUME LInv, ~Regrowth, AppendRecord
  PROVE  LInv'
<1>1. PICK r \in Record : log' = Append(log, r)
  BY DEF AppendRecord
<1>2. unsaved = 0 /\ pc = "idle"
  BY DEF AppendRecord, LInv, Underway
<1>3. UNCHANGED <<off, ledger, profile, pc, unsaved, reread>>
  BY DEF AppendRecord
<1>4. log \in Seq(Record) /\ Len(log) \in Nat /\ Len(log') = Len(log) + 1 /\ off \in 0..Len(log)
      /\ log' \in Seq(Record) /\ \A k \in 1..Len(log) : log'[k] = log[k]
  BY <1>1 DEF LInv, Typed
<1>5. Typed'
  BY <1>3, <1>4 DEF LInv, Typed
<1>6. ASSUME NEW i \in Item
      PROVE  IsRow(ledger[i])' /\ Logged(i, ledger[i])' /\ Good(i)'
  <2>1. IsRow(ledger[i]) /\ Logged(i, ledger[i]) /\ Good(i)
    BY DEF LInv, Rows
  <2>2. IsRow(ledger[i])' /\ Follows(ledger[i], profile)' = Follows(ledger[i], profile)
    BY <2>1, <1>3 DEF IsRow, Follows
  <2>3. Logged(i, ledger[i])'
    BY <2>1, <1>3, <1>4 DEF Logged, IsHold
  <2>4. Awaited(i, ledger[i], off) => Awaited(i, ledger[i], off)'
    BY <1>3, <1>4 DEF Awaited, IsHold
  <2> QED BY <1>2, <2>1, <2>2, <2>3, <2>4 DEF Good
<1>7. Rows(ledger)' /\ (\A i \in Item : Good(i))'
  BY <1>6 DEF Rows
<1> QED BY <1>2, <1>3, <1>5, <1>7 DEF LInv, Underway

(* What a step that changes neither log nor cursor leaves as it is. *)
LEMMA SameChunk ==
  ASSUME log' = log, off' = off, reread' = reread
  PROVE  /\ Lines' = Lines /\ ChunkEnd' = ChunkEnd
         /\ \A i, row, from : Awaited(i, row, from)' = Awaited(i, row, from)
         /\ \A i, row : Logged(i, row)' = Logged(i, row)
BY DEF Lines, ChunkEnd, Awaited, Logged, IsHold

(* A chunk is read and staged. *)
LEMMA ReadChunkKeeps ==
  ASSUME LInv, ReadChunk
  PROVE  LInv'
<1>1. /\ pc = "idle" /\ off < Len(log) /\ UNCHANGED <<log, off, ledger, profile, reread>>
      /\ unsaved' = IF unsaved > ChunkEnd THEN unsaved ELSE ChunkEnd
      /\ pc' \in {"holds", "send"}
  BY DEF ReadChunk
<1>2. Typed /\ Rows(ledger) /\ \A i \in Item : Good(i)
  BY DEF LInv
<1>3. ChunkEnd \in Nat \ {0} /\ unsaved \in Nat /\ off \in Nat
  BY <1>1, <1>2, ChunkOfLog DEF Typed
<1>4. unsaved' \in Nat \ {0}
  BY <1>1, <1>3
<1>5. /\ Lines' = Lines /\ ChunkEnd' = ChunkEnd
      /\ \A i, row, from : Awaited(i, row, from)' = Awaited(i, row, from)
      /\ \A i, row : Logged(i, row)' = Logged(i, row)
  BY <1>1, SameChunk
<1>6. Profiles(Lines)' = Profiles(Lines)
  BY <1>1, <1>5 DEF Profiles
<1>7. chunk'.to = ChunkEnd /\ chunk'.ledger = Transform(Lines).ledger /\ chunk'.profile = Transform(Lines).profile
  BY DEF ReadChunk, Lines
<1>8. chunk'.profile = Profiles(Lines) /\ Staging(chunk'.ledger, Profiles(Lines), Len(Lines))
  BY <1>2, <1>7, TransformStages
<1>9. Staging(chunk.ledger, chunk.profile, Len(Lines))'
  BY <1>1, <1>5, <1>6, <1>8 DEF Staging, Rows, IsRow, Follows
<1>10. Underway'
  BY <1>1, <1>4, <1>5, <1>6, <1>7, <1>8, <1>9 DEF Underway
<1>11. Typed' /\ Rows(ledger)'
  BY <1>1, <1>2, <1>4, <1>5 DEF Typed, Rows, IsRow
<1>12. ASSUME NEW i \in Item PROVE Good(i)'
  BY <1>1, <1>2, <1>3, <1>4, <1>5, <1>6 DEF Good, Follows
<1> QED BY <1>10, <1>11, <1>12 DEF LInv

(* A request, and a run that ends early. *)
LEMMA OutsideKeeps ==
  ASSUME LInv, Send \/ Interrupt
  PROVE  LInv'
<1>1. UNCHANGED <<log, off, ledger, profile, unsaved, reread>>
  BY DEF Send, Interrupt
<1>2. pc # "idle" /\ (pc' = "idle" \/ (pc' \in {"holds", "send"} /\ UNCHANGED chunk))
  BY DEF Send, Interrupt
<1>3. /\ Lines' = Lines /\ ChunkEnd' = ChunkEnd
      /\ \A i, row, from : Awaited(i, row, from)' = Awaited(i, row, from)
      /\ \A i, row : Logged(i, row)' = Logged(i, row)
  BY <1>1, SameChunk
<1>4. Profiles(Lines)' = Profiles(Lines)
  BY <1>1, <1>3 DEF Profiles
<1>5. Typed' /\ Rows(ledger)'
  BY <1>1, <1>2, <1>3 DEF LInv, Typed, Rows, IsRow
<1>6. ASSUME NEW i \in Item PROVE Good(i)'
  BY <1>1, <1>3, <1>4 DEF LInv, Good, Follows
<1>7. Underway'
  <2>1. CASE pc' = "idle"
    BY <2>1 DEF Underway
  <2>2. CASE pc' \in {"holds", "send"} /\ UNCHANGED chunk
    <3>1. Underway
      BY DEF LInv
    <3>2. Staging(chunk.ledger, chunk.profile, Len(Lines))'
      BY <1>1, <1>2, <1>3, <2>2, <3>1 DEF Underway, Staging, Rows, IsRow, Follows
    <3> QED BY <1>1, <1>2, <1>3, <1>4, <2>2, <3>1, <3>2 DEF Underway
  <2> QED BY <1>2, <2>1, <2>2
<1> QED BY <1>5, <1>6, <1>7 DEF LInv

(* The first of the two transactions: the rows follow the profiles that    *)
(* are to be committed next.                                               *)
LEMMA CommitHoldsKeeps ==
  ASSUME LInv, CommitHolds
  PROVE  LInv'
<1>1. /\ UNCHANGED <<log, off, profile, chunk, unsaved, reread>>
      /\ pc = "holds" /\ pc' = "patrons" /\ ledger' = chunk.ledger
  BY DEF CommitHolds
<1>2. /\ Lines' = Lines /\ ChunkEnd' = ChunkEnd
      /\ \A i, row, from : Awaited(i, row, from)' = Awaited(i, row, from)
      /\ \A i, row : Logged(i, row)' = Logged(i, row)
  BY <1>1, SameChunk
<1>3. Profiles(Lines)' = Profiles(Lines)
  BY <1>1, <1>2 DEF Profiles
<1>4. /\ unsaved # 0 /\ chunk.to = ChunkEnd /\ chunk.profile = Profiles(Lines)
      /\ Staging(chunk.ledger, chunk.profile, Len(Lines))
  BY <1>1 DEF LInv, Underway
<1>5. Typed
  BY DEF LInv
<1>6. Staging(chunk.ledger, chunk.profile, Len(Lines))'
  BY <1>1, <1>2, <1>4 DEF Staging, Rows, IsRow, Follows
<1>7. Typed' /\ Rows(ledger)'
  BY <1>1, <1>4, <1>5, <1>6 DEF Typed, Staging, Rows
<1>8. ASSUME NEW i \in Item PROVE Good(i)'
  <2>1. Follows(chunk.ledger[i], Profiles(Lines)) \/ Awaited(i, chunk.ledger[i], off + Len(Lines))
    BY <1>4 DEF Staging
  <2>2. Awaited(i, chunk.ledger[i], off + Len(Lines)) => Awaited(i, chunk.ledger[i], off)
    BY <1>5, ChunkOfLog DEF Awaited, Typed
  <2> QED BY <1>1, <1>2, <1>3, <1>4, <2>1, <2>2 DEF Good, Follows
<1>9. Underway'
  BY <1>1, <1>2, <1>3, <1>4, <1>6 DEF Underway
<1> QED BY <1>7, <1>8, <1>9 DEF LInv

(* The second: both tables are those of the chunk. *)
LEMMA CommitPatronsKeeps ==
  ASSUME LInv, CommitPatrons
  PROVE  LInv'
<1>1. /\ UNCHANGED <<log, off, ledger, chunk, unsaved, reread>>
      /\ pc = "patrons" /\ pc' = "save" /\ profile' = chunk.profile
  BY DEF CommitPatrons
<1>2. /\ Lines' = Lines /\ ChunkEnd' = ChunkEnd
      /\ \A i, row, from : Awaited(i, row, from)' = Awaited(i, row, from)
      /\ \A i, row : Logged(i, row)' = Logged(i, row)
  BY <1>1, SameChunk
<1>3. /\ unsaved # 0 /\ chunk.to = ChunkEnd /\ chunk.profile = Profiles(Lines) /\ ledger = chunk.ledger
      /\ Staging(chunk.ledger, chunk.profile, Len(Lines))
  BY <1>1 DEF LInv, Underway
<1>4. Profiles(Lines)' = chunk.profile
  BY <1>1, <1>2, <1>3 DEF Profiles
<1>5. Typed
  BY DEF LInv
<1>6. Staging(chunk.ledger, chunk.profile, Len(Lines))'
  BY <1>1, <1>2, <1>3 DEF Staging, Rows, IsRow, Follows
<1>7. Typed' /\ Rows(ledger)'
  BY <1>1, <1>3, <1>5, <1>6 DEF Typed, Staging, Rows
<1>8. ASSUME NEW i \in Item PROVE Good(i)'
  <2>1. Follows(chunk.ledger[i], chunk.profile) \/ Awaited(i, chunk.ledger[i], off + Len(Lines))
    BY <1>3 DEF Staging
  <2>2. Awaited(i, chunk.ledger[i], off + Len(Lines)) => Awaited(i, chunk.ledger[i], off)
    BY <1>5, ChunkOfLog DEF Awaited, Typed
  <2> QED BY <1>1, <1>2, <1>3, <2>1, <2>2 DEF Good, Follows
<1>9. Underway'
  BY <1>1, <1>2, <1>3, <1>4, <1>6 DEF Underway
<1> QED BY <1>7, <1>8, <1>9 DEF LInv

(* The cursor is saved: what was to be read again is still ahead of it. *)
LEMMA SaveCursorKeeps ==
  ASSUME LInv, SaveCursor
  PROVE  LInv'
<1>1. /\ UNCHANGED <<log, ledger, profile, reread>> /\ off' = chunk.to
      /\ pc = "save" /\ pc' = "idle" /\ unsaved' = IF unsaved > chunk.to THEN unsaved ELSE 0
  BY DEF SaveCursor
<1>2. /\ chunk.to = ChunkEnd /\ profile = chunk.profile /\ ledger = chunk.ledger
      /\ Staging(chunk.ledger, chunk.profile, Len(Lines))
  BY <1>1 DEF LInv, Underway
<1>3. Typed /\ Rows(ledger)
  BY DEF LInv
<1>4. ChunkEnd \in 0..Len(log) /\ off + Len(Lines) = ChunkEnd
  BY <1>3, ChunkOfLog DEF Typed
<1>5. Typed' /\ Rows(ledger)'
  BY <1>1, <1>2, <1>3, <1>4 DEF Typed, Rows, IsRow, Logged, IsHold
<1>6. ASSUME NEW i \in Item PROVE Good(i)'
  <2>1. Follows(ledger[i], profile) \/ Awaited(i, ledger[i], ChunkEnd)
    BY <1>2, <1>4 DEF Staging
  <2> QED BY <1>1, <1>2, <2>1 DEF Good, Follows, Awaited, IsHold
<1> QED BY <1>1, <1>5, <1>6 DEF LInv, Underway

(* The cursor is lost: everything is read again, the holds of all rows. *)
LEMMA LoseCursorKeeps ==
  ASSUME LInv, LoseCursor
  PROVE  LInv'
<1>1. /\ UNCHANGED <<log, ledger, profile, pc, unsaved>> /\ off' = 0 /\ pc = "idle" /\ reread' # "never"
  BY DEF LoseCursor
<1>2. Typed /\ Rows(ledger)
  BY DEF LInv
<1>3. Typed' /\ Rows(ledger)'
  BY <1>1, <1>2 DEF Typed, Rows, IsRow, Logged, IsHold
<1>4. ASSUME NEW i \in Item PROVE Good(i)'
  <2>1. Logged(i, ledger[i])
    BY <1>2 DEF Rows
  <2> QED BY <1>1, <2>1 DEF Good, Follows, Awaited, Logged, IsHold
<1> QED BY <1>1, <1>3, <1>4 DEF LInv, Underway

(* Every step keeps it. *)
LEMMA LedgerStep == ASSUME ~Regrowth PROVE LInv /\ [Next]_vars => LInv'
<1> SUFFICES ASSUME LInv, [Next]_vars PROVE LInv'
  OBVIOUS
<1>1. CASE UNCHANGED vars
  <2>1. UNCHANGED <<log, off, ledger, profile, pc, chunk, unsaved, reread>>
    BY <1>1 DEF vars
  <2>2. Typed' = Typed /\ (Rows(ledger)' <=> Rows(ledger))
    BY <2>1 DEF Typed, Rows, IsRow, Logged, IsHold
  <2>3. ASSUME NEW i \in Item PROVE Good(i)' <=> Good(i)
    BY <2>1 DEF Good, Follows, Awaited, IsHold, Profiles, Lines, ChunkEnd
  <2>4. Underway' <=> Underway
    <3>1. Lines' = Lines /\ ChunkEnd' = ChunkEnd /\ Profiles(Lines)' = Profiles(Lines)
      BY <2>1 DEF Lines, ChunkEnd, Profiles
    <3>2. Staging(chunk.ledger, chunk.profile, Len(Lines))' <=> Staging(chunk.ledger, chunk.profile, Len(Lines))
      BY <2>1, <3>1 DEF Staging, Rows, IsRow, Logged, Follows, Awaited, IsHold
    <3> QED BY <2>1, <3>1, <3>2 DEF Underway
  <2> QED BY <2>2, <2>3, <2>4 DEF LInv
<1>2. CASE AppendRecord
  BY <1>2, AppendRecordKeeps
<1>3. CASE ReadChunk
  BY <1>3, ReadChunkKeeps
<1>4. CASE Send \/ Interrupt
  BY <1>4, OutsideKeeps
<1>5. CASE CommitHolds
  BY <1>5, CommitHoldsKeeps
<1>6. CASE CommitPatrons
  BY <1>6, CommitPatronsKeeps
<1>7. CASE SaveCursor
  BY <1>7, SaveCursorKeeps
<1>8. CASE LoseCursor
  BY <1>8, LoseCursorKeeps
<1>9. CASE ReadNothing
  BY <1>1, <1>9 DEF ReadNothing
<1> QED BY <1>1, <1>2, <1>3, <1>4, <1>5, <1>6, <1>7, <1>8, <1>9 DEF Next

(* The invariant of the ledger is one: every row has a hold of the log     *)
(* behind it, and follows a profile or has that hold still before it.      *)
THEOREM LedgerIsGood == ASSUME ~Regrowth PROVE Spec => []LInv
<1>1. Init => LInv
  BY LedgerInit
<1>2. LInv /\ [Next]_vars => LInv'
  BY LedgerStep
<1> QED BY <1>1, <1>2, PTL DEF Spec

(* However the log is cut into chunks and whenever a run fails, between    *)
(* the two transactions of the cache too, the ledger follows the profiles  *)
(* when no chunk is half done.                                             *)
THEOREM LedgerFollowsProfilesAlways == ASSUME ~Regrowth PROVE Spec => []LedgerFollowsProfiles
<1>1. LInv => LedgerFollowsProfiles
  BY DEF LInv, Good, LedgerFollowsProfiles
<1> QED BY <1>1, LedgerIsGood, PTL

(* A log that was read to its end leaves no exception.                     *)
THEOREM LedgerFollowsAtTheEnd ==
  ASSUME ~Regrowth
  PROVE  Spec => [](CaughtUp /\ unsaved = 0 => \A i \in Item : Follows(ledger[i], profile))
<1>1. LInv => (CaughtUp /\ unsaved = 0 => \A i \in Item : Follows(ledger[i], profile))
  BY DEF LInv, Typed, Good, Awaited, CaughtUp
<1> QED BY <1>1, LedgerIsGood, PTL

-----------------------------------------------------------------------------
(* After a lost cursor: the second invariant.  Of an item that has no two  *)
(* records in one second, the server's last row of its newest hold is what *)
(* the ledger says of that hold, or is about to say.                       *)

(* How far the log is read, the chunk that is or was under way included,   *)
(* and the profiles once that chunk is done; how far it was ever read, if  *)
(* that was m before that chunk.                                           *)
End     == IF unsaved = 0 THEN off ELSE ChunkEnd
New     == IF unsaved = 0 THEN profile ELSE Profiles(Lines)
Upto(m) == IF End > m THEN End ELSE m

(* An event of a record; a row of one. *)
Matches(e, r)       == r.kind # "profile" /\ e.state = r.kind /\ e.item = r.item /\ e.time = r.time
Source(r, e)        == Matches(e, r) /\ (r.kind = "hold" /\ r.patron = NoPatron => e.flags = r.static)
From(e, n)          == e.rev \in Nat /\ \E k \in 1..n : Source(log[k], e)
OfRecord(row, i, r) == IsHold(r, i, row.time) /\ row.patron = r.patron /\ row.static = r.static
Behind(row, i, n)   == row = NoRow \/ \E k \in 1..n : OfRecord(row, i, log[k])
IsProfile(r, p)     == r.kind = "profile" /\ r.patron = p

(* What the server has, and what of the chunk it is still to get.          *)
Elems(s)  == {s[k] : k \in DOMAIN s}
IsSeq(s)  == s \in Seq(Elems(s))
Delivered == Elems(rows)
Ahead     == IF pc = "send" THEN {chunk.events[j] : j \in (sent + 1)..Len(chunk.events)} ELSE {}

Phase ==
  /\ unsaved \in {0, ChunkEnd} /\ (unsaved # 0 => off < Len(log))
  /\ IsSeq(rows) /\ (pc = "send" => IsSeq(chunk.events) /\ sent \in 0..(Len(chunk.events) - 1))

(* The profiles are those of the log as far as it is read. *)
ProfilesKnown(m) ==
  \A p \in Patron :
    /\ (\A k \in 1..Upto(m) : ~IsProfile(log[k], p)) => New[p] = {}
    /\ \A k \in 1..End : IsProfile(log[k], p) /\ (\A j \in (k + 1)..End : ~IsProfile(log[j], p)) =>
         New[p] = log[k].outcome

(* Rows and events come of records, and every record has its event. *)
RowKnown(row, i, m) == row.rev \in Nat /\ Behind(row, i, Upto(m))
RowsKnown(m) ==
  /\ \A i \in Item : RowKnown(ledger[i], i, m) /\ (Follows(ledger[i], profile) \/ Follows(ledger[i], New))
  /\ pc # "idle" => \A i \in Item : RowKnown(chunk.ledger[i], i, m) /\ Follows(chunk.ledger[i], New)
EventsKnown(m) == \A e \in Delivered \cup Ahead : From(e, Upto(m))
Has(events, k) == log[k].kind # "profile" => \E e \in events : Matches(e, log[k])
Covered ==
  /\ \A k \in 1..off : Has(Delivered, k)
  /\ pc # "idle" => \A k \in (off + 1)..ChunkEnd : Has(Delivered \cup Ahead, k)

(* The newest hold of the item among the first n records, unless a 101     *)
(* record is newer; an event of it.                                        *)
Top(i, k, n) ==
  /\ IsHold(log[k], i, log[k].time) /\ log[k].patron # NoPatron
  /\ \A j \in 1..n : log[j].kind \in Overview /\ log[j].item = i => log[j].time <= log[k].time
Same(e, i, t) == e.state = "hold" /\ e.item = i /\ e.time = t

(* What the ledger says of that hold, once the chunk is done, is the last  *)
(* the server heard of it or is about to hear.                             *)
Settled(m, i, k) ==
  LET row == HoldRow(ledger[i], log[k], New)
      e   == HoldEvent(i, row)
  IN /\ k <= m => OfRecord(ledger[i], i, log[k]) /\ HoldEvent(i, ledger[i]) \in Delivered
     /\ \A j \in DOMAIN rows : Same(rows[j], i, log[k].time) =>
          rows[j].rev <= row.rev /\ (e \in Delivered => \E n \in j..Len(rows) : rows[n] = e)
     /\ pc # "idle" => chunk.ledger[i] = row /\ e \in Delivered \cup Ahead
     /\ \A a \in Ahead : Same(a, i, log[k].time) => a = e
AllSettled(m) == \A i \in Item, k \in 1..Upto(m) : Alone(i) /\ Top(i, k, Upto(m)) => Settled(m, i, k)

Sure(m) == ProfilesKnown(m) /\ RowsKnown(m) /\ EventsKnown(m) /\ AllSettled(m)
SInv    == reread # "torn" => Phase /\ Covered /\ \E m \in off..Len(log) : Sure(m)

-----------------------------------------------------------------------------
(* Sequences, records and rows.                                            *)

(* An element appended to a sequence. *)
LEMMA AppendIs ==
  ASSUME NEW s, IsSeq(s), NEW e
  PROVE  IsSeq(Append(s, e)) /\ Elems(Append(s, e)) = Elems(s) \cup {e}
<1> DEFINE S == Elems(s) \cup {e}
           a == Append(s, e)
<1>1. s \in Seq(S) /\ Len(s) \in Nat /\ DOMAIN s = 1..Len(s)
  BY DEF IsSeq
<1>2. /\ a \in Seq(S) /\ Len(a) = Len(s) + 1 /\ a[Len(s) + 1] = e
      /\ \A k \in 1..Len(s) : a[k] = s[k]
  <2> HIDE DEF S
  <2> QED BY <1>1, AppendProperties DEF S
<1>3. DOMAIN a = 1..(Len(s) + 1)
  BY <1>1, <1>2
<1> HIDE DEF a
<1>4. Elems(a) = S
  <2>1. Elems(a) \subseteq S
    BY <1>2 DEF Elems
  <2>2. ASSUME NEW k \in 1..Len(s) PROVE s[k] \in Elems(a)
    BY <1>1, <1>2, <1>3 DEF Elems
  <2>3. e \in Elems(a)
    BY <1>1, <1>2, <1>3 DEF Elems
  <2>4. Elems(s) \subseteq Elems(a)
    BY <1>1, <2>2 DEF Elems
  <2> QED BY <2>1, <2>3, <2>4
<1> QED BY <1>2, <1>4 DEF IsSeq, a

(* Two sequences in a row. *)
LEMMA ConcatIs ==
  ASSUME NEW s, IsSeq(s), NEW t, IsSeq(t)
  PROVE  /\ IsSeq(s \o t) /\ Elems(s \o t) = Elems(s) \cup Elems(t)
         /\ Len(s) \in Nat /\ Len(t) \in Nat /\ Len(s \o t) = Len(s) + Len(t)
         /\ \A k \in 1..Len(s) : (s \o t)[k] = s[k]
         /\ \A k \in 1..Len(t) : (s \o t)[Len(s) + k] = t[k]
<1> DEFINE S == Elems(s) \cup Elems(t)
           c == s \o t
<1>1. s \in Seq(S) /\ t \in Seq(S) /\ Len(s) \in Nat /\ Len(t) \in Nat
      /\ DOMAIN s = 1..Len(s) /\ DOMAIN t = 1..Len(t)
  BY DEF IsSeq
<1>2. /\ c \in Seq(S) /\ Len(c) = Len(s) + Len(t)
      /\ \A i \in 1..(Len(s) + Len(t)) : c[i] = IF i <= Len(s) THEN s[i] ELSE t[i - Len(s)]
  <2> HIDE DEF S
  <2> QED BY <1>1, ConcatProperties
<1>3. DOMAIN c = 1..(Len(s) + Len(t))
  BY <1>1, <1>2
<1> HIDE DEF c
<1>4. ASSUME NEW k \in 1..Len(s) PROVE c[k] = s[k] /\ k \in DOMAIN c
  BY <1>1, <1>2, <1>3
<1>5. ASSUME NEW k \in 1..Len(t) PROVE c[Len(s) + k] = t[k] /\ Len(s) + k \in DOMAIN c
  <2>1. Len(s) + k \in 1..(Len(s) + Len(t)) /\ ~(Len(s) + k <= Len(s)) /\ Len(s) + k - Len(s) = k
    BY <1>1
  <2> QED BY <2>1, <1>2, <1>3
<1>6. Elems(c) = S
  <2>1. Elems(c) \subseteq S
    BY <1>2 DEF Elems
  <2>2. Elems(s) \subseteq Elems(c)
    BY <1>1, <1>4 DEF Elems
  <2>3. Elems(t) \subseteq Elems(c)
    BY <1>1, <1>5 DEF Elems
  <2> QED BY <2>1, <2>2, <2>3
<1> QED BY <1>1, <1>2, <1>4, <1>5, <1>6 DEF IsSeq, c

(* A record is a profile or of an item. *)
LEMMA RecordIs ==
  ASSUME NEW r \in Record
  PROVE  /\ r.kind = "profile" => r.patron \in Patron
         /\ r.kind # "profile" =>
              r.item \in Item /\ r.time \in Nat \ {0} /\ r.kind \in {"hold", "non_hold_101", "other_code10"}
         /\ r.kind = "hold" => r.patron \in Patron \cup {NoPatron}
BY LedgerAssumption DEF Record, Time

(* A hold read again under the row it has: the row, moved on if its flags  *)
(* did.  A hold the ledger knows no row of begins at revision 0.           *)
LEMMA HoldRowIs ==
  ASSUME NEW old, NEW r, NEW new, NEW i, r.time \in Nat \ {0}, r.patron \in Patron
  PROVE  LET row == HoldRow(old, r, new) IN
         /\ row = [time |-> r.time, patron |-> r.patron, static |-> r.static,
                   flags |-> Combine(r.static, new[r.patron]), rev |-> row.rev]
         /\ row.flags = Combine(r.static, new[r.patron]) /\ row.time = r.time
         /\ row.patron = r.patron /\ row.static = r.static /\ row # NoRow
         /\ (old.time # r.time => row.rev = 0)
         /\ (old # NoRow /\ old.time = r.time =>
               row.rev = IF old.flags = Combine(r.static, new[r.patron]) THEN old.rev ELSE old.rev + 1)
BY LedgerAssumption DEF HoldRow, NoRow

(* In particular, a row that is right stays. *)
LEMMA RowStays ==
  ASSUME NEW row, NEW r, NEW new, NEW i, IsRow(row), OfRecord(row, i, r), r.time \in Nat \ {0},
         r.patron \in Patron, row.flags = Combine(r.static, new[r.patron])
  PROVE  HoldRow(row, r, new) = row
<1>1. row # NoRow /\ row.time = r.time
  BY DEF OfRecord, IsHold, NoRow
<1>2. HoldRow(row, r, new).rev = row.rev
  BY <1>1, HoldRowIs
<1>3. HoldRow(row, r, new) = [time |-> r.time, patron |-> r.patron, static |-> r.static,
                   flags |-> Combine(r.static, new[r.patron]), rev |-> HoldRow(row, r, new).rev]
  BY HoldRowIs
<1> QED BY <1>1, <1>2, <1>3 DEF IsRow, OfRecord

-----------------------------------------------------------------------------
(* A chunk of which every row and event is known, and the newest hold      *)
(* settled.                                                                *)

(* What is staged after x lines of the chunk, of a log of which n records  *)
(* are read.                                                               *)
Sound(acc, new, n, x) ==
  /\ acc.ledger = [i \in Item |-> acc.ledger[i]] /\ IsSeq(acc.events)
  /\ \A i \in Item : IsRow(acc.ledger[i]) /\ acc.ledger[i].rev \in Nat /\ Behind(acc.ledger[i], i, n)
                     /\ Follows(acc.ledger[i], new)
  /\ \A e \in Elems(acc.events) : From(e, n)
  /\ \A y \in 1..x : Lines[y].kind # "profile" => \E e \in Elems(acc.events) : Matches(e, Lines[y])

(* The row of the newest hold: right from the beginning if the ledger has  *)
(* it, and else once the hold is read.                                     *)
Settles(acc, row, i, k, x) ==
  /\ \A e \in Elems(acc.events) : Same(e, i, log[k].time) => e = HoldEvent(i, row)
  /\ OfRecord(ledger[i], i, log[k]) \/ k \in (off + 1)..(off + x) => acc.ledger[i] = row
  /\ ~OfRecord(ledger[i], i, log[k]) /\ ~(k \in (off + 1)..(off + x)) =>
       /\ acc.ledger[i].time < log[k].time
       /\ \A e \in Elems(acc.events) : ~Same(e, i, log[k].time)

(* A finite set can be listed. *)
LEMMA Listed ==
  ASSUME NEW S, IsFiniteSet(S)
  PROVE  \E f \in [1..Cardinality(S) -> S] : \A i \in S : \E k \in DOMAIN f : f[k] = i
BY FS_CardinalityType DEF ExistsBijection, Bijection, Injection, Surjection, IsInjective

(* The events of pass 1 are the corrections. *)
LEMMA Pass1Sends ==
  ASSUME NEW new
  PROVE  /\ IsSeq(Pass1(new).events)
         /\ \A i \in Item : Corrected(i, new) => HoldEvent(i, CorrectedRow(ledger[i], new)) \in Elems(Pass1(new).events)
         /\ \A e \in Elems(Pass1(new).events) :
              \E i \in Item : Corrected(i, new) /\ e = HoldEvent(i, CorrectedRow(ledger[i], new))
<1> DEFINE items == {i \in Item : Corrected(i, new)}
           order == CHOOSE f \in [1..Cardinality(items) -> items] : \A i \in items : \E k \in DOMAIN f : f[k] = i
           ev    == [k \in DOMAIN order |-> HoldEvent(order[k], CorrectedRow(ledger[order[k]], new))]
<1>1. IsFiniteSet(items) /\ Cardinality(items) \in Nat
  <2>1. IsFiniteSet(items)
    BY LedgerAssumption, FS_Subset
  <2> QED BY <2>1, FS_CardinalityType
<1>2. Pass1(new).events = ev
  BY DEF Pass1
<1>3. order \in [1..Cardinality(items) -> items] /\ \A i \in items : \E k \in DOMAIN order : order[k] = i
  <2> HIDE DEF items
  <2>1. \E f \in [1..Cardinality(items) -> items] : \A i \in items : \E k \in DOMAIN f : f[k] = i
    BY <1>1, Listed
  <2> QED BY <2>1
<1> HIDE DEF order
<1>4. DOMAIN ev = 1..Cardinality(items) /\ ev \in Seq(Elems(ev))
  <2>1. \A k \in 1..Cardinality(items) : ev[k] \in Elems(ev)
    BY <1>3 DEF Elems
  <2>2. ev = [k \in 1..Cardinality(items) |-> ev[k]]
    BY <1>3
  <2> DEFINE N == Cardinality(items)
  <2>3. N \in Nat /\ (\A k \in 1..N : ev[k] \in Elems(ev)) /\ ev = [k \in 1..N |-> ev[k]]
    BY <1>1, <2>1, <2>2
  <2> HIDE DEF ev, N
  <2>4. ev \in [1..N -> Elems(ev)]
    BY <2>3
  <2>5. DOMAIN ev = 1..N /\ ev \in Seq(Elems(ev))
    BY <2>3, <2>4
  <2> QED BY <2>5 DEF N
<1> QED BY <1>2, <1>3, <1>4 DEF IsSeq, Elems

(* Pass 1. *)
LEMMA Pass1Sound ==
  ASSUME Typed, Rows(ledger), NEW n \in Nat,
         \A i \in Item : ledger[i].rev \in Nat /\ Behind(ledger[i], i, n)
                         /\ (Follows(ledger[i], profile) \/ Follows(ledger[i], Profiles(Lines)))
  PROVE  Sound(Pass1(Profiles(Lines)), Profiles(Lines), n, 0)
<1> DEFINE new   == Profiles(Lines)
           table == Pass1(new).ledger
           ev    == Pass1(new).events
<1>1. table = [i \in Item |-> IF Corrected(i, new) THEN CorrectedRow(ledger[i], new) ELSE ledger[i]]
  BY DEF Pass1
<1>2. ASSUME NEW i \in Item, Corrected(i, new)
      PROVE  LET row == CorrectedRow(ledger[i], new) IN
             /\ IsRow(row) /\ row.rev \in Nat /\ Behind(row, i, n) /\ Follows(row, new) /\ From(HoldEvent(i, row), n)
  <2>1. ledger[i] # NoRow /\ IsRow(ledger[i]) /\ ledger[i].rev \in Nat /\ Behind(ledger[i], i, n)
    BY <1>2 DEF Corrected, Rows
  <2> DEFINE row == CorrectedRow(ledger[i], new)
  <2> HIDE DEF new
  <2>8. row = CorrectedRow(ledger[i], new)
    OBVIOUS
  <2> HIDE DEF row
  <2>2. row = [time |-> ledger[i].time, patron |-> ledger[i].patron, static |-> ledger[i].static,
               flags |-> Combine(ledger[i].static, new[ledger[i].patron]), rev |-> ledger[i].rev + 1]
    BY <2>8, <2>1 DEF IsRow, CorrectedRow
  <2>3. ledger[i].patron \in Patron /\ ledger[i].time \in Nat
    BY <2>1 DEF IsRow
  <2>4. PICK k \in 1..n : OfRecord(ledger[i], i, log[k])
    BY <2>1 DEF Behind
  <2>5. IsRow(row) /\ row.rev \in Nat /\ Follows(row, new) /\ OfRecord(row, i, log[k])
    BY <2>1, <2>2, <2>3, <2>4 DEF IsRow, Follows, OfRecord
  <2>6. Source(log[k], HoldEvent(i, row)) /\ HoldEvent(i, row).rev = row.rev
    BY <2>2, <2>3, <2>5, LedgerAssumption DEF Source, Matches, OfRecord, IsHold, HoldEvent, Event
  <2>7. From(HoldEvent(i, row), n)
    BY <2>5, <2>6 DEF From
  <2> QED BY <2>5, <2>7 DEF Behind, row
<1>3. ASSUME NEW i \in Item
      PROVE  IsRow(table[i]) /\ table[i].rev \in Nat /\ Behind(table[i], i, n) /\ Follows(table[i], new)
  <2>1. CASE Corrected(i, new)
    <3>1. table[i] = CorrectedRow(ledger[i], new)
      BY <1>1, <2>1
    <3> HIDE DEF table, new
    <3> QED BY <3>1, <2>1, <1>2
  <2>2. CASE ~Corrected(i, new)
    <3>1. table[i] = ledger[i]
      BY <1>1, <2>2
    <3>2. Follows(ledger[i], new)
      BY <2>2 DEF Corrected, Follows
    <3> QED BY <3>1, <3>2 DEF Rows
  <2> QED BY <2>1, <2>2
<1>4. IsSeq(ev) /\ \A e \in Elems(ev) : \E i \in Item : Corrected(i, new) /\ e = HoldEvent(i, CorrectedRow(ledger[i], new))
  BY Pass1Sends
<1>5. table = [i \in Item |-> table[i]]
  BY <1>1
<1> HIDE DEF new, table, ev
<1>6. \A e \in Elems(ev) : From(e, n)
  BY <1>2, <1>4
<1> QED BY <1>3, <1>4, <1>5, <1>6 DEF Sound, table, ev, new

(* Pass 2, one line. *)
LEMMA Pass2Sound ==
  ASSUME Typed, NEW new, NEW acc, NEW x \in 1..Len(Lines), NEW n \in Nat, ChunkEnd <= n,
         Sound(acc, new, n, x - 1)
  PROVE  Sound(Pass2(acc, Lines[x], new), new, n, x)
<1> DEFINE r   == Lines[x]
           nxt == Pass2(acc, r, new)
<1>1. r = log[off + x] /\ r \in Record /\ off + x \in 1..n
  BY ChunkOfLog DEF Typed
<1>2. /\ r.kind = "profile" => r.patron \in Patron
      /\ r.kind # "profile" => r.item \in Item /\ r.time \in Nat \ {0} /\ r.kind \in {"hold", "non_hold_101", "other_code10"}
      /\ r.kind = "hold" => r.patron \in Patron \cup {NoPatron}
  BY <1>1, RecordIs
<1>3. \A y \in 1..x : y = x \/ y \in 1..(x - 1)
  BY ChunkOfLog DEF Typed
<1> HIDE DEF r
<1>4. CASE r.kind = "profile"
  <2>1. nxt = acc
    BY <1>4 DEF Pass2
  <2> QED BY <1>3, <1>4, <2>1 DEF Sound, r
<1>5. CASE r.kind # "profile"
  <2> DEFINE old == acc.ledger[r.item]
             e   == IF r.kind = "hold" THEN HoldEvent(r.item, HoldRow(old, r, new))
                                       ELSE Event(r.kind, r.item, r.time, {}, 0)
  <2>1. nxt.ledger = [acc.ledger EXCEPT ![r.item] = Kept(old, r, new)] /\ nxt.events = Append(acc.events, e)
    BY <1>5 DEF Pass2
  <2>2. acc.ledger = [i \in Item |-> acc.ledger[i]] /\ IsSeq(acc.events)
        /\ (\A e2 \in Elems(acc.events) : From(e2, n))
        /\ IsRow(old) /\ old.rev \in Nat /\ Behind(old, r.item, n) /\ Follows(old, new)
    BY <1>2, <1>5 DEF Sound
  <2>3. IsSeq(nxt.events) /\ Elems(nxt.events) = Elems(acc.events) \cup {e}
    <3> HIDE DEF e
    <3> QED BY <2>1, <2>2, AppendIs
  <2>4. r.kind = "hold" => /\ HoldRow(old, r, new).rev \in Nat /\ HoldRow(old, r, new).time = r.time
                           /\ HoldRow(old, r, new).flags = Combine(r.static, IF r.patron = NoPatron THEN {} ELSE new[r.patron])
    BY <2>2 DEF HoldRow
  <2>5. Matches(e, r) /\ From(e, n)
    <3>1. e.state = r.kind /\ e.item = r.item /\ e.time = r.time /\ e.rev \in Nat
      BY <2>4, <1>2, <1>5 DEF HoldEvent, Event
    <3>2. r.kind = "hold" /\ r.patron = NoPatron => e.flags = r.static
      BY <2>4 DEF HoldEvent, Event, Combine
    <3> HIDE DEF e
    <3>3. Source(log[off + x], e)
      BY <3>1, <3>2, <1>1, <1>5 DEF Source, Matches
    <3> QED BY <3>1, <3>3, <1>1, <1>5 DEF From, Matches
  <2>6. LET row == Kept(old, r, new) IN
        IsRow(row) /\ row.rev \in Nat /\ Behind(row, r.item, n) /\ Follows(row, new)
    <3>1. IsRow(NoRow) /\ NoRow.rev \in Nat /\ Behind(NoRow, r.item, n) /\ Follows(NoRow, new)
      BY DEF IsRow, NoRow, Behind, Follows
    <3>2. CASE Kept(old, r, new) = NoRow
      BY <3>1, <3>2
    <3>3. CASE Kept(old, r, new) = old
      BY <2>2, <3>3
    <3>4. CASE r.kind = "hold" /\ r.patron # NoPatron /\ Kept(old, r, new) = HoldRow(old, r, new)
      <4> DEFINE row == HoldRow(old, r, new)
      <4>1. r.patron \in Patron /\ r.time \in Nat
        BY <3>4, <1>2
      <4>2. /\ row = [time |-> r.time, patron |-> r.patron, static |-> r.static,
                      flags |-> Combine(r.static, new[r.patron]), rev |-> row.rev]
            /\ row.rev \in Nat
        BY <2>4, <3>4 DEF HoldRow
      <4> HIDE DEF row
      <4>3. IsRow(row) /\ Follows(row, new) /\ OfRecord(row, r.item, log[off + x])
        BY <4>1, <4>2, <3>4, <1>1 DEF IsRow, Follows, OfRecord, IsHold
      <4> QED BY <4>2, <4>3, <3>4, <1>1 DEF Behind, row
    <3>5. Kept(old, r, new) = NoRow \/ Kept(old, r, new) = old
          \/ (r.kind = "hold" /\ r.patron # NoPatron /\ Kept(old, r, new) = HoldRow(old, r, new))
      BY <2>2, <1>2, <1>5 DEF Kept, IsRow
    <3> QED BY <3>2, <3>3, <3>4, <3>5
  <2> HIDE DEF e, nxt
  <2>7. nxt.ledger = [i \in Item |-> nxt.ledger[i]]
    BY <2>1, <2>2
  <2>8. ASSUME NEW i \in Item
        PROVE  IsRow(nxt.ledger[i]) /\ nxt.ledger[i].rev \in Nat /\ Behind(nxt.ledger[i], i, n) /\ Follows(nxt.ledger[i], new)
    <3>1. CASE i = r.item
      <4>1. nxt.ledger[i] = Kept(old, r, new)
        BY <2>1, <2>2, <3>1
      <4> QED BY <4>1, <3>1, <2>6
    <3>2. CASE i # r.item
      <4>1. nxt.ledger[i] = acc.ledger[i]
        BY <2>1, <2>2, <3>2
      <4> QED BY <4>1 DEF Sound
    <3> QED BY <3>1, <3>2
  <2>9. \A y \in 1..x : Lines[y].kind # "profile" => \E e2 \in Elems(nxt.events) : Matches(e2, Lines[y])
    BY <1>3, <2>3, <2>5 DEF Sound, r
  <2>10. \A e2 \in Elems(nxt.events) : From(e2, n)
    BY <2>2, <2>3, <2>5
  <2> QED BY <2>3, <2>7, <2>8, <2>9, <2>10 DEF Sound, nxt, r
<1> QED BY <1>4, <1>5

(* A row of the item is of its newest hold, or older. *)
LEMMA RowIsOlder ==
  ASSUME Typed, NEW i \in Item, NEW n \in 0..Len(log), NEW k \in 1..n, Alone(i), Top(i, k, n),
         NEW row, IsRow(row), Behind(row, i, n)
  PROVE  /\ log[k] \in Record /\ log[k].time \in Nat \ {0} /\ log[k].patron \in Patron
         /\ log[k].kind = "hold" /\ log[k].item = i
         /\ row.time < log[k].time \/ (OfRecord(row, i, log[k]) /\ row # NoRow)
<1>1. /\ log[k] \in Record /\ log[k].time \in Nat \ {0} /\ log[k].patron \in Patron
      /\ log[k].kind = "hold" /\ log[k].item = i
  <2>1. log[k] \in Record /\ log[k].kind = "hold" /\ log[k].item = i /\ log[k].patron # NoPatron
    BY DEF Typed, Top, IsHold
  <2> QED BY <2>1, RecordIs
<1>2. CASE row = NoRow
  BY <1>1, <1>2 DEF NoRow
<1>3. CASE row # NoRow
  <2>1. PICK j \in 1..n : OfRecord(row, i, log[j])
    BY <1>3 DEF Behind
  <2>2. log[j].kind = "hold" /\ log[j].item = i /\ log[j].time = row.time /\ row.time \in Nat
    BY <2>1 DEF OfRecord, IsHold, IsRow
  <2>3. row.time <= log[k].time
    BY <2>2 DEF Top, Overview
  <2>4. row.time = log[k].time => j = k
    BY <2>2, <1>1 DEF Alone, Typed
  <2> QED BY <1>1, <1>3, <2>1, <2>2, <2>3, <2>4
<1> QED BY <1>1, <1>2, <1>3

(* Pass 1 settles the row of the newest hold, if there is one; and unless  *)
(* that row is right as it is, its correction is sent.                     *)
LEMMA Pass1Settles ==
  ASSUME Typed, Rows(ledger), NEW i \in Item, NEW n \in 0..Len(log), NEW k \in 1..n, Alone(i), Top(i, k, n),
         Behind(ledger[i], i, n), Follows(ledger[i], profile) \/ Follows(ledger[i], Profiles(Lines))
  PROVE  LET new == Profiles(Lines)
             row == HoldRow(ledger[i], log[k], new)
         IN /\ Settles(Pass1(new), row, i, k, 0)
            /\ OfRecord(ledger[i], i, log[k]) => row = ledger[i] \/ HoldEvent(i, row) \in Elems(Pass1(new).events)
<1> DEFINE new   == Profiles(Lines)
           row   == HoldRow(ledger[i], log[k], new)
           table == Pass1(new).ledger
           ev    == Pass1(new).events
           right == CorrectedRow(ledger[i], new)
<1>1. /\ log[k] \in Record /\ log[k].time \in Nat \ {0} /\ log[k].patron \in Patron /\ IsRow(ledger[i])
      /\ ledger[i].time < log[k].time \/ (OfRecord(ledger[i], i, log[k]) /\ ledger[i] # NoRow)
  BY RowIsOlder DEF Rows
<1>2. table[i] = IF Corrected(i, new) THEN right ELSE ledger[i]
  BY DEF Pass1
<1>3. ~(k \in (off + 1)..(off + 0))
  BY DEF Typed
<1>4. /\ Corrected(i, new) => HoldEvent(i, right) \in Elems(ev)
      /\ \A e \in Elems(ev) : \E h \in Item : Corrected(h, new) /\ e = HoldEvent(h, CorrectedRow(ledger[h], new))
  BY Pass1Sends
<1>5. ASSUME NEW e \in Elems(ev), e.item = i PROVE Corrected(i, new) /\ e = HoldEvent(i, right)
  <2>1. PICK h \in Item : Corrected(h, new) /\ e = HoldEvent(h, CorrectedRow(ledger[h], new))
    BY <1>4
  <2>2. h = i
    BY <2>1, <1>5 DEF HoldEvent, Event
  <2> QED BY <2>1, <2>2
<1>6. Corrected(i, new) => ledger[i] # NoRow
  BY DEF Corrected
<1> HIDE DEF new
<1>7. right = [time |-> ledger[i].time, patron |-> ledger[i].patron, static |-> ledger[i].static,
               flags |-> Combine(ledger[i].static, new[ledger[i].patron]), rev |-> ledger[i].rev + 1]
  <2>1. right = CorrectedRow(ledger[i], new)
    OBVIOUS
  <2> HIDE DEF right
  <2> QED BY <2>1, <1>1 DEF IsRow, CorrectedRow
<1> HIDE DEF right, table, ev
<1>8. HoldEvent(i, right).time = ledger[i].time
  BY <1>7 DEF HoldEvent, Event
<1>9. CASE OfRecord(ledger[i], i, log[k]) /\ ledger[i] # NoRow
  <2>1. ledger[i].time = log[k].time /\ ledger[i].patron = log[k].patron /\ ledger[i].static = log[k].static
    BY <1>9 DEF OfRecord, IsHold
  <2>2. CASE ledger[i].flags = Combine(log[k].static, new[log[k].patron])
    <3>1. row = ledger[i]
      BY <1>1, <1>9, <2>2, RowStays
    <3>2. ~Corrected(i, new)
      BY <2>1, <2>2 DEF Corrected
    <3> HIDE DEF row
    <3>3. table[i] = row /\ \A e \in Elems(ev) : ~Same(e, i, log[k].time)
      BY <1>2, <1>5, <3>1, <3>2 DEF Same
    <3> QED BY <1>3, <1>9, <3>1, <3>3 DEF Settles, table, ev, row, new
  <2>3. CASE ledger[i].flags # Combine(log[k].static, new[log[k].patron])
    <3>1. ledger[i].flags = Combine(ledger[i].static, profile[ledger[i].patron])
      BY <1>9, <2>1, <2>3 DEF Follows, new
    <3>2. Corrected(i, new)
      BY <1>9, <2>1, <2>3, <3>1 DEF Corrected
    <3>3. row = right
      <4>1. row.rev = ledger[i].rev + 1
        BY <1>1, <1>9, <2>1, <2>3, HoldRowIs
      <4>2. row = [time |-> log[k].time, patron |-> log[k].patron, static |-> log[k].static,
                   flags |-> Combine(log[k].static, new[log[k].patron]), rev |-> row.rev]
        BY <1>1, HoldRowIs
      <4> HIDE DEF row
      <4> QED BY <1>7, <2>1, <4>1, <4>2
    <3> HIDE DEF row
    <3> QED BY <1>2, <1>3, <1>4, <1>5, <1>9, <3>2, <3>3 DEF Settles, Same, table, ev, row, new
  <2> QED BY <2>2, <2>3
<1>10. CASE ledger[i].time < log[k].time
  <2>1. ~OfRecord(ledger[i], i, log[k])
    BY <1>1, <1>10 DEF OfRecord, IsHold, IsRow
  <2>2. table[i].time < log[k].time
    BY <1>2, <1>7, <1>10
  <2>3. ASSUME NEW e \in Elems(ev) PROVE ~Same(e, i, log[k].time)
    <3>1. SUFFICES ASSUME e.item = i PROVE e.time # log[k].time
      BY DEF Same
    <3>2. e.time = ledger[i].time
      BY <1>5, <1>8, <3>1
    <3> QED BY <1>1, <1>10, <3>2 DEF IsRow
  <2> QED BY <1>3, <2>1, <2>2, <2>3 DEF Settles, table, ev, new
<1> QED BY <1>1, <1>9, <1>10

(* Pass 2 settles it when the hold is read, and leaves it settled. *)
LEMMA Pass2Settles ==
  ASSUME Typed, NEW new, NEW acc, NEW i \in Item, NEW n \in 0..Len(log), NEW k \in 1..n, Alone(i), Top(i, k, n),
         ChunkEnd <= n, NEW x \in 1..Len(Lines), Sound(acc, new, n, x - 1), Rows(ledger), Behind(ledger[i], i, n),
         Settles(acc, HoldRow(ledger[i], log[k], new), i, k, x - 1)
  PROVE  Settles(Pass2(acc, Lines[x], new), HoldRow(ledger[i], log[k], new), i, k, x)
<1> DEFINE r    == Lines[x]
           nxt  == Pass2(acc, r, new)
           row  == HoldRow(ledger[i], log[k], new)
           old  == acc.ledger[i]
           t    == log[k].time
           From0(y) == k \in (off + 1)..(off + y)
           Held  == OfRecord(ledger[i], i, log[k])
<1>1. r = log[off + x] /\ r \in Record /\ off + x \in 1..n /\ off + x \in 1..Len(log) /\ off \in Nat /\ x \in Nat \ {0}
  <2>1. /\ ChunkEnd \in off..Len(log) /\ Len(Lines) = ChunkEnd - off /\ off \in 0..Len(log) /\ Len(log) \in Nat
        /\ r = log[off + x] /\ r \in Record
    BY ChunkOfLog DEF Typed
  <2> HIDE DEF r
  <2> QED BY <2>1
<1>2. /\ r.kind = "profile" => r.patron \in Patron
      /\ r.kind # "profile" => r.item \in Item /\ r.time \in Nat \ {0} /\ r.kind \in {"hold", "non_hold_101", "other_code10"}
      /\ r.kind = "hold" => r.patron \in Patron \cup {NoPatron}
  BY <1>1, RecordIs
<1>3. acc.ledger = [h \in Item |-> acc.ledger[h]] /\ IsSeq(acc.events) /\ IsRow(old) /\ Behind(old, i, n) /\ Follows(old, new)
  BY DEF Sound
<1>4. /\ log[k] \in Record /\ log[k].time \in Nat \ {0} /\ log[k].patron \in Patron
      /\ log[k].kind = "hold" /\ log[k].item = i
  BY <1>3, RowIsOlder
<1>5. From0(x) <=> From0(x - 1) \/ k = off + x
  BY <1>1
<1>6. /\ \A e \in Elems(acc.events) : Same(e, i, t) => e = HoldEvent(i, row)
      /\ Held \/ From0(x - 1) => old = row
      /\ ~Held /\ ~From0(x - 1) => old.time < t /\ \A e \in Elems(acc.events) : ~Same(e, i, t)
  BY DEF Settles
<1>7. SUFFICES /\ \A e \in Elems(nxt.events) : Same(e, i, t) => e = HoldEvent(i, row)
               /\ Held \/ From0(x) => nxt.ledger[i] = row
               /\ ~Held /\ ~From0(x) => nxt.ledger[i].time < t /\ \A e \in Elems(nxt.events) : ~Same(e, i, t)
  BY DEF Settles
<1>8. row.time = t /\ row.patron = log[k].patron /\ row.static = log[k].static
      /\ row.flags = Combine(log[k].static, new[log[k].patron]) /\ row # NoRow
      /\ row = [time |-> t, patron |-> log[k].patron, static |-> log[k].static,
                   flags |-> Combine(log[k].static, new[log[k].patron]), rev |-> row.rev]
  BY <1>4, HoldRowIs
<1> DEFINE e == IF r.kind = "hold" THEN HoldEvent(r.item, HoldRow(acc.ledger[r.item], r, new))
                                   ELSE Event(r.kind, r.item, r.time, {}, 0)
<1>9. r.kind # "profile" =>
        /\ nxt.ledger = [acc.ledger EXCEPT ![r.item] = Kept(acc.ledger[r.item], r, new)]
        /\ nxt.events = Append(acc.events, e)
  BY DEF Pass2
<1>10. r.kind # "profile" => e.state = r.kind /\ e.item = r.item /\ e.time = r.time
  BY DEF HoldEvent, Event, HoldRow
<1> HIDE DEF r, nxt, e, row
<1>11. r.kind # "profile" => Elems(nxt.events) = Elems(acc.events) \cup {e}
  BY <1>3, <1>9, AppendIs
<1>12. CASE r.kind = "profile"
  <2>1. nxt = acc
    BY <1>12 DEF Pass2, nxt
  <2>2. k # off + x
    BY <1>1, <1>4, <1>12
  <2> QED BY <1>5, <1>6, <2>1, <2>2
<1>13. CASE r.kind # "profile" /\ r.item # i
  <2>1. nxt.ledger[i] = old /\ ~Same(e, i, t)
    BY <1>2, <1>3, <1>9, <1>10, <1>13 DEF Same
  <2>2. k # off + x
    BY <1>1, <1>4, <1>13
  <2> QED BY <1>5, <1>6, <1>11, <1>13, <2>1, <2>2
<1>14. CASE r.kind # "profile" /\ r.item = i /\ k # off + x
  <2>1. r.time # t
    BY <1>1, <1>4, <1>14 DEF Alone
  <2>2. r.kind \in Overview => r.time < t
    <3>1. r.kind \in Overview => r.time <= t
      BY <1>1, <1>14 DEF Top
    <3> QED BY <2>1, <3>1, <1>2, <1>4, <1>14
  <2>3. nxt.ledger[i] = Kept(old, r, new) /\ ~Same(e, i, t)
    BY <1>3, <1>9, <1>10, <1>14, <2>1 DEF Same
  <2>4. CASE old = row
    <3>1. ~(r.kind = "hold" /\ r.time >= old.time) /\ ~(r.kind # "hold" /\ Retracts(old, r))
      BY <1>2, <1>4, <1>8, <1>14, <2>1, <2>2, <2>4 DEF Retracts, Overview
    <3>2. nxt.ledger[i] = row
      BY <2>3, <2>4, <3>1 DEF Kept
    <3> QED BY <1>4, <1>5, <1>6, <1>8, <1>11, <1>14, <2>3, <2>4, <3>2
  <2>5. CASE ~Held /\ ~From0(x - 1)
    <3>1. nxt.ledger[i].time < t
      <4>1. Kept(old, r, new) = NoRow \/ Kept(old, r, new) = old
            \/ (r.kind = "hold" /\ Kept(old, r, new) = HoldRow(old, r, new))
        BY <1>3, <1>2, <1>14 DEF Kept, IsRow
      <4>2. NoRow.time < t /\ old.time < t
        BY <1>4, <1>6, <2>5 DEF NoRow
      <4>3. HoldRow(old, r, new).time = r.time
        BY DEF HoldRow
      <4> QED BY <2>2, <2>3, <4>1, <4>2, <4>3 DEF Overview
    <3> QED BY <1>5, <1>6, <1>11, <1>14, <2>3, <2>5, <3>1
  <2> QED BY <1>6, <2>4, <2>5
<1>15. CASE r.kind # "profile" /\ r.item = i /\ k = off + x
  <2>1. r = log[k] /\ r.kind = "hold" /\ r.patron \in Patron /\ r.time = t /\ r.item = i /\ r.patron # NoPatron
    BY <1>1, <1>4, <1>15, LedgerAssumption
  <2>2. HoldRow(old, r, new) = row
    <3>1. CASE Held \/ From0(x - 1)
      <4>1. old = row /\ IsRow(row)
        BY <1>3, <1>6, <3>1
      <4>2. OfRecord(row, i, r) /\ row.flags = Combine(r.static, new[r.patron])
        BY <1>8, <2>1 DEF OfRecord, IsHold
      <4> QED BY <1>4, <2>1, <4>1, <4>2, RowStays
    <3>2. CASE ~Held /\ ~From0(x - 1)
      <4>1. old.time # t
        BY <1>3, <1>4, <1>6, <3>2 DEF IsRow
      <4>2. ledger[i].time # t
        <5>1. IsRow(ledger[i])
          BY DEF Rows
        <5>2. ledger[i].time < t \/ Held
          BY <5>1, RowIsOlder
        <5> QED BY <1>4, <3>2, <5>1, <5>2 DEF IsRow
      <4>3. HoldRow(old, r, new).rev = 0 /\ row.rev = 0
        BY <1>4, <2>1, <4>1, <4>2, HoldRowIs DEF row
      <4>4. HoldRow(old, r, new) = [time |-> t, patron |-> log[k].patron, static |-> log[k].static,
                   flags |-> Combine(log[k].static, new[log[k].patron]), rev |-> HoldRow(old, r, new).rev]
        BY <1>4, <2>1, HoldRowIs
      <4> QED BY <1>8, <4>3, <4>4
    <3> QED BY <3>1, <3>2
  <2>3. e = HoldEvent(i, row)
    BY <2>1, <2>2 DEF e
  <2>4. r.time >= old.time
    <3>1. old.time < t \/ OfRecord(old, i, log[k])
      BY <1>3, RowIsOlder
    <3> QED BY <1>3, <1>4, <2>1, <3>1 DEF OfRecord, IsHold, IsRow
  <2>5. nxt.ledger[i] = row
    BY <1>3, <1>9, <1>15, <2>1, <2>2, <2>4 DEF Kept
  <2> QED BY <1>5, <1>6, <1>11, <1>15, <2>3, <2>5
<1> QED BY <1>12, <1>13, <1>14, <1>15

(* Pass 2 takes nothing back. *)
LEMMA Pass2Adds ==
  ASSUME NEW acc, IsSeq(acc.events), NEW r, NEW new
  PROVE  Elems(acc.events) \subseteq Elems(Pass2(acc, r, new).events)
<1> DEFINE e == IF r.kind = "hold" THEN HoldEvent(r.item, HoldRow(acc.ledger[r.item], r, new))
                                   ELSE Event(r.kind, r.item, r.time, {}, 0)
<1>1. Pass2(acc, r, new).events = acc.events \/ Pass2(acc, r, new).events = Append(acc.events, e)
  BY DEF Pass2
<1> HIDE DEF e
<1>2. Elems(acc.events) \subseteq Elems(Append(acc.events, e))
  BY AppendIs
<1> QED BY <1>1, <1>2

(* A chunk, as it is read: every row and every event of it is known, and   *)
(* it says of the newest hold what the ledger will say, if it was not said *)
(* before.                                                                 *)
LEMMA ChunkSettles ==
  ASSUME Typed, Rows(ledger), NEW n \in 0..Len(log), ChunkEnd <= n,
         \A i \in Item : ledger[i].rev \in Nat /\ Behind(ledger[i], i, n)
                         /\ (Follows(ledger[i], profile) \/ Follows(ledger[i], Profiles(Lines)))
  PROVE  LET new  == Profiles(Lines)
             done == Staged(Lines, new)[Len(Lines)]
         IN /\ Sound(done, new, n, Len(Lines))
            /\ \A i \in Item, k \in 1..n : Alone(i) /\ Top(i, k, n) =>
                 LET row == HoldRow(ledger[i], log[k], new) IN
                 /\ Settles(done, row, i, k, Len(Lines))
                 /\ OfRecord(ledger[i], i, log[k]) => row = ledger[i] \/ HoldEvent(i, row) \in Elems(done.events)
<1> DEFINE new   == Profiles(Lines)
           acc(x) == Staged(Lines, new)[x]
           T(i, k) == Alone(i) /\ Top(i, k, n)
           row(i, k) == HoldRow(ledger[i], log[k], new)
           R(x) == \A i \in Item, k \in 1..n : T(i, k) =>
                     /\ Settles(acc(x), row(i, k), i, k, x)
                     /\ OfRecord(ledger[i], i, log[k]) => row(i, k) = ledger[i] \/ HoldEvent(i, row(i, k)) \in Elems(acc(x).events)
           S(x) == Sound(acc(x), new, n, x) /\ R(x)
           Wrong == {x \in Nat : x <= Len(Lines) /\ ~S(x)}
<1>1. Len(Lines) \in Nat /\ n \in Nat
  BY ChunkOfLog DEF Typed
<1>2. \A x \in 0..Len(Lines) : acc(x) = IF x = 0 THEN Pass1(new) ELSE Pass2(acc(x - 1), Lines[x], new)
  BY <1>1, StagedUnfolds
<1>3. S(0)
  <2>1. acc(0) = Pass1(new)
    BY <1>1, <1>2
  <2>2. Sound(acc(0), new, n, 0)
    BY <1>1, <2>1, Pass1Sound
  <2>3. R(0)
    <3>1. SUFFICES ASSUME NEW i \in Item, NEW k \in 1..n, Alone(i), Top(i, k, n)
                   PROVE  /\ Settles(Pass1(new), row(i, k), i, k, 0)
                          /\ OfRecord(ledger[i], i, log[k]) =>
                               row(i, k) = ledger[i] \/ HoldEvent(i, row(i, k)) \in Elems(Pass1(new).events)
      <4> HIDE DEF acc
      <4> QED BY <2>1
    <3> QED BY <3>1, Pass1Settles
  <2> QED BY <2>2, <2>3
<1>4. ASSUME NEW x \in 1..Len(Lines), S(x - 1)
      PROVE  S(x)
  <2>1. acc(x) = Pass2(acc(x - 1), Lines[x], new)
    BY <1>1, <1>2
  <2> DEFINE a == acc(x - 1)
  <2>2. Sound(a, new, n, x - 1) /\ IsSeq(a.events)
    BY <1>4 DEF Sound
  <2>3. R(x - 1)
    BY <1>4
  <2> HIDE DEF new
  <2>4. Sound(Pass2(a, Lines[x], new), new, n, x)
    BY <1>1, <2>2, Pass2Sound
  <2>5. Elems(a.events) \subseteq Elems(Pass2(a, Lines[x], new).events)
    BY <2>2, Pass2Adds
  <2>6. ASSUME NEW i \in Item, NEW k \in 1..n, Alone(i), Top(i, k, n)
        PROVE  /\ Settles(Pass2(a, Lines[x], new), row(i, k), i, k, x)
               /\ OfRecord(ledger[i], i, log[k]) =>
                    row(i, k) = ledger[i] \/ HoldEvent(i, row(i, k)) \in Elems(Pass2(a, Lines[x], new).events)
    <3>1. /\ Settles(a, HoldRow(ledger[i], log[k], new), i, k, x - 1)
          /\ OfRecord(ledger[i], i, log[k]) => row(i, k) = ledger[i] \/ HoldEvent(i, row(i, k)) \in Elems(a.events)
      BY <2>3, <2>6
    <3> HIDE DEF a
    <3>2. Settles(Pass2(a, Lines[x], new), HoldRow(ledger[i], log[k], new), i, k, x)
      BY <2>2, <2>6, <3>1, Pass2Settles
    <3> QED BY <2>5, <3>1, <3>2
  <2> HIDE DEF acc
  <2> QED BY <2>1, <2>4, <2>6
<1>5. S(Len(Lines))
  <2>1. SUFFICES ASSUME Wrong # {} PROVE FALSE
    BY <1>1
  <2>2. PICK x \in Wrong : \A y \in Wrong : x <= y
    <3>1. Wrong \in SUBSET Nat
      OBVIOUS
    <3> HIDE DEF Wrong
    <3> QED BY <2>1, <3>1, LeastNumber
  <2>3. x \in Nat /\ x <= Len(Lines) /\ ~S(x)
    BY <2>2
  <2> HIDE DEF S
  <2>4. x # 0 /\ x \in 1..Len(Lines) /\ x - 1 \in Nat /\ x - 1 <= Len(Lines) /\ ~(x <= x - 1)
    BY <2>3, <1>3, <1>1
  <2>5. S(x - 1)
    BY <2>2, <2>4
  <2> QED BY <2>3, <2>4, <2>5, <1>4
<1> QED BY <1>5

(* What a chunk makes of the profiles. *)
LEMMA ProfilesAre ==
  ASSUME Typed, NEW p \in Patron
  PROVE  /\ (\A k \in (off + 1)..ChunkEnd : ~IsProfile(log[k], p)) => Profiles(Lines)[p] = profile[p]
         /\ \A k \in (off + 1)..ChunkEnd :
              IsProfile(log[k], p) /\ (\A j \in (k + 1)..ChunkEnd : ~IsProfile(log[j], p)) =>
                Profiles(Lines)[p] = log[k].outcome
<1> DEFINE of == {k \in DOMAIN Lines : Lines[k].kind = "profile" /\ Lines[k].patron = p}
<1>1. Profiles(Lines)[p] = IF of = {} THEN profile[p] ELSE Lines[CHOOSE k \in of : \A j \in of : j <= k].outcome
  BY DEF Profiles
<1>2. /\ DOMAIN Lines = 1..(ChunkEnd - off) /\ off \in Nat /\ ChunkEnd \in Nat
      /\ \A k \in 1..(ChunkEnd - off) : Lines[k] = log[off + k]
  BY ChunkOfLog DEF Typed
<1>3. \A k \in of : off + k \in (off + 1)..ChunkEnd /\ IsProfile(log[off + k], p) /\ k \in Nat
  BY <1>2 DEF IsProfile
<1>4. ASSUME NEW k \in (off + 1)..ChunkEnd, IsProfile(log[k], p) PROVE k - off \in of /\ Lines[k - off] = log[k]
  <2>1. k - off \in 1..(ChunkEnd - off) /\ off + (k - off) = k
    BY <1>2
  <2> QED BY <1>2, <1>4, <2>1 DEF IsProfile
<1> HIDE DEF of
<1>5. ASSUME NEW k \in (off + 1)..ChunkEnd, IsProfile(log[k], p), \A j \in (k + 1)..ChunkEnd : ~IsProfile(log[j], p)
      PROVE  Profiles(Lines)[p] = log[k].outcome
  <2>1. k - off \in of /\ Lines[k - off] = log[k]
    BY <1>4, <1>5
  <2>2. \A j \in of : j <= k - off
    <3>1. TAKE j \in of
    <3>2. ~(off + j \in (k + 1)..ChunkEnd)
      BY <1>3, <1>5
    <3> QED BY <1>2, <1>3, <3>2
  <2>3. (CHOOSE x \in of : \A j \in of : j <= x) = k - off
    <3>1. \A x \in of : (\A j \in of : j <= x) => x = k - off
      BY <2>1, <2>2, <1>2, <1>3
    <3> QED BY <2>1, <2>2, <3>1
  <2> QED BY <1>1, <2>1, <2>3
<1> QED BY <1>1, <1>3, <1>5

-----------------------------------------------------------------------------
(* What a request leaves on the server.                                    *)

(* The new rows are the events of the batch that were not there.           *)
LEMMA NewRowsAre ==
  ASSUME IsSeq(rows), IsSeq(chunk.events), sent \in 0..(Len(chunk.events) - 1)
  PROVE  /\ BatchEnd \in (sent + 1)..Len(chunk.events) /\ IsSeq(NewRows)
         /\ Elems(NewRows) = {chunk.events[j] : j \in (sent + 1)..BatchEnd} \ Delivered
<1> DEFINE batch == SubSeq(chunk.events, sent + 1, BatchEnd)
           first == {k \in DOMAIN batch : ~Stored(batch[k]) /\ \A j \in 1..(k - 1) : batch[j] # batch[k]}
           N     == Len(batch)
           Is(f, n) == f = [k \in 0..n |-> IF k = 0 THEN <<>> ELSE IF k \in first THEN Append(f[k - 1], batch[k])
                                           ELSE f[k - 1]]
           Undefined == {n \in Nat : \A f : ~Is(f, n)}
<1>1. /\ BatchEnd \in (sent + 1)..Len(chunk.events) /\ sent \in Nat /\ BatchEnd \in Nat
      /\ Len(chunk.events) \in Nat
  BY LedgerAssumption DEF BatchEnd, IsSeq
<1>2. N = BatchEnd - sent /\ N \in Nat /\ DOMAIN batch = 1..N /\ \A k \in 1..N : batch[k] = chunk.events[sent + k]
  <2> DEFINE S == Elems(chunk.events)
  <2>1. chunk.events \in Seq(S) /\ DOMAIN chunk.events = 1..Len(chunk.events)
    BY DEF IsSeq
  <2>2. \A k \in (sent + 1)..BatchEnd : chunk.events[k] \in S
    BY <1>1, <2>1 DEF Elems
  <2>3. sent + 1 \in 1..(Len(chunk.events) + 1) /\ BatchEnd \in sent..Len(chunk.events)
        /\ sent + 1 <= BatchEnd /\ BatchEnd - (sent + 1) + 1 = BatchEnd - sent /\ sent + 1 \in Int /\ BatchEnd \in Int
    BY <1>1
  <2> HIDE DEF S
  <2>4. /\ batch \in Seq(S) /\ Len(batch) = BatchEnd - (sent + 1) + 1
        /\ \A i \in 1..(BatchEnd - (sent + 1) + 1) : batch[i] = chunk.events[sent + 1 + i - 1]
    BY <2>1, <2>2, <2>3, SubSeqProperties
  <2>5. \A k \in 1..(BatchEnd - sent) : sent + 1 + k - 1 = sent + k
    BY <1>1
  <2> HIDE DEF batch
  <2> QED BY <1>1, <2>3, <2>4, <2>5
<1>3. NewRows = (CHOOSE f : Is(f, N))[N]
  BY Zenon DEF NewRows
<1>4. first \subseteq 1..N
  BY <1>2
<1> HIDE DEF batch, first, N
<1>5. Undefined = {}
  <2>1. SUFFICES ASSUME Undefined # {} PROVE FALSE
    OBVIOUS
  <2>2. PICK n \in Undefined : \A m \in Undefined : n <= m
    <3>1. Undefined \in SUBSET Nat
      OBVIOUS
    <3> HIDE DEF Undefined
    <3> QED BY <2>1, <3>1, LeastNumber
  <2>3. n \in Nat /\ \A f : ~Is(f, n)
    BY <2>2
  <2>4. CASE n = 0
    <3> DEFINE g == [k \in 0..0 |-> <<>>]
    <3>1. \A k \in 0..0 : g[k] = IF k = 0 THEN <<>> ELSE IF k \in first THEN Append(g[k - 1], batch[k]) ELSE g[k - 1]
      OBVIOUS
    <3>2. g = [k \in 0..0 |-> g[k]]
      OBVIOUS
    <3> HIDE DEF g
    <3>3. Is(g, 0)
      BY <3>1, <3>2
    <3> QED BY <3>3, <2>3, <2>4
  <2>5. CASE n > 0
    <3>1. n - 1 \in Nat /\ n - 1 \notin Undefined
      <4>1. n - 1 \in Nat /\ ~(n <= n - 1)
        BY <2>3, <2>5
      <4> HIDE DEF Undefined
      <4> QED BY <2>2, <4>1
    <3>2. PICK f : Is(f, n - 1)
      <4> HIDE DEF Is
      <4> QED BY <3>1
    <3> DEFINE last == IF n \in first THEN Append(f[n - 1], batch[n]) ELSE f[n - 1]
               g == [k \in 0..n |-> IF k = n THEN last ELSE f[k]]
    <3>3. ASSUME NEW k \in 0..n
          PROVE  g[k] = IF k = 0 THEN <<>> ELSE IF k \in first THEN Append(g[k - 1], batch[k]) ELSE g[k - 1]
      <4>1. CASE k = n
        <5>1. g[n] = last /\ g[n - 1] = f[n - 1] /\ n # 0
          BY <2>3, <2>5
        <5> HIDE DEF g
        <5> QED BY <4>1, <5>1
      <4>2. CASE k # n
        <5>1. k \in 0..(n - 1) /\ g[k] = f[k] /\ (k # 0 => k - 1 \in 0..n /\ k - 1 # n /\ g[k - 1] = f[k - 1])
          BY <4>2, <2>3
        <5>2. f[k] = IF k = 0 THEN <<>> ELSE IF k \in first THEN Append(f[k - 1], batch[k]) ELSE f[k - 1]
          BY <3>2, <5>1
        <5> HIDE DEF g
        <5> QED BY <5>1, <5>2
      <4> QED BY <4>1, <4>2
    <3>4. g = [k \in 0..n |-> g[k]]
      OBVIOUS
    <3> HIDE DEF g
    <3>5. Is(g, n)
      BY <3>3, <3>4
    <3> QED BY <3>5, <2>3
  <2> QED BY <2>3, <2>4, <2>5
<1>6. PICK u : Is(u, N) /\ NewRows = u[N]
  <2>1. PICK g : Is(g, N)
    <3>1. N \in Nat /\ N \notin Undefined
      <4> HIDE DEF Undefined
      <4> QED BY <1>2, <1>5
    <3> HIDE DEF Is
    <3> QED BY <3>1
  <2> HIDE DEF Is
  <2>2. Is(CHOOSE f : Is(f, N), N)
    BY <2>1, Zenon
  <2> QED BY <1>3, <2>2
<1>7. \A k \in 0..N : u[k] = IF k = 0 THEN <<>> ELSE IF k \in first THEN Append(u[k - 1], batch[k]) ELSE u[k - 1]
  BY <1>6
<1> DEFINE Taken(k) == {batch[j] : j \in (1..k) \cap first}
           S(k) == IsSeq(u[k]) /\ Elems(u[k]) = Taken(k)
           Wrong == {k \in Nat : k <= N /\ ~S(k)}
<1>8. S(0)
  <2>1. u[0] = <<>>
    BY <1>2, <1>7
  <2> QED BY <2>1 DEF IsSeq, Elems
<1>9. ASSUME NEW k \in 1..N, S(k - 1) PROVE S(k)
  <2>1. \A j \in 1..k : j = k \/ j \in 1..(k - 1)
    BY <1>2
  <2>2. u[k] = IF k \in first THEN Append(u[k - 1], batch[k]) ELSE u[k - 1]
    BY <1>2, <1>7
  <2>3. k \in 1..k /\ 1..(k - 1) \subseteq 1..k
    BY <1>2
  <2>4. CASE k \in first
    <3>1. Taken(k) = Taken(k - 1) \cup {batch[k]}
      BY <2>1, <2>3, <2>4
    <3>2. IsSeq(Append(u[k - 1], batch[k])) /\ Elems(Append(u[k - 1], batch[k])) = Elems(u[k - 1]) \cup {batch[k]}
      <4> HIDE DEF Taken
      <4> QED BY <1>9, AppendIs
    <3> HIDE DEF Taken
    <3> QED BY <1>9, <2>2, <2>4, <3>1, <3>2
  <2>5. CASE k \notin first
    <3>1. Taken(k) = Taken(k - 1)
      BY <2>1, <2>3, <2>5
    <3> HIDE DEF Taken
    <3> QED BY <1>9, <2>2, <2>5, <3>1
  <2> QED BY <2>4, <2>5
<1> HIDE DEF S
<1>10. S(N)
  <2>1. SUFFICES ASSUME Wrong # {} PROVE FALSE
    BY <1>2
  <2>2. PICK x \in Wrong : \A y \in Wrong : x <= y
    <3>1. Wrong \in SUBSET Nat
      OBVIOUS
    <3> HIDE DEF Wrong
    <3> QED BY <2>1, <3>1, LeastNumber
  <2>3. x \in Nat /\ x <= N /\ ~S(x)
    BY <2>2
  <2>4. x # 0 /\ x \in 1..N /\ x - 1 \in Nat /\ x - 1 <= N /\ ~(x <= x - 1)
    BY <2>3, <1>8, <1>2
  <2>5. S(x - 1)
    BY <2>2, <2>4
  <2> QED BY <2>3, <2>4, <2>5, <1>9
<1>11. IsSeq(NewRows) /\ Elems(NewRows) = {batch[j] : j \in first}
  <2>1. (1..N) \cap first = first
    BY <1>4
  <2> QED BY <1>6, <1>10, <2>1 DEF S
<1>12. \A k \in 1..N : k \in first <=> batch[k] \notin Delivered /\ \A j \in 1..(k - 1) : batch[j] # batch[k]
  BY <1>2 DEF first, Stored, Delivered, Elems
<1>13. {chunk.events[j] : j \in (sent + 1)..BatchEnd} = {batch[k] : k \in 1..N}
  <2>1. \A j \in (sent + 1)..BatchEnd : j - sent \in 1..N /\ sent + (j - sent) = j
    BY <1>1, <1>2
  <2>2. \A k \in 1..N : sent + k \in (sent + 1)..BatchEnd
    BY <1>1, <1>2
  <2> QED BY <1>2, <2>1, <2>2
<1>14. ASSUME NEW k \in 1..N, batch[k] \notin Delivered PROVE \E j \in first : batch[j] = batch[k]
  <2> DEFINE like == {j \in 1..N : batch[j] = batch[k]}
  <2>1. PICK j \in like : \A i \in like : j <= i
    <3>1. \A i \in 1..N : i \in Nat
      BY <1>2
    <3>2. k \in like
      OBVIOUS
    <3>3. like \in SUBSET Nat
      BY <3>1
    <3> HIDE DEF like
    <3> QED BY <3>2, <3>3, LeastNumber
  <2>2. \A i \in 1..(j - 1) : i \in 1..N /\ ~(j <= i)
    BY <1>2, <2>1
  <2>3. \A i \in 1..(j - 1) : batch[i] # batch[j]
    BY <2>1, <2>2
  <2> QED BY <1>12, <1>14, <2>1, <2>3
<1>15. {batch[j] : j \in first} = {batch[k] : k \in 1..N} \ Delivered
  <2>1. ASSUME NEW j \in first PROVE j \in 1..N /\ batch[j] \notin Delivered
    BY <1>4, <1>12
  <2> QED BY <2>1, <1>14
<1> QED BY <1>1, <1>11, <1>13, <1>15

-----------------------------------------------------------------------------
(* The second invariant, step by step.                                     *)

(* How far the log is read. *)
LEMMA UptoIs ==
  ASSUME Typed, NEW m \in off..Len(log)
  PROVE  /\ End \in off..Len(log) /\ Upto(m) \in m..Len(log) /\ End <= Upto(m) /\ m \in Nat
         /\ Len(log) \in Nat /\ off \in Nat /\ ChunkEnd \in off..Len(log) /\ off + Len(Lines) = ChunkEnd
         /\ unsaved = 0 => End = off /\ Upto(m) = m /\ New = profile
         /\ unsaved # 0 => End = ChunkEnd /\ New = Profiles(Lines)
<1>1. off \in 0..Len(log) /\ Len(log) \in Nat
  BY DEF Typed
<1>2. ChunkEnd \in off..Len(log) /\ off + Len(Lines) = ChunkEnd
  BY <1>1, ChunkOfLog
<1>3. End \in off..Len(log) /\ (unsaved = 0 => End = off /\ New = profile)
      /\ (unsaved # 0 => End = ChunkEnd /\ New = Profiles(Lines))
  BY <1>1, <1>2 DEF End, New
<1> HIDE DEF End
<1> QED BY <1>1, <1>2, <1>3 DEF Upto

(* What is said of the log alone stays as long as the log does. *)
LEMMA SameLog ==
  ASSUME log' = log
  PROVE  /\ \A e, n : From(e, n)' <=> From(e, n)
         /\ \A row, i, n : Behind(row, i, n)' <=> Behind(row, i, n)
         /\ \A i : Alone(i)' <=> Alone(i)
         /\ \A i, k, n : Top(i, k, n)' <=> Top(i, k, n)
BY DEF From, Source, Matches, Behind, OfRecord, IsHold, Alone, Top

(* What the log is read to is behind what it is read to later. *)
LEMMA Further ==
  ASSUME NEW m \in Nat, NEW n \in Nat, m <= n
  PROVE  /\ \A e : From(e, m) => From(e, n)
         /\ \A row, i : Behind(row, i, m) => Behind(row, i, n)
         /\ \A i, k : Top(i, k, n) => Top(i, k, m)
<1>1. \A j \in 1..m : j \in 1..n
  OBVIOUS
<1> QED BY <1>1 DEF From, Behind, Top

(* A chunk is read: what the server knows of the newest hold was the row   *)
(* of the ledger, which the chunk moves on by one revision or not at all;  *)
(* and of a hold that is new it knows nothing.                             *)
LEMMA ReadSettles ==
  ASSUME Typed, Rows(ledger), pc = "idle", Phase, NEW m \in off..Len(log), Sure(m),
         NEW n \in 0..Len(log), m <= n, unsaved # 0 => Upto(m) = n,
         NEW i \in Item, NEW k \in 1..n, Alone(i), Top(i, k, n)
  PROVE  LET row == HoldRow(ledger[i], log[k], Profiles(Lines))
             e   == HoldEvent(i, row)
         IN /\ k <= m => OfRecord(ledger[i], i, log[k]) /\ HoldEvent(i, ledger[i]) \in Delivered
            /\ \A j \in DOMAIN rows : Same(rows[j], i, log[k].time) =>
                 rows[j].rev <= row.rev /\ (e \in Delivered => \E x \in j..Len(rows) : rows[x] = e)
<1> DEFINE new == Profiles(Lines)
           row == HoldRow(ledger[i], log[k], new)
           e   == HoldEvent(i, row)
<1>1. /\ m \in Nat /\ n \in Nat /\ (unsaved = 0 => Upto(m) = m /\ New = profile)
      /\ (unsaved # 0 => New = new)
  BY UptoIs DEF Typed
<1>2. Upto(m) <= n /\ Upto(m) \in m..n /\ IsRow(ledger[i]) /\ Behind(ledger[i], i, Upto(m)) /\ ledger[i].rev \in Nat
  BY <1>1, UptoIs DEF Sure, RowsKnown, RowKnown, Rows
<1>3. Behind(ledger[i], i, n) /\ Top(i, k, Upto(m))
  BY <1>1, <1>2, Further
<1>4. /\ log[k] \in Record /\ log[k].time \in Nat \ {0} /\ log[k].patron \in Patron
      /\ log[k].kind = "hold" /\ log[k].item = i
      /\ ledger[i].time < log[k].time \/ (OfRecord(ledger[i], i, log[k]) /\ ledger[i] # NoRow)
  BY <1>2, <1>3, RowIsOlder
<1>5. CASE unsaved # 0
  <2>1. Settled(m, i, k)
    BY <1>1, <1>5 DEF Sure, AllSettled
  <2> HIDE DEF new
  <2> QED BY <1>1, <1>5, <2>1 DEF Settled, new
<1>6. CASE unsaved = 0 /\ k <= m
  <2>1. Settled(m, i, k) /\ New = profile
    <3>1. k \in 1..Upto(m)
      BY <1>1, <1>6
    <3> QED BY <1>1, <1>3, <1>6, <3>1 DEF Sure, AllSettled
  <2>2. OfRecord(ledger[i], i, log[k]) /\ HoldEvent(i, ledger[i]) \in Delivered
    BY <1>6, <2>1 DEF Settled
  <2>3. ledger[i] # NoRow /\ ledger[i].time = log[k].time /\ ledger[i].patron = log[k].patron
        /\ ledger[i].static = log[k].static
    BY <1>2, <1>4, <2>2 DEF OfRecord, IsHold, IsRow
  <2>4. ledger[i].flags = Combine(log[k].static, profile[log[k].patron])
    BY <2>1, <2>3 DEF Sure, RowsKnown, Follows
  <2>5. HoldRow(ledger[i], log[k], New) = ledger[i]
    BY <1>2, <1>4, <2>1, <2>2, <2>4, RowStays
  <2>6. \A j \in DOMAIN rows : Same(rows[j], i, log[k].time) =>
          rows[j].rev <= ledger[i].rev
          /\ (HoldEvent(i, ledger[i]) \in Delivered => \E x \in j..Len(rows) : rows[x] = HoldEvent(i, ledger[i]))
    BY <2>1, <2>5 DEF Settled
  <2> HIDE DEF new
  <2>7. CASE ledger[i].flags = Combine(log[k].static, new[log[k].patron])
    <3>1. row = ledger[i]
      BY <1>2, <1>4, <2>2, <2>7, RowStays
    <3> QED BY <2>2, <2>6, <3>1 DEF new
  <2>8. CASE ledger[i].flags # Combine(log[k].static, new[log[k].patron])
    <3>1. row.rev = ledger[i].rev + 1 /\ row.time = log[k].time
      BY <1>4, <2>3, <2>8, HoldRowIs
    <3>2. Same(e, i, log[k].time) /\ e.rev = row.rev
      BY <3>1 DEF Same, HoldEvent, Event
    <3> HIDE DEF row, e
    <3>3. e \notin Delivered
      <4>1. SUFFICES ASSUME NEW j \in DOMAIN rows, rows[j] = e PROVE FALSE
        BY DEF Delivered, Elems
      <4>2. rows[j].rev <= ledger[i].rev
        BY <2>6, <3>2, <4>1
      <4> QED BY <1>2, <3>1, <3>2, <4>1, <4>2
    <3>4. \A j \in DOMAIN rows : Same(rows[j], i, log[k].time) => rows[j].rev <= row.rev
      <4>1. TAKE j \in DOMAIN rows
      <4>2. rows[j] \in Delivered /\ rows[j].rev \in Nat
        BY DEF Delivered, Elems, Sure, EventsKnown, From
      <4> QED BY <1>2, <2>6, <3>1, <4>2
    <3> QED BY <2>2, <3>3, <3>4 DEF row, e, new
  <2> QED BY <2>7, <2>8
<1>7. CASE unsaved = 0 /\ ~(k <= m)
  <2>1. ASSUME NEW j \in DOMAIN rows, Same(rows[j], i, log[k].time) PROVE FALSE
    <3>1. rows[j] \in Delivered
      BY DEF Delivered, Elems
    <3>2. From(rows[j], m)
      BY <1>1, <1>7, <3>1 DEF Sure, EventsKnown
    <3>3. PICK x \in 1..m : Source(log[x], rows[j])
      BY <3>2 DEF From
    <3>4. log[x].kind = "hold" /\ log[x].item = i /\ log[x].time = log[k].time
      BY <2>1, <3>3 DEF Source, Matches, Same
    <3>5. x \in DOMAIN log /\ k \in DOMAIN log
      BY <1>1 DEF Typed
    <3>6. x = k
      BY <1>4, <3>4, <3>5 DEF Alone
    <3> QED BY <1>1, <1>7, <3>6
  <2> QED BY <1>7, <2>1
<1> QED BY <1>5, <1>6, <1>7

(* The profiles a chunk reads are those of the log up to its end. *)
LEMMA ReadProfiles ==
  ASSUME Typed, NEW m \in off..Len(log), ProfilesKnown(m), NEW n \in 0..Len(log), m <= n, ChunkEnd <= n,
         unsaved # 0 => Upto(m) = n, NEW p \in Patron
  PROVE  /\ (\A k \in 1..n : ~IsProfile(log[k], p)) => Profiles(Lines)[p] = {}
         /\ \A k \in 1..ChunkEnd : IsProfile(log[k], p) /\ (\A j \in (k + 1)..ChunkEnd : ~IsProfile(log[j], p)) =>
              Profiles(Lines)[p] = log[k].outcome
<1>1. /\ m \in Nat /\ n \in Nat /\ off \in Nat /\ off <= ChunkEnd /\ ChunkEnd \in Nat /\ off <= m
      /\ unsaved = 0 => End = off /\ Upto(m) = m /\ New = profile
      /\ unsaved # 0 => End = ChunkEnd /\ New = Profiles(Lines)
  BY UptoIs DEF Typed
<1>2. /\ (\A k \in 1..Upto(m) : ~IsProfile(log[k], p)) => New[p] = {}
      /\ \A k \in 1..End : IsProfile(log[k], p) /\ (\A j \in (k + 1)..End : ~IsProfile(log[j], p)) =>
           New[p] = log[k].outcome
  BY DEF ProfilesKnown
<1>3. CASE unsaved # 0
  BY <1>1, <1>2, <1>3
<1>4. CASE unsaved = 0
  <2>1. /\ (\A k \in 1..m : ~IsProfile(log[k], p)) => profile[p] = {}
        /\ \A k \in 1..off : IsProfile(log[k], p) /\ (\A j \in (k + 1)..off : ~IsProfile(log[j], p)) =>
             profile[p] = log[k].outcome
    BY <1>1, <1>2, <1>4
  <2>2. ASSUME \A k \in 1..n : ~IsProfile(log[k], p) PROVE Profiles(Lines)[p] = {}
    <3>1. \A k \in (off + 1)..ChunkEnd : k \in 1..n
      BY <1>1
    <3>2. \A k \in 1..m : k \in 1..n
      BY <1>1
    <3>3. Profiles(Lines)[p] = profile[p]
      BY <2>2, <3>1, ProfilesAre
    <3> QED BY <2>1, <2>2, <3>2, <3>3
  <2>3. ASSUME NEW k \in 1..ChunkEnd, IsProfile(log[k], p), \A j \in (k + 1)..ChunkEnd : ~IsProfile(log[j], p)
        PROVE  Profiles(Lines)[p] = log[k].outcome
    <3>1. CASE k > off
      <4>1. k \in (off + 1)..ChunkEnd
        BY <1>1, <3>1
      <4> QED BY <2>3, <4>1, ProfilesAre
    <3>2. CASE ~(k > off)
      <4>1. k \in 1..off /\ (\A j \in (off + 1)..ChunkEnd : j \in (k + 1)..ChunkEnd)
            /\ (\A j \in (k + 1)..off : j \in (k + 1)..ChunkEnd)
        BY <1>1, <3>2
      <4>2. Profiles(Lines)[p] = profile[p]
        BY <2>3, <4>1, ProfilesAre
      <4> QED BY <2>1, <2>3, <4>1, <4>2
    <3> QED BY <3>1, <3>2
  <2> QED BY <2>2, <2>3
<1> QED BY <1>3, <1>4

(* A chunk is read. *)
LEMMA ReadChunkSure ==
  ASSUME LInv, SInv, ReadChunk
  PROVE  SInv'
<1> SUFFICES ASSUME reread # "torn" PROVE (Phase /\ Covered /\ \E m \in off..Len(log) : Sure(m))'
  BY DEF SInv, ReadChunk
<1>1. /\ pc = "idle" /\ off < Len(log) /\ UNCHANGED <<log, off, ledger, profile, rows, reread>>
      /\ unsaved' = IF unsaved > ChunkEnd THEN unsaved ELSE ChunkEnd
      /\ pc' = IF chunk'.events = <<>> THEN "holds" ELSE "send"
      /\ sent' = 0
  BY DEF ReadChunk
<1>2. Typed /\ Rows(ledger) /\ Phase /\ Covered
  BY DEF LInv, SInv
<1>3. PICK m \in off..Len(log) : Sure(m)
  BY DEF SInv
<1>4. /\ Len(log) \in Nat /\ off \in Nat /\ m \in Nat /\ ChunkEnd \in (off + 1)..Len(log) /\ off + Len(Lines) = ChunkEnd
      /\ \A y \in 1..Len(Lines) : Lines[y] = log[off + y]
      /\ unsaved = 0 => Upto(m) = m /\ New = profile
      /\ unsaved # 0 => End = ChunkEnd /\ New = Profiles(Lines)
  BY <1>1, <1>2, UptoIs, ChunkOfLog
<1>5. PICK n \in 0..Len(log) : n = IF ChunkEnd > m THEN ChunkEnd ELSE m
  BY <1>4
<1>6. m <= n /\ ChunkEnd <= n /\ n \in Nat /\ (unsaved # 0 => Upto(m) = n) /\ Upto(m) <= n /\ Upto(m) \in Nat
  BY <1>4, <1>5 DEF Upto
<1>7. PICK new : new = Profiles(Lines)
  OBVIOUS
<1>8. \A i \in Item : /\ ledger[i].rev \in Nat /\ Behind(ledger[i], i, n)
                      /\ (Follows(ledger[i], profile) \/ Follows(ledger[i], new))
  <2>1. \A i \in Item : /\ ledger[i].rev \in Nat /\ Behind(ledger[i], i, Upto(m))
                        /\ (Follows(ledger[i], profile) \/ Follows(ledger[i], New))
    BY <1>3 DEF Sure, RowsKnown, RowKnown
  <2> QED BY <1>4, <1>6, <1>7, <2>1, Further
<1>9. PICK done : done = Staged(Lines, new)[Len(Lines)]
  OBVIOUS
<1>10. chunk' = [to |-> ChunkEnd, events |-> done.events, ledger |-> done.ledger, profile |-> new]
  BY <1>7, <1>9 DEF ReadChunk, Transform, Lines
<1>11. /\ Sound(done, new, n, Len(Lines))
       /\ \A i \in Item, k \in 1..n : Alone(i) /\ Top(i, k, n) =>
            LET row == HoldRow(ledger[i], log[k], new) IN
            /\ Settles(done, row, i, k, Len(Lines))
            /\ OfRecord(ledger[i], i, log[k]) => row = ledger[i] \/ HoldEvent(i, row) \in Elems(done.events)
  BY <1>2, <1>6, <1>7, <1>8, <1>9, ChunkSettles
<1>12. IsSeq(done.events) /\ DOMAIN done.events = 1..Len(done.events) /\ Len(done.events) \in Nat
  BY <1>11 DEF Sound, IsSeq
<1>13. unsaved' = ChunkEnd /\ ChunkEnd' = ChunkEnd /\ Lines' = Lines /\ Profiles(Lines)' = new
  <2>1. ChunkEnd' = ChunkEnd /\ Lines' = Lines
    BY <1>1 DEF ChunkEnd, Lines
  <2> QED BY <1>1, <1>2, <1>4, <1>7, <2>1 DEF Phase, Profiles
<1>14. End' = ChunkEnd /\ New' = new /\ Upto(m)' = n
  <2>1. unsaved' # 0
    BY <1>4, <1>13
  <2>2. End' = ChunkEnd /\ New' = new
    BY <1>13, <2>1 DEF End, New
  <2> QED BY <1>5, <2>2 DEF Upto
<1>15. Delivered' = Delivered /\ Ahead = {}
  BY <1>1 DEF Delivered, Elems, Ahead
<1>16. Ahead' = Elems(done.events)
  <2>1. CASE done.events = <<>>
    BY <1>1, <1>10, <2>1 DEF Ahead, Elems
  <2>2. CASE done.events # <<>>
    BY <1>1, <1>10, <1>12, <2>2 DEF Ahead, Elems
  <2> QED BY <2>1, <2>2
<1>17. Phase'
  <2>1. pc' = "send" => IsSeq(chunk.events)' /\ sent' \in 0..(Len(chunk'.events) - 1)
    <3>1. done.events # <<>> => Len(done.events) >= 1
      BY <1>12, EmptySeq DEF IsSeq
    <3> QED BY <1>1, <1>10, <1>12, <3>1 DEF IsSeq, Elems
  <2>2. IsSeq(rows)'
    BY <1>1, <1>2 DEF Phase, IsSeq, Elems
  <2> QED BY <1>1, <1>13, <2>1, <2>2 DEF Phase
<1>18. Covered'
  <2>1. ASSUME NEW k \in (off + 1)..ChunkEnd PROVE Has(Delivered \cup Elems(done.events), k)
    <3>1. k - off \in 1..Len(Lines) /\ off + (k - off) = k
      BY <1>4
    <3> QED BY <1>4, <1>11, <3>1 DEF Sound, Has
  <2> QED BY <1>1, <1>2, <1>13, <1>15, <1>16, <2>1 DEF Covered, Has, Matches
<1>19. ProfilesKnown(m)'
  <2>1. SUFFICES ASSUME NEW p \in Patron
                 PROVE  /\ (\A k \in 1..n : ~IsProfile(log[k], p)) => new[p] = {}
                        /\ \A k \in 1..ChunkEnd :
                             IsProfile(log[k], p) /\ (\A j \in (k + 1)..ChunkEnd : ~IsProfile(log[j], p)) =>
                               new[p] = log[k].outcome
    BY <1>1, <1>14 DEF ProfilesKnown, IsProfile
  <2> QED BY <1>2, <1>3, <1>6, <1>7, ReadProfiles DEF Sure
<1>20. RowsKnown(m)'
  <2>1. ASSUME NEW i \in Item
        PROVE  RowKnown(ledger[i], i, m)' /\ (Follows(ledger[i], profile) \/ Follows(ledger[i], New))'
    BY <1>1, <1>8, <1>14, SameLog DEF RowKnown, Follows
  <2>2. ASSUME NEW i \in Item PROVE RowKnown(chunk.ledger[i], i, m)' /\ Follows(chunk.ledger[i], New)'
    BY <1>1, <1>10, <1>11, <1>14, SameLog DEF RowKnown, Follows, Sound
  <2> QED BY <2>1, <2>2 DEF RowsKnown
<1>21. EventsKnown(m)'
  <2>1. \A e \in Delivered : From(e, n)
    BY <1>3, <1>6, Further DEF Sure, EventsKnown
  <2>2. \A e \in Elems(done.events) : From(e, n)
    BY <1>11 DEF Sound
  <2> QED BY <1>1, <1>14, <1>15, <1>16, <2>1, <2>2, SameLog DEF EventsKnown
<1>22. AllSettled(m)'
  <2>1. SUFFICES ASSUME NEW i \in Item, NEW k \in 1..n, Alone(i), Top(i, k, n) PROVE Settled(m, i, k)'
    BY <1>1, <1>14, SameLog DEF AllSettled
  <2> DEFINE row == HoldRow(ledger[i], log[k], new)
             e   == HoldEvent(i, row)
  <2>2. /\ k <= m => OfRecord(ledger[i], i, log[k]) /\ HoldEvent(i, ledger[i]) \in Delivered
        /\ \A j \in DOMAIN rows : Same(rows[j], i, log[k].time) =>
             rows[j].rev <= row.rev /\ (e \in Delivered => \E x \in j..Len(rows) : rows[x] = e)
    BY <1>1, <1>2, <1>3, <1>6, <1>7, <2>1, ReadSettles
  <2>3. Settles(done, row, i, k, Len(Lines)) /\ (OfRecord(ledger[i], i, log[k]) => row = ledger[i] \/ e \in Elems(done.events))
    BY <1>11, <2>1
  <2>4. \A a \in Elems(done.events) : Same(a, i, log[k].time) => a = e
    BY <2>3 DEF Settles
  <2>5. OfRecord(ledger[i], i, log[k]) \/ k \in (off + 1)..(off + Len(Lines))
    <3>1. ~(k <= m) => k \in (off + 1)..ChunkEnd
      BY <1>4, <1>5
    <3> QED BY <1>4, <2>2, <3>1
  <2>6. done.ledger[i] = row
    BY <2>3, <2>5 DEF Settles
  <2>7. e \in Delivered \cup Elems(done.events)
    <3>1. CASE k \in (off + 1)..(off + Len(Lines))
      <4>1. k - off \in 1..Len(Lines) /\ off + (k - off) = k
        BY <1>4, <3>1
      <4>2. log[k].kind = "hold" /\ log[k].item = i
        BY <2>1 DEF Top, IsHold
      <4>3. PICK a \in Elems(done.events) : Matches(a, log[k])
        BY <1>4, <1>11, <4>1, <4>2 DEF Sound
      <4>4. Same(a, i, log[k].time)
        BY <4>2, <4>3 DEF Matches, Same
      <4> QED BY <2>4, <4>3, <4>4
    <3>2. CASE ~(k \in (off + 1)..(off + Len(Lines)))
      <4>1. k <= m
        BY <1>4, <1>5, <3>2
      <4> QED BY <2>2, <2>3, <4>1
    <3> QED BY <3>1, <3>2
  <2> HIDE DEF row, e
  <2>8. row' = row /\ e' = e
    BY <1>1 DEF row, e, HoldRow, HoldEvent
  <2>9. HoldRow(ledger[i], log[k], New)' = row /\ HoldEvent(i, HoldRow(ledger[i], log[k], New))' = e
    BY <1>1, <1>14 DEF row, e, HoldRow, HoldEvent, Event
  <2>10. OfRecord(ledger[i], i, log[k])' = OfRecord(ledger[i], i, log[k]) /\ HoldEvent(i, ledger[i])' = HoldEvent(i, ledger[i])
    BY <1>1 DEF OfRecord, IsHold, HoldEvent, Event
  <2> QED BY <1>1, <1>10, <1>15, <1>16, <2>2, <2>4, <2>6, <2>7, <2>9, <2>10 DEF Settled, Same
<1> QED BY <1>1, <1>3, <1>17, <1>18, <1>19, <1>20, <1>21, <1>22 DEF Sure

(* A step that leaves log, cursor and profiles as they are leaves as it is *)
(* how far the log is read.                                                *)
LEMMA SameReach ==
  ASSUME UNCHANGED <<log, off, profile, unsaved>>
  PROVE  End' = End /\ New' = New /\ Lines' = Lines /\ ChunkEnd' = ChunkEnd /\ \A m : Upto(m)' = Upto(m)
<1>1. Lines' = Lines /\ ChunkEnd' = ChunkEnd
  BY DEF Lines, ChunkEnd
<1>2. End' = End
  BY <1>1 DEF End
<1>3. New' = New
  BY <1>1 DEF New, Profiles
<1> QED BY <1>1, <1>2, <1>3 DEF Upto

(* A request: what was ahead is delivered, as long as it is new.           *)
LEMMA SendSure ==
  ASSUME LInv, SInv, Send
  PROVE  SInv'
<1> SUFFICES ASSUME reread # "torn" PROVE (Phase /\ Covered /\ \E m \in off..Len(log) : Sure(m))'
  BY DEF SInv, Send
<1>1. /\ pc = "send" /\ UNCHANGED <<log, off, ledger, profile, chunk, unsaved, reread>>
      /\ rows' = rows \o NewRows /\ sent' = BatchEnd
      /\ pc' = IF BatchEnd = Len(chunk.events) THEN "holds" ELSE "send"
  BY DEF Send
<1>2. Typed /\ Phase /\ Covered
  BY DEF LInv, SInv
<1>3. PICK m \in off..Len(log) : Sure(m)
  BY DEF SInv
<1>4. IsSeq(rows) /\ IsSeq(chunk.events) /\ sent \in 0..(Len(chunk.events) - 1)
  BY <1>1, <1>2 DEF Phase
<1> DEFINE batch == {chunk.events[j] : j \in (sent + 1)..BatchEnd}
<1>5. /\ BatchEnd \in (sent + 1)..Len(chunk.events) /\ IsSeq(NewRows) /\ Elems(NewRows) = batch \ Delivered
      /\ sent \in Nat /\ BatchEnd \in Nat /\ Len(chunk.events) \in Nat
  BY <1>4, NewRowsAre DEF IsSeq
<1>6. /\ IsSeq(rows') /\ Elems(rows') = Elems(rows) \cup Elems(NewRows) /\ Len(rows) \in Nat /\ Len(NewRows) \in Nat
      /\ Len(rows') = Len(rows) + Len(NewRows)
      /\ \A k \in 1..Len(rows) : rows'[k] = rows[k]
      /\ \A k \in 1..Len(NewRows) : rows'[Len(rows) + k] = NewRows[k]
      /\ DOMAIN rows = 1..Len(rows) /\ DOMAIN NewRows = 1..Len(NewRows) /\ DOMAIN rows' = 1..Len(rows')
  <2>1. DOMAIN rows = 1..Len(rows) /\ DOMAIN NewRows = 1..Len(NewRows)
    BY <1>4, <1>5 DEF IsSeq
  <2>2. /\ IsSeq(rows \o NewRows) /\ Elems(rows \o NewRows) = Elems(rows) \cup Elems(NewRows)
        /\ Len(rows) \in Nat /\ Len(NewRows) \in Nat /\ Len(rows \o NewRows) = Len(rows) + Len(NewRows)
        /\ \A k \in 1..Len(rows) : (rows \o NewRows)[k] = rows[k]
        /\ \A k \in 1..Len(NewRows) : (rows \o NewRows)[Len(rows) + k] = NewRows[k]
    <3>1. IsSeq(rows) /\ IsSeq(NewRows)
      BY <1>4, <1>5
    <3> QED BY ONLY <3>1, ConcatIs
  <2>3. DOMAIN (rows \o NewRows) = 1..Len(rows \o NewRows)
    BY <2>2 DEF IsSeq
  <2> QED BY <1>1, <2>1, <2>2, <2>3
<1>7. Delivered' = Delivered \cup batch /\ Delivered = Elems(rows)
  BY <1>5, <1>6 DEF Delivered
<1>8. Ahead = {chunk.events[j] : j \in (sent + 1)..Len(chunk.events)} /\ batch \subseteq Ahead
  <2>1. \A j \in (sent + 1)..BatchEnd : j \in (sent + 1)..Len(chunk.events)
    BY <1>5
  <2> QED BY <1>1, <2>1 DEF Ahead
<1>9. Ahead' = {chunk.events[j] : j \in (BatchEnd + 1)..Len(chunk.events)}
  <2>1. CASE BatchEnd = Len(chunk.events)
    <3>1. (BatchEnd + 1)..Len(chunk.events) = {}
      BY <1>5, <2>1
    <3> QED BY <1>1, <2>1, <3>1 DEF Ahead
  <2>2. CASE BatchEnd # Len(chunk.events)
    BY <1>1, <2>2 DEF Ahead
  <2> QED BY <2>1, <2>2
<1>10. Ahead' \subseteq Ahead /\ Delivered' \cup Ahead' = Delivered \cup Ahead
  <2>1. \A j \in (BatchEnd + 1)..Len(chunk.events) : j \in (sent + 1)..Len(chunk.events)
    BY <1>5
  <2>2. \A j \in (sent + 1)..Len(chunk.events) : j \in (sent + 1)..BatchEnd \/ j \in (BatchEnd + 1)..Len(chunk.events)
    BY <1>5
  <2>3. Ahead \subseteq batch \cup Ahead'
    BY <1>8, <1>9, <2>2
  <2>4. Ahead' \subseteq Ahead
    BY <1>8, <1>9, <2>1
  <2> HIDE DEF batch
  <2> QED BY <1>7, <1>8, <2>3, <2>4
<1> HIDE DEF batch
<1>11. End' = End /\ New' = New /\ ChunkEnd' = ChunkEnd /\ Upto(m)' = Upto(m)
  BY <1>1, SameReach
<1>12. Phase'
  <2>1. pc' = "send" => sent' \in 0..(Len(chunk'.events) - 1) /\ IsSeq(chunk.events)'
    BY <1>1, <1>4, <1>5 DEF IsSeq, Elems
  <2>2. IsSeq(rows)'
    BY <1>6 DEF IsSeq, Elems
  <2> QED BY <1>1, <1>2, <1>11, <2>1, <2>2 DEF Phase
<1>13. Covered'
  BY <1>1, <1>2, <1>7, <1>10, <1>11 DEF Covered, Has, Matches
<1>14. ProfilesKnown(m)'
  BY <1>1, <1>3, <1>11 DEF Sure, ProfilesKnown, IsProfile
<1>15. RowsKnown(m)'
  BY <1>1, <1>3, <1>11, SameLog DEF Sure, RowsKnown, RowKnown, Follows
<1>16. EventsKnown(m)'
  BY <1>1, <1>3, <1>10, <1>11, SameLog DEF Sure, EventsKnown
<1>17. AllSettled(m)'
  <2>1. SUFFICES ASSUME NEW i \in Item, NEW k \in 1..Upto(m), Alone(i), Top(i, k, Upto(m)) PROVE Settled(m, i, k)'
    BY <1>1, <1>11, SameLog DEF AllSettled
  <2>2. Settled(m, i, k)
    BY <1>3, <2>1 DEF Sure, AllSettled
  <2>3. PICK row : row = HoldRow(ledger[i], log[k], New)
    OBVIOUS
  <2>4. PICK e : e = HoldEvent(i, row)
    OBVIOUS
  <2>5. /\ k <= m => OfRecord(ledger[i], i, log[k]) /\ HoldEvent(i, ledger[i]) \in Delivered
        /\ \A j \in DOMAIN rows : Same(rows[j], i, log[k].time) =>
             rows[j].rev <= row.rev /\ (e \in Delivered => \E x \in j..Len(rows) : rows[x] = e)
        /\ chunk.ledger[i] = row /\ e \in Delivered \cup Ahead
        /\ \A a \in Ahead : Same(a, i, log[k].time) => a = e
    BY <1>1, <2>2, <2>3, <2>4 DEF Settled
  <2>6. row.rev \in Nat /\ e.rev = row.rev
    <3>1. row.rev \in Nat
      BY <1>1, <1>3, <2>5 DEF Sure, RowsKnown, RowKnown
    <3> QED BY <2>4, <3>1 DEF HoldEvent, Event
  <2>7. ASSUME NEW j \in DOMAIN rows', Same(rows'[j], i, log[k].time)
        PROVE  rows'[j].rev <= row.rev /\ (e \in Delivered' => \E x \in j..Len(rows') : rows'[x] = e)
    <3>1. CASE j \in 1..Len(rows)
      <4>1. j \in DOMAIN rows /\ rows'[j] = rows[j]
        BY <1>6, <3>1
      <4>2. rows[j].rev <= row.rev /\ (e \in Delivered => \E x \in j..Len(rows) : rows[x] = e)
        BY <2>5, <2>7, <4>1
      <4>3. ASSUME e \in Delivered PROVE \E x \in j..Len(rows') : rows'[x] = e
        <5>1. PICK x \in j..Len(rows) : rows[x] = e
          BY <4>2, <4>3
        <5>2. x \in 1..Len(rows) /\ x \in j..Len(rows')
          BY <1>6, <3>1
        <5> QED BY <1>6, <5>1, <5>2
      <4>4. ASSUME e \in Elems(NewRows) PROVE \E x \in j..Len(rows') : rows'[x] = e
        <5>1. PICK y \in 1..Len(NewRows) : NewRows[y] = e
          BY <1>6, <4>4 DEF Elems
        <5>2. Len(rows) + y \in j..Len(rows')
          BY <1>6, <3>1
        <5> QED BY <1>6, <5>1, <5>2
      <4>5. Delivered' = Delivered \cup Elems(NewRows)
        BY <1>6 DEF Delivered
      <4> QED BY <4>1, <4>2, <4>3, <4>4, <4>5
    <3>2. CASE ~(j \in 1..Len(rows))
      <4>1. j - Len(rows) \in 1..Len(NewRows) /\ Len(rows) + (j - Len(rows)) = j /\ j \in j..Len(rows')
        BY <1>6, <3>2
      <4>2. rows'[j] \in Elems(NewRows)
        BY <1>6, <4>1 DEF Elems
      <4>3. rows'[j] \in Ahead
        BY <1>5, <1>8, <4>2
      <4>4. rows'[j] = e
        BY <2>5, <2>7, <4>3
      <4> QED BY <2>6, <4>1, <4>4
    <3> QED BY <3>1, <3>2
  <2>8. HoldRow(ledger[i], log[k], New)' = row /\ HoldEvent(i, HoldRow(ledger[i], log[k], New))' = e
    BY <1>1, <1>11, <2>3, <2>4 DEF HoldRow, HoldEvent, Event
  <2>9. OfRecord(ledger[i], i, log[k])' = OfRecord(ledger[i], i, log[k]) /\ HoldEvent(i, ledger[i])' = HoldEvent(i, ledger[i])
    BY <1>1 DEF OfRecord, IsHold, HoldEvent, Event
  <2>10. e \in Delivered' \cup Ahead' /\ (\A a \in Ahead' : Same(a, i, log[k].time) => a = e) /\ Delivered \subseteq Delivered'
    BY <1>7, <1>10, <2>5
  <2> QED BY <1>1, <2>5, <2>7, <2>8, <2>9, <2>10 DEF Settled, Same
<1> QED BY <1>1, <1>3, <1>12, <1>13, <1>14, <1>15, <1>16, <1>17 DEF Sure

(* The ledger's row of the newest hold, once it is what the chunk says, is *)
(* what it says of that hold from then on.                                 *)
LEMMA RowIsSettled ==
  ASSUME Typed, NEW m \in off..Len(log), NEW i \in Item, NEW k \in 1..Upto(m), Alone(i), Top(i, k, Upto(m)),
         NEW row, IsRow(row), row = HoldRow(ledger[i], log[k], New)
  PROVE  OfRecord(row, i, log[k]) /\ HoldRow(row, log[k], New) = row
<1>1. Upto(m) \in 0..Len(log)
  BY UptoIs DEF Typed
<1>2. /\ log[k] \in Record /\ log[k].time \in Nat \ {0} /\ log[k].patron \in Patron
      /\ log[k].kind = "hold" /\ log[k].item = i
  <2>1. IsRow(NoRow) /\ Behind(NoRow, i, Upto(m))
    BY DEF IsRow, NoRow, Behind
  <2> QED BY <1>1, <2>1, RowIsOlder
<1>3. /\ row.time = log[k].time /\ row.patron = log[k].patron /\ row.static = log[k].static
      /\ row.flags = Combine(log[k].static, New[log[k].patron])
  BY <1>2, HoldRowIs
<1>4. OfRecord(row, i, log[k])
  BY <1>2, <1>3 DEF OfRecord, IsHold
<1> QED BY <1>2, <1>3, <1>4, RowStays

(* The first transaction of the cache.                                     *)
LEMMA CommitHoldsSure ==
  ASSUME LInv, SInv, CommitHolds
  PROVE  SInv'
<1> SUFFICES ASSUME reread # "torn" PROVE (Phase /\ Covered /\ \E m \in off..Len(log) : Sure(m))'
  BY DEF SInv, CommitHolds
<1>1. /\ UNCHANGED <<log, off, profile, rows, chunk, sent, unsaved, reread>>
      /\ pc = "holds" /\ pc' = "patrons" /\ ledger' = chunk.ledger
  BY DEF CommitHolds
<1>2. Typed /\ Phase /\ Covered /\ Rows(chunk.ledger)
  BY <1>1 DEF LInv, SInv, Underway, Staging
<1>3. PICK m \in off..Len(log) : Sure(m)
  BY DEF SInv
<1>4. End' = End /\ New' = New /\ ChunkEnd' = ChunkEnd /\ Upto(m)' = Upto(m)
  BY <1>1, SameReach
<1>5. Delivered' = Delivered /\ Ahead' = {} /\ Ahead = {}
  BY <1>1 DEF Delivered, Elems, Ahead
<1>6. Phase'
  BY <1>1, <1>2, <1>4 DEF Phase, IsSeq, Elems
<1>7. Covered'
  BY <1>1, <1>2, <1>4, <1>5 DEF Covered, Has, Matches
<1>8. ProfilesKnown(m)'
  BY <1>1, <1>3, <1>4 DEF Sure, ProfilesKnown, IsProfile
<1>9. RowsKnown(m)'
  BY <1>1, <1>3, <1>4, SameLog DEF Sure, RowsKnown, RowKnown, Follows
<1>10. EventsKnown(m)'
  BY <1>1, <1>3, <1>4, <1>5, SameLog DEF Sure, EventsKnown
<1>11. AllSettled(m)'
  <2>1. SUFFICES ASSUME NEW i \in Item, NEW k \in 1..Upto(m), Alone(i), Top(i, k, Upto(m)) PROVE Settled(m, i, k)'
    BY <1>1, <1>4, SameLog DEF AllSettled
  <2>2. Settled(m, i, k)
    BY <1>3, <2>1 DEF Sure, AllSettled
  <2>3. PICK row : row = HoldRow(ledger[i], log[k], New)
    OBVIOUS
  <2>4. PICK e : e = HoldEvent(i, row)
    OBVIOUS
  <2>5. /\ \A j \in DOMAIN rows : Same(rows[j], i, log[k].time) =>
             rows[j].rev <= row.rev /\ (e \in Delivered => \E x \in j..Len(rows) : rows[x] = e)
        /\ chunk.ledger[i] = row /\ e \in Delivered
    BY <1>1, <1>5, <2>2, <2>3, <2>4 DEF Settled
  <2>6. IsRow(row)
    BY <1>2, <2>5 DEF Rows
  <2>7. OfRecord(row, i, log[k]) /\ HoldRow(row, log[k], New) = row
    BY <1>2, <2>1, <2>3, <2>6, RowIsSettled
  <2>8. ledger'[i] = row
    BY <1>1, <2>5
  <2>9. HoldRow(ledger[i], log[k], New)' = row /\ HoldEvent(i, HoldRow(ledger[i], log[k], New))' = e
    <3>1. HoldRow(ledger[i], log[k], New)' = HoldRow(row, log[k], New)
      BY <1>1, <1>4, <2>8 DEF HoldRow
    <3> QED BY <2>4, <2>7, <3>1 DEF HoldEvent, Event
  <2>10. OfRecord(ledger[i], i, log[k])' /\ HoldEvent(i, ledger[i])' = e
    BY <1>1, <2>4, <2>7, <2>8 DEF OfRecord, IsHold, HoldEvent, Event
  <2> QED BY <1>1, <1>5, <2>5, <2>9, <2>10 DEF Settled, Same
<1> QED BY <1>1, <1>3, <1>6, <1>7, <1>8, <1>9, <1>10, <1>11 DEF Sure

(* The second. *)
LEMMA CommitPatronsSure ==
  ASSUME LInv, SInv, CommitPatrons
  PROVE  SInv'
<1> SUFFICES ASSUME reread # "torn" PROVE (Phase /\ Covered /\ \E m \in off..Len(log) : Sure(m))'
  BY DEF SInv, CommitPatrons
<1>1. /\ UNCHANGED <<log, off, ledger, rows, chunk, sent, unsaved, reread>>
      /\ pc = "patrons" /\ pc' = "save" /\ profile' = chunk.profile
  BY DEF CommitPatrons
<1>2. Typed /\ Phase /\ Covered /\ unsaved # 0 /\ chunk.profile = Profiles(Lines) /\ ledger = chunk.ledger
  BY <1>1 DEF LInv, SInv, Underway
<1>3. PICK m \in off..Len(log) : Sure(m)
  BY DEF SInv
<1>4. ChunkEnd' = ChunkEnd /\ Lines' = Lines /\ End' = End /\ Upto(m)' = Upto(m)
  <2>1. ChunkEnd' = ChunkEnd /\ Lines' = Lines
    BY <1>1 DEF ChunkEnd, Lines
  <2>2. End' = End
    BY <1>1, <2>1 DEF End
  <2> QED BY <2>1, <2>2 DEF Upto
<1>5. New' = New
  <2>1. Profiles(Lines)' = Profiles(Lines)
    BY <1>1, <1>2, <1>4 DEF Profiles
  <2> QED BY <1>1, <1>2, <2>1 DEF New
<1>6. Delivered' = Delivered /\ Ahead' = {} /\ Ahead = {}
  BY <1>1 DEF Delivered, Elems, Ahead
<1>7. Phase'
  BY <1>1, <1>2, <1>4 DEF Phase, IsSeq, Elems
<1>8. Covered'
  BY <1>1, <1>2, <1>4, <1>6 DEF Covered, Has, Matches
<1>9. ProfilesKnown(m)'
  BY <1>1, <1>3, <1>4, <1>5 DEF Sure, ProfilesKnown, IsProfile
<1>10. RowsKnown(m)'
  BY <1>1, <1>2, <1>3, <1>4, <1>5, SameLog DEF Sure, RowsKnown, RowKnown, Follows
<1>11. EventsKnown(m)'
  BY <1>1, <1>3, <1>4, <1>6, SameLog DEF Sure, EventsKnown
<1>12. AllSettled(m)'
  <2>1. SUFFICES ASSUME NEW i \in Item, NEW k \in 1..Upto(m), Alone(i), Top(i, k, Upto(m)) PROVE Settled(m, i, k)'
    BY <1>1, <1>4, SameLog DEF AllSettled
  <2>2. Settled(m, i, k)
    BY <1>3, <2>1 DEF Sure, AllSettled
  <2>3. HoldRow(ledger[i], log[k], New)' = HoldRow(ledger[i], log[k], New)
    BY <1>1, <1>5 DEF HoldRow
  <2>4. OfRecord(ledger[i], i, log[k])' = OfRecord(ledger[i], i, log[k]) /\ HoldEvent(i, ledger[i])' = HoldEvent(i, ledger[i])
        /\ HoldEvent(i, HoldRow(ledger[i], log[k], New))' = HoldEvent(i, HoldRow(ledger[i], log[k], New))
    BY <1>1, <2>3 DEF OfRecord, IsHold, HoldEvent, Event
  <2> QED BY <1>1, <1>6, <2>2, <2>3, <2>4 DEF Settled, Same
<1> QED BY <1>1, <1>3, <1>7, <1>8, <1>9, <1>10, <1>11, <1>12 DEF Sure

(* The cursor is saved: what was under way is what is known.               *)
LEMMA SaveCursorSure ==
  ASSUME LInv, SInv, SaveCursor
  PROVE  SInv'
<1> SUFFICES ASSUME reread # "torn" PROVE (Phase /\ Covered /\ \E m \in off..Len(log) : Sure(m))'
  BY DEF SInv, SaveCursor
<1>1. /\ UNCHANGED <<log, ledger, profile, rows, reread>> /\ off' = chunk.to
      /\ pc = "save" /\ pc' = "idle" /\ unsaved' = IF unsaved > chunk.to THEN unsaved ELSE 0
  BY DEF SaveCursor
<1>2. /\ Typed /\ Phase /\ Covered /\ unsaved # 0 /\ chunk.to = ChunkEnd /\ chunk.profile = Profiles(Lines)
      /\ ledger = chunk.ledger /\ profile = chunk.profile /\ Rows(ledger)
  BY <1>1 DEF LInv, SInv, Underway
<1>3. PICK m \in off..Len(log) : Sure(m)
  BY DEF SInv
<1>4. End = ChunkEnd /\ New = Profiles(Lines) /\ Upto(m) \in 0..Len(log) /\ ChunkEnd \in Nat /\ ChunkEnd <= Upto(m)
      /\ off \in Nat /\ Upto(m) \in Nat
  BY <1>2, UptoIs DEF Typed
<1>5. PICK n \in 0..Len(log) : n = Upto(m)
  BY <1>4
<1>6. unsaved' = 0 /\ off' = ChunkEnd
  BY <1>1, <1>2, <1>4 DEF Phase
<1>7. End' = ChunkEnd /\ New' = New /\ Upto(n)' = n
  <2>1. End' = ChunkEnd /\ New' = New
    BY <1>1, <1>2, <1>4, <1>6 DEF End, New
  <2> QED BY <1>4, <1>5, <2>1 DEF Upto
<1>8. Delivered' = Delivered /\ Ahead' = {} /\ Ahead = {}
  BY <1>1 DEF Delivered, Elems, Ahead
<1>9. Phase'
  BY <1>1, <1>2, <1>6 DEF Phase, IsSeq, Elems
<1>10. Covered'
  <2>1. \A k \in 1..ChunkEnd : k \in 1..off \/ k \in (off + 1)..ChunkEnd
    BY <1>4
  <2>2. \A k \in 1..ChunkEnd : Has(Delivered, k)
    BY <1>1, <1>2, <1>8, <2>1 DEF Covered
  <2> QED BY <1>1, <1>6, <1>8, <2>2 DEF Covered, Has, Matches
<1>11. ProfilesKnown(n)'
  BY <1>1, <1>3, <1>4, <1>5, <1>7 DEF Sure, ProfilesKnown, IsProfile
<1>12. RowsKnown(n)'
  BY <1>1, <1>2, <1>3, <1>4, <1>5, <1>7, SameLog DEF Sure, RowsKnown, RowKnown, Follows
<1>13. EventsKnown(n)'
  BY <1>1, <1>3, <1>5, <1>7, <1>8, SameLog DEF Sure, EventsKnown
<1>14. AllSettled(n)'
  <2>1. SUFFICES ASSUME NEW i \in Item, NEW k \in 1..n, Alone(i), Top(i, k, n) PROVE Settled(n, i, k)'
    BY <1>1, <1>7, SameLog DEF AllSettled
  <2>2. Settled(m, i, k)
    BY <1>3, <1>5, <2>1 DEF Sure, AllSettled
  <2>3. PICK row : row = HoldRow(ledger[i], log[k], New)
    OBVIOUS
  <2>4. PICK e : e = HoldEvent(i, row)
    OBVIOUS
  <2>5. /\ \A j \in DOMAIN rows : Same(rows[j], i, log[k].time) =>
             rows[j].rev <= row.rev /\ (e \in Delivered => \E x \in j..Len(rows) : rows[x] = e)
        /\ ledger[i] = row /\ e \in Delivered
    BY <1>1, <1>2, <1>8, <2>2, <2>3, <2>4 DEF Settled
  <2>6. OfRecord(row, i, log[k])
    BY <1>2, <1>5, <2>1, <2>3, <2>5, RowIsSettled DEF Rows
  <2>7. HoldRow(ledger[i], log[k], New)' = row /\ HoldEvent(i, HoldRow(ledger[i], log[k], New))' = e
    BY <1>1, <1>7, <2>3, <2>4 DEF HoldRow, HoldEvent, Event
  <2>8. OfRecord(ledger[i], i, log[k])' /\ HoldEvent(i, ledger[i])' = e
    BY <1>1, <2>4, <2>5, <2>6 DEF OfRecord, IsHold, HoldEvent, Event
  <2> QED BY <1>1, <1>8, <2>5, <2>7, <2>8 DEF Settled, Same
<1>15. n \in off'..Len(log')
  BY <1>1, <1>4, <1>5, <1>6
<1> QED BY <1>9, <1>10, <1>11, <1>12, <1>13, <1>14, <1>15 DEF Sure

(* A run ends early. *)
LEMMA InterruptSure ==
  ASSUME LInv, SInv, Interrupt
  PROVE  SInv'
<1> SUFFICES ASSUME reread # "torn" PROVE (Phase /\ Covered /\ \E m \in off..Len(log) : Sure(m))'
  BY DEF SInv, Interrupt
<1>1. UNCHANGED <<log, off, ledger, profile, rows, unsaved, reread>> /\ pc' = "idle"
  BY DEF Interrupt
<1>2. Typed /\ Phase /\ Covered
  BY DEF LInv, SInv
<1>3. PICK m \in off..Len(log) : Sure(m)
  BY DEF SInv
<1>4. End' = End /\ New' = New /\ ChunkEnd' = ChunkEnd /\ Upto(m)' = Upto(m)
  BY <1>1, SameReach
<1>5. Delivered' = Delivered /\ Ahead' = {}
  BY <1>1 DEF Delivered, Elems, Ahead
<1>6. Phase'
  BY <1>1, <1>2, <1>4 DEF Phase, IsSeq, Elems
<1>7. Covered'
  BY <1>1, <1>2, <1>4, <1>5 DEF Covered, Has, Matches
<1>8. ProfilesKnown(m)'
  BY <1>1, <1>3, <1>4 DEF Sure, ProfilesKnown, IsProfile
<1>9. RowsKnown(m)'
  BY <1>1, <1>3, <1>4, SameLog DEF Sure, RowsKnown, RowKnown, Follows
<1>10. EventsKnown(m)'
  BY <1>1, <1>3, <1>4, <1>5, SameLog DEF Sure, EventsKnown
<1>11. AllSettled(m)'
  <2>1. SUFFICES ASSUME NEW i \in Item, NEW k \in 1..Upto(m), Alone(i), Top(i, k, Upto(m)) PROVE Settled(m, i, k)'
    BY <1>1, <1>4, SameLog DEF AllSettled
  <2>2. Settled(m, i, k)
    BY <1>3, <2>1 DEF Sure, AllSettled
  <2>3. HoldRow(ledger[i], log[k], New)' = HoldRow(ledger[i], log[k], New)
    BY <1>1, <1>4 DEF HoldRow
  <2>4. OfRecord(ledger[i], i, log[k])' = OfRecord(ledger[i], i, log[k]) /\ HoldEvent(i, ledger[i])' = HoldEvent(i, ledger[i])
        /\ HoldEvent(i, HoldRow(ledger[i], log[k], New))' = HoldEvent(i, HoldRow(ledger[i], log[k], New))
    BY <1>1, <2>3 DEF OfRecord, IsHold, HoldEvent, Event
  <2> QED BY <1>1, <1>5, <2>2, <2>3, <2>4 DEF Settled, Same
<1> QED BY <1>1, <1>3, <1>6, <1>7, <1>8, <1>9, <1>10, <1>11 DEF Sure

(* The cursor is lost, and no chunk half done: all is known as before.     *)
LEMMA LoseCursorSure ==
  ASSUME LInv, SInv, LoseCursor
  PROVE  SInv'
<1> SUFFICES ASSUME reread' # "torn" PROVE (Phase /\ Covered /\ \E m \in off..Len(log) : Sure(m))'
  BY DEF SInv
<1>1. /\ UNCHANGED <<log, ledger, profile, rows, pc, unsaved>> /\ pc = "idle" /\ off' = 0
      /\ unsaved = 0 /\ reread # "torn"
  BY DEF LoseCursor
<1>2. Typed /\ Phase
  BY <1>1 DEF LInv, SInv
<1>3. PICK m \in off..Len(log) : Sure(m)
  BY <1>1 DEF SInv
<1>4. m \in 0..Len(log) /\ End = off /\ Upto(m) = m /\ New = profile /\ m \in Nat
  BY <1>1, <1>2, UptoIs DEF Typed
<1>5. End' = 0 /\ New' = New /\ Upto(m)' = m
  <2>1. End' = 0 /\ New' = New
    BY <1>1, <1>4 DEF End, New
  <2> QED BY <1>4, <2>1 DEF Upto
<1>6. Delivered' = Delivered /\ Ahead' = {}
  BY <1>1 DEF Delivered, Elems, Ahead
<1>7. Phase'
  BY <1>1, <1>2 DEF Phase, IsSeq, Elems
<1>8. Covered'
  BY <1>1 DEF Covered
<1>9. ProfilesKnown(m)'
  BY <1>1, <1>3, <1>4, <1>5 DEF Sure, ProfilesKnown, IsProfile
<1>10. RowsKnown(m)'
  BY <1>1, <1>3, <1>4, <1>5, SameLog DEF Sure, RowsKnown, RowKnown, Follows
<1>11. EventsKnown(m)'
  BY <1>1, <1>3, <1>4, <1>5, <1>6, SameLog DEF Sure, EventsKnown
<1>12. AllSettled(m)'
  <2>1. SUFFICES ASSUME NEW i \in Item, NEW k \in 1..m, Alone(i), Top(i, k, m) PROVE Settled(m, i, k)'
    BY <1>1, <1>5, SameLog DEF AllSettled
  <2>2. Settled(m, i, k)
    BY <1>3, <1>4, <2>1 DEF Sure, AllSettled
  <2>3. HoldRow(ledger[i], log[k], New)' = HoldRow(ledger[i], log[k], New)
    BY <1>1, <1>5 DEF HoldRow
  <2>4. OfRecord(ledger[i], i, log[k])' = OfRecord(ledger[i], i, log[k]) /\ HoldEvent(i, ledger[i])' = HoldEvent(i, ledger[i])
        /\ HoldEvent(i, HoldRow(ledger[i], log[k], New))' = HoldEvent(i, HoldRow(ledger[i], log[k], New))
    BY <1>1, <2>3 DEF OfRecord, IsHold, HoldEvent, Event
  <2> QED BY <1>1, <1>6, <2>2, <2>3, <2>4 DEF Settled, Same
<1> QED BY <1>1, <1>3, <1>4, <1>7, <1>8, <1>9, <1>10, <1>11, <1>12 DEF Sure

(* The log grows; of what is read of it, nothing changes.                  *)
LEMMA AppendSure ==
  ASSUME LInv, SInv, ~Regrowth, AppendRecord
  PROVE  SInv'
<1> SUFFICES ASSUME reread # "torn" PROVE (Phase /\ Covered /\ \E m \in off..Len(log) : Sure(m))'
  BY DEF SInv, AppendRecord
<1>1. /\ UNCHANGED <<off, ledger, profile, rows, pc, unsaved, reread>> /\ unsaved = 0 /\ pc = "idle"
      /\ \E r \in Record : log' = Append(log, r)
  BY DEF AppendRecord, LInv, Underway
<1>2. Typed /\ Phase /\ Covered
  BY <1>1 DEF LInv, SInv
<1>3. PICK m \in off..Len(log) : Sure(m)
  BY <1>1 DEF SInv
<1>4. m \in 0..Len(log) /\ End = off /\ Upto(m) = m /\ New = profile /\ m \in Nat /\ off \in 0..m
  BY <1>1, <1>2, UptoIs DEF Typed
<1>5. Len(log') = Len(log) + 1 /\ Len(log) \in Nat /\ DOMAIN log = 1..Len(log) /\ DOMAIN log' = 1..(Len(log) + 1)
      /\ \A k \in 1..Len(log) : log'[k] = log[k]
  <2>1. PICK r \in Record : log' = Append(log, r)
    BY <1>1
  <2> QED BY <1>2, <2>1, AppendProperties DEF Typed
<1>6. \A k \in 1..m : k \in 1..Len(log) /\ log'[k] = log[k]
  BY <1>4, <1>5
<1>7. End' = End /\ New' = New /\ Upto(m)' = m
  <2>1. End' = off /\ New' = profile
    BY <1>1 DEF End, New
  <2> QED BY <1>4, <2>1 DEF Upto
<1>8. Delivered' = Delivered /\ Ahead' = {} /\ Ahead = {}
  BY <1>1 DEF Delivered, Elems, Ahead
<1>9. /\ \A e : From(e, m)' <=> From(e, m)
      /\ \A row, i : Behind(row, i, m)' <=> Behind(row, i, m)
      /\ \A i : \A k \in 1..m : Top(i, k, m)' <=> Top(i, k, m)
  BY <1>6 DEF From, Source, Matches, Behind, OfRecord, IsHold, Top
<1>10. \A i : Alone(i)' => Alone(i)
  BY <1>5 DEF Alone
<1>11. Phase'
  BY <1>1, <1>2 DEF Phase, IsSeq, Elems
<1>12. Covered'
  <2>1. \A k \in 1..off : k \in 1..m
    BY <1>4
  <2> QED BY <1>1, <1>2, <1>6, <1>8, <2>1 DEF Covered, Has, Matches
<1>13. ProfilesKnown(m)'
  <2>1. SUFFICES ASSUME NEW p \in Patron
                 PROVE  /\ (\A k \in 1..m : ~IsProfile(log'[k], p)) => New[p] = {}
                        /\ \A k \in 1..off : IsProfile(log'[k], p) /\ (\A j \in (k + 1)..off : ~IsProfile(log'[j], p)) =>
                             New[p] = log'[k].outcome
    BY <1>4, <1>7 DEF ProfilesKnown, IsProfile
  <2>2. /\ (\A k \in 1..m : ~IsProfile(log[k], p)) => New[p] = {}
        /\ \A k \in 1..off : IsProfile(log[k], p) /\ (\A j \in (k + 1)..off : ~IsProfile(log[j], p)) =>
             New[p] = log[k].outcome
    BY <1>3, <1>4 DEF Sure, ProfilesKnown
  <2>3. \A k \in 1..off : k \in 1..m /\ \A j \in (k + 1)..off : j \in 1..m
    BY <1>4
  <2> QED BY <1>6, <2>2, <2>3
<1>14. RowsKnown(m)'
  BY <1>1, <1>3, <1>4, <1>7, <1>9 DEF Sure, RowsKnown, RowKnown, Follows
<1>15. EventsKnown(m)'
  BY <1>1, <1>3, <1>4, <1>7, <1>8, <1>9 DEF Sure, EventsKnown
<1>16. AllSettled(m)'
  <2>1. SUFFICES ASSUME NEW i \in Item, NEW k \in 1..m, Alone(i), Top(i, k, m) PROVE Settled(m, i, k)'
    BY <1>7, <1>9, <1>10 DEF AllSettled
  <2>2. Settled(m, i, k)
    BY <1>3, <1>4, <2>1 DEF Sure, AllSettled
  <2>3. HoldRow(ledger[i], log[k], New)' = HoldRow(ledger[i], log[k], New) /\ log'[k] = log[k]
    BY <1>1, <1>6, <1>7 DEF HoldRow
  <2>4. OfRecord(ledger[i], i, log[k])' = OfRecord(ledger[i], i, log[k]) /\ HoldEvent(i, ledger[i])' = HoldEvent(i, ledger[i])
        /\ HoldEvent(i, HoldRow(ledger[i], log[k], New))' = HoldEvent(i, HoldRow(ledger[i], log[k], New))
    BY <1>1, <2>3 DEF OfRecord, IsHold, HoldEvent, Event
  <2> QED BY <1>1, <1>8, <2>2, <2>3, <2>4 DEF Settled, Same
<1>17. m \in off'..Len(log')
  BY <1>1, <1>4, <1>5
<1> QED BY <1>11, <1>12, <1>13, <1>14, <1>15, <1>16, <1>17 DEF Sure

(* Nothing happens. *)
LEMMA StutterSure ==
  ASSUME LInv, SInv, UNCHANGED vars
  PROVE  SInv'
<1> SUFFICES ASSUME reread # "torn" PROVE (Phase /\ Covered /\ \E m \in off..Len(log) : Sure(m))'
  BY DEF SInv, vars
<1>1. UNCHANGED <<log, off, ledger, profile, rows, pc, chunk, sent, unsaved, reread>>
  BY DEF vars
<1>2. Phase /\ Covered
  BY DEF SInv
<1>3. PICK m \in off..Len(log) : Sure(m)
  BY DEF SInv
<1>4. End' = End /\ New' = New /\ ChunkEnd' = ChunkEnd /\ Upto(m)' = Upto(m)
  BY <1>1, SameReach
<1>5. Delivered' = Delivered /\ Ahead' = Ahead
  BY <1>1 DEF Delivered, Elems, Ahead
<1>6. Phase' /\ Covered'
  BY <1>1, <1>2, <1>4, <1>5 DEF Phase, IsSeq, Elems, Covered, Has, Matches
<1>7. ProfilesKnown(m)'
  BY <1>1, <1>3, <1>4 DEF Sure, ProfilesKnown, IsProfile
<1>8. RowsKnown(m)'
  BY <1>1, <1>3, <1>4, SameLog DEF Sure, RowsKnown, RowKnown, Follows
<1>9. EventsKnown(m)'
  BY <1>1, <1>3, <1>4, <1>5, SameLog DEF Sure, EventsKnown
<1>10. AllSettled(m)'
  <2>1. SUFFICES ASSUME NEW i \in Item, NEW k \in 1..Upto(m), Alone(i), Top(i, k, Upto(m)) PROVE Settled(m, i, k)'
    BY <1>1, <1>4, SameLog DEF AllSettled
  <2>2. Settled(m, i, k)
    BY <1>3, <2>1 DEF Sure, AllSettled
  <2>3. HoldRow(ledger[i], log[k], New)' = HoldRow(ledger[i], log[k], New)
    BY <1>1, <1>4 DEF HoldRow
  <2>4. OfRecord(ledger[i], i, log[k])' = OfRecord(ledger[i], i, log[k]) /\ HoldEvent(i, ledger[i])' = HoldEvent(i, ledger[i])
        /\ HoldEvent(i, HoldRow(ledger[i], log[k], New))' = HoldEvent(i, HoldRow(ledger[i], log[k], New))
    BY <1>1, <2>3 DEF OfRecord, IsHold, HoldEvent, Event
  <2> QED BY <1>1, <1>5, <2>2, <2>3, <2>4 DEF Settled, Same
<1> QED BY <1>1, <1>3, <1>6, <1>7, <1>8, <1>9, <1>10 DEF Sure

(* It holds to begin with. *)
LEMMA SureInit == Init => SInv
<1> SUFFICES ASSUME Init PROVE Phase /\ Covered /\ \E m \in off..Len(log) : Sure(m)
  BY DEF SInv
<1>1. /\ log = <<>> /\ off = 0 /\ ledger = [i \in Item |-> NoRow] /\ profile = [p \in Patron |-> {}]
      /\ rows = <<>> /\ pc = "idle" /\ unsaved = 0 /\ Len(log) = 0
  BY DEF Init
<1>2. Delivered = {} /\ Ahead = {} /\ IsSeq(rows)
  BY <1>1 DEF Delivered, Ahead, Elems, IsSeq
<1>3. End = 0 /\ New = profile /\ Upto(0) = 0
  BY <1>1 DEF End, New, Upto
<1>4. Phase /\ Covered
  BY <1>1, <1>2 DEF Phase, Covered
<1>5. ProfilesKnown(0)
  BY <1>1, <1>3 DEF ProfilesKnown
<1>6. RowsKnown(0)
  <2>1. ASSUME NEW i \in Item PROVE RowKnown(ledger[i], i, 0) /\ Follows(ledger[i], profile)
    <3>1. ledger[i] = NoRow /\ NoRow.rev = 0
      BY <1>1 DEF NoRow
    <3> QED BY <3>1 DEF RowKnown, Behind, Follows
  <2> QED BY <1>1, <2>1 DEF RowsKnown
<1>7. EventsKnown(0) /\ AllSettled(0)
  BY <1>2, <1>3 DEF EventsKnown, AllSettled
<1>8. 0 \in off..Len(log)
  BY <1>1
<1> QED BY <1>4, <1>5, <1>6, <1>7, <1>8 DEF Sure

(* Every step keeps it. *)
LEMMA SureStep == ASSUME ~Regrowth PROVE LInv /\ SInv /\ [Next]_vars => SInv'
<1> SUFFICES ASSUME LInv, SInv, [Next]_vars PROVE SInv'
  OBVIOUS
<1>1. CASE AppendRecord
  BY <1>1, AppendSure
<1>2. CASE ReadChunk
  BY <1>2, ReadChunkSure
<1>3. CASE Send
  BY <1>3, SendSure
<1>4. CASE CommitHolds
  BY <1>4, CommitHoldsSure
<1>5. CASE CommitPatrons
  BY <1>5, CommitPatronsSure
<1>6. CASE SaveCursor
  BY <1>6, SaveCursorSure
<1>7. CASE Interrupt
  BY <1>7, InterruptSure
<1>8. CASE LoseCursor
  BY <1>8, LoseCursorSure
<1>9. CASE ReadNothing \/ UNCHANGED vars
  BY <1>9, StutterSure DEF ReadNothing
<1> QED BY <1>1, <1>2, <1>3, <1>4, <1>5, <1>6, <1>7, <1>8, <1>9 DEF Next

(* The invariant of a log sent again is one, too. *)
THEOREM LedgerIsSure == ASSUME ~Regrowth PROVE Spec => [](LInv /\ SInv)
<1>1. Init => LInv /\ SInv
  BY LedgerInit, SureInit
<1>2. LInv /\ SInv /\ [Next]_vars => (LInv /\ SInv)'
  BY LedgerStep, SureStep
<1> QED BY <1>1, <1>2, PTL DEF Spec

-----------------------------------------------------------------------------
(* What the server says once the log is delivered.                         *)

(* The invariant at the end of the log. *)
LEMMA AtTheEnd ==
  ASSUME LInv, SInv, CaughtUp, reread # "torn"
  PROVE  /\ New = profile /\ Upto(Len(log)) = Len(log) /\ End = Len(log) /\ pc = "idle" /\ Len(log) \in Nat
         /\ Sure(Len(log)) /\ \A k \in 1..Len(log) : Has(Delivered, k)
         /\ Len(rows) \in Nat /\ DOMAIN rows = 1..Len(rows) /\ DOMAIN log = 1..Len(log)
         /\ \A k \in 1..Len(log) : log[k] \in Record
<1>1. Phase /\ Covered
  BY DEF SInv
<1>2. PICK m \in off..Len(log) : Sure(m)
  BY DEF SInv
<1>3. pc = "idle" /\ off = Len(log) /\ log \in Seq(Record) /\ Len(log) \in Nat
  BY DEF CaughtUp, LInv, Typed
<1>4. unsaved = 0 /\ m = Len(log)
  BY <1>1, <1>3 DEF Phase
<1>5. New = profile /\ End = Len(log)
  BY <1>3, <1>4 DEF New, End
<1>6. Upto(Len(log)) = Len(log)
  BY <1>3, <1>5 DEF Upto
<1>7. Len(rows) \in Nat /\ DOMAIN rows = 1..Len(rows)
  BY <1>1 DEF Phase, IsSeq
<1>8. \A k \in 1..Len(log) : Has(Delivered, k)
  BY <1>1, <1>3 DEF Covered
<1>9. DOMAIN log = 1..Len(log) /\ \A k \in 1..Len(log) : log[k] \in Record
  BY <1>3
<1> QED BY <1>2, <1>3, <1>4, <1>5, <1>6, <1>7, <1>8, <1>9

(* A bounded set of numbers has a greatest one. *)
LEMMA GreatestNumber ==
  ASSUME NEW n \in Nat, NEW T \in SUBSET (1..n), T # {}
  PROVE  \E g \in T : \A j \in T : j <= g
<1> DEFINE D == {d \in 0..n : n - d \in T}
<1>1. D \in SUBSET Nat /\ D # {}
  <2>1. PICK t \in T : TRUE
    OBVIOUS
  <2>2. n - t \in 0..n /\ n - (n - t) = t
    BY <2>1
  <2>3. n - t \in D
    BY <2>1, <2>2
  <2>4. D \subseteq 0..n /\ 0..n \subseteq Nat
    OBVIOUS
  <2> HIDE DEF D
  <2> QED BY <2>3, <2>4
<1>2. PICK d \in D : \A c \in D : d <= c
  BY <1>1, LeastNumber
<1>3. ASSUME NEW j \in T PROVE j <= n - d
  <2>1. j \in 1..n /\ n - j \in 0..n /\ n - (n - j) = j
    OBVIOUS
  <2>2. d <= n - j
    BY <1>2, <2>1
  <2> QED BY <1>2, <2>1, <2>2
<1> QED BY <1>2, <1>3

(* Every profile is the one the dashboard finds. *)
LEMMA ProfileIsLatest ==
  ASSUME LInv, SInv, CaughtUp, reread # "torn"
  PROVE  LatestProfile(NoPatron) = {} /\ \A p \in Patron : profile[p] = LatestProfile(p)
<1> DEFINE of(p) == {k \in DOMAIN log : log[k].kind = "profile" /\ log[k].patron = p}
<1>1. /\ New = profile /\ Upto(Len(log)) = Len(log) /\ End = Len(log) /\ Len(log) \in Nat
      /\ DOMAIN log = 1..Len(log) /\ ProfilesKnown(Len(log)) /\ \A k \in 1..Len(log) : log[k] \in Record
  BY AtTheEnd DEF Sure
<1>2. of(NoPatron) = {}
  BY <1>1, RecordIs, LedgerAssumption
<1>3. ASSUME NEW p \in Patron, of(p) = {} PROVE profile[p] = {}
  BY <1>1, <1>3 DEF ProfilesKnown, IsProfile
<1>4. ASSUME NEW p \in Patron, of(p) # {}
      PROVE  profile[p] = log[CHOOSE k \in of(p) : \A j \in of(p) : j <= k].outcome
  <2>1. PICK g \in of(p) : \A j \in of(p) : j <= g
    BY <1>1, <1>4, GreatestNumber
  <2>2. (CHOOSE k \in of(p) : \A j \in of(p) : j <= k) = g
    <3>1. \A k \in of(p) : (\A j \in of(p) : j <= k) => k = g
      BY <1>1, <2>1
    <3> QED BY <2>1, <3>1
  <2>3. g \in 1..Len(log) /\ IsProfile(log[g], p) /\ \A j \in (g + 1)..Len(log) : ~IsProfile(log[j], p)
    <3>1. g \in 1..Len(log) /\ IsProfile(log[g], p)
      BY <1>1, <2>1 DEF IsProfile
    <3>2. ASSUME NEW j \in (g + 1)..Len(log), IsProfile(log[j], p) PROVE FALSE
      <4>1. j \in 1..Len(log) /\ ~(j <= g)
        BY <1>1, <3>1
      <4> QED BY <1>1, <2>1, <3>2, <4>1 DEF IsProfile
    <3> QED BY <3>1, <3>2
  <2>4. New[p] = log[g].outcome
    BY <1>1, <2>3 DEF ProfilesKnown
  <2> QED BY <1>1, <2>2, <2>4
<1> QED BY <1>2, <1>3, <1>4 DEF LatestProfile

(* The record that counts, of the log and of the server's rows. *)
InLog(x, i, kinds) ==
  /\ x \in DOMAIN log /\ log[x].kind \in kinds /\ log[x].item = i
  /\ \A j \in DOMAIN log : log[j].kind \in kinds /\ log[j].item = i =>
       log[j].time < log[x].time \/ (log[j].time = log[x].time /\ j <= x)
InRows(k, i, kinds) ==
  /\ k \in DOMAIN rows /\ rows[k].state \in kinds /\ rows[k].item = i
  /\ \A j \in DOMAIN rows : rows[j].state \in kinds /\ rows[j].item = i =>
       rows[j].time < rows[k].time \/ (rows[j].time = rows[k].time /\ j <= k)

(* Every row is of a record, and every record has a row. *)
LEMMA RowsAndRecords ==
  ASSUME LInv, SInv, CaughtUp, reread # "torn"
  PROVE  /\ \A k \in DOMAIN rows : \E x \in DOMAIN log : Source(log[x], rows[k])
         /\ \A x \in DOMAIN log : log[x].kind # "profile" => \E k \in DOMAIN rows : Matches(rows[k], log[x])
         /\ \A x \in DOMAIN log : log[x].kind # "profile" => log[x].time \in Nat
<1>1. /\ Upto(Len(log)) = Len(log) /\ DOMAIN log = 1..Len(log) /\ EventsKnown(Len(log))
      /\ \A k \in 1..Len(log) : log[k] \in Record /\ Has(Delivered, k)
  BY AtTheEnd DEF Sure
<1>2. ASSUME NEW k \in DOMAIN rows PROVE \E x \in DOMAIN log : Source(log[x], rows[k])
  BY <1>1 DEF EventsKnown, Delivered, Elems, From
<1>3. ASSUME NEW x \in DOMAIN log, log[x].kind # "profile" PROVE \E k \in DOMAIN rows : Matches(rows[k], log[x])
  BY <1>1, <1>3 DEF Has, Delivered, Elems
<1>4. \A x \in DOMAIN log : log[x].kind # "profile" => log[x].time \in Nat
  BY <1>1, RecordIs
<1> QED BY <1>2, <1>3, <1>4

(* The row that counts is of the record that counts. *)
LEMMA RowCounts ==
  ASSUME LInv, SInv, CaughtUp, reread # "torn", NEW i \in Item, Alone(i), NEW kinds \in {Overview, LiveToday},
         NEW k, InRows(k, i, kinds)
  PROVE  \E x : InLog(x, i, kinds) /\ Source(log[x], rows[k])
<1>1. PICK x \in DOMAIN log : Source(log[x], rows[k])
  BY RowsAndRecords DEF InRows
<1>2. log[x].kind = rows[k].state /\ log[x].kind # "profile" /\ log[x].item = i /\ log[x].time = rows[k].time
  BY <1>1 DEF InRows, Source, Matches
<1>3. ASSUME NEW j \in DOMAIN log, log[j].kind \in kinds, log[j].item = i
      PROVE  log[j].time < log[x].time \/ (log[j].time = log[x].time /\ j <= x)
  <2>1. log[j].kind # "profile"
    BY <1>3 DEF Overview, LiveToday
  <2>2. PICK n \in DOMAIN rows : Matches(rows[n], log[j])
    BY <2>1, RowsAndRecords
  <2>3. rows[n].state \in kinds /\ rows[n].item = i /\ rows[n].time = log[j].time
    BY <1>3, <2>2 DEF Matches
  <2>4. log[j].time < log[x].time \/ log[j].time = log[x].time
    BY <1>2, <2>3 DEF InRows
  <2>5. log[j].time = log[x].time => j = x
    BY <1>2, <1>3, <2>1 DEF Alone
  <2>6. x <= x
    BY AtTheEnd
  <2> QED BY <2>4, <2>5, <2>6
<1>4. log[x].kind \in kinds
  BY <1>2 DEF InRows
<1> QED BY <1>1, <1>2, <1>3, <1>4 DEF InLog

(* A hold that counts has a row that does. *)
LEMMA RecordCounts ==
  ASSUME LInv, SInv, CaughtUp, reread # "torn", NEW i \in Item, Alone(i), NEW kinds \in {Overview, LiveToday},
         NEW x, InLog(x, i, kinds), log[x].kind = "hold"
  PROVE  \E k : InRows(k, i, kinds) /\ Same(rows[k], i, log[x].time)
<1> DEFINE T == {n \in DOMAIN rows : Same(rows[n], i, log[x].time)}
<1>1. x \in DOMAIN log /\ log[x].item = i /\ "hold" \in kinds
  BY DEF InLog
<1>2. T # {}
  <2>1. PICK n \in DOMAIN rows : Matches(rows[n], log[x])
    BY <1>1, RowsAndRecords
  <2> QED BY <1>1, <2>1 DEF Matches, Same
<1>3. PICK g \in T : \A j \in T : j <= g
  <2>1. T \in SUBSET (1..Len(rows)) /\ Len(rows) \in Nat
    BY AtTheEnd
  <2> QED BY <1>2, <2>1, GreatestNumber
<1>4. g \in DOMAIN rows /\ rows[g].state = "hold" /\ rows[g].item = i /\ rows[g].time = log[x].time
  BY <1>3 DEF Same
<1>5. ASSUME NEW n \in DOMAIN rows, rows[n].state \in kinds, rows[n].item = i
      PROVE  rows[n].time < rows[g].time \/ (rows[n].time = rows[g].time /\ n <= g)
  <2>1. PICK y \in DOMAIN log : Source(log[y], rows[n])
    BY RowsAndRecords
  <2>2. log[y].kind \in kinds /\ log[y].kind # "profile" /\ log[y].item = i /\ log[y].time = rows[n].time
        /\ log[y].kind = rows[n].state
    BY <1>5, <2>1 DEF Source, Matches
  <2>3. log[y].time < log[x].time \/ log[y].time = log[x].time
    BY <2>2 DEF InLog
  <2>4. ASSUME log[y].time = log[x].time PROVE n <= g
    <3>1. y = x
      BY <1>1, <2>2, <2>4 DEF Alone
    <3>2. Same(rows[n], i, log[x].time)
      BY <1>5, <2>2, <3>1 DEF Same
    <3> QED BY <1>3, <3>2
  <2> QED BY <1>4, <2>2, <2>3, <2>4
<1> QED BY <1>1, <1>4, <1>5 DEF InRows, Same

(* The row that counts says of a hold what the dashboard does. *)
LEMMA RowSays ==
  ASSUME LInv, SInv, CaughtUp, reread # "torn", NEW i \in Item, Alone(i), NEW kinds \in {Overview, LiveToday},
         NEW k, InRows(k, i, kinds), NEW x, InLog(x, i, kinds), Source(log[x], rows[k]), log[x].kind = "hold"
  PROVE  rows[k].flags = Combine(log[x].static, LatestProfile(log[x].patron))
<1>1. /\ x \in 1..Len(log) /\ log[x] \in Record /\ New = profile /\ Upto(Len(log)) = Len(log) /\ Len(log) \in Nat
      /\ RowsKnown(Len(log)) /\ AllSettled(Len(log)) /\ DOMAIN log = 1..Len(log)
      /\ Len(rows) \in Nat /\ DOMAIN rows = 1..Len(rows) /\ k \in 1..Len(rows)
  BY AtTheEnd DEF Sure, InLog, InRows
<1>2. log[x].item = i /\ log[x].time \in Nat \ {0} /\ log[x].patron \in Patron \cup {NoPatron}
  BY <1>1, RecordIs DEF InLog
<1>3. CASE log[x].patron = NoPatron
  <2>1. rows[k].flags = log[x].static
    BY <1>3 DEF Source
  <2> QED BY <1>3, <2>1, ProfileIsLatest DEF Combine
<1>4. CASE log[x].patron \in Patron
  <2>1. Top(i, x, Len(log))
    <3>1. ASSUME NEW j \in 1..Len(log), log[j].kind \in Overview, log[j].item = i PROVE log[j].time <= log[x].time
      <4>1. log[j].kind \in kinds /\ log[j].kind # "profile"
        BY <3>1 DEF Overview, LiveToday
      <4>2. log[j].time \in Nat
        BY <1>1, <4>1, RowsAndRecords
      <4> QED BY <1>1, <1>2, <3>1, <4>1, <4>2 DEF InLog
    <3> QED BY <1>2, <1>4, <3>1, LedgerAssumption DEF Top, IsHold
  <2>2. Settled(Len(log), i, x)
    BY <1>1, <2>1 DEF AllSettled
  <2>3. OfRecord(ledger[i], i, log[x]) /\ HoldEvent(i, ledger[i]) \in Delivered
    <3>1. x <= Len(log)
      BY <1>1
    <3> QED BY <2>2, <3>1 DEF Settled
  <2>4. ledger[i].flags = Combine(log[x].static, profile[log[x].patron]) /\ IsRow(ledger[i])
    <3>1. ledger[i] # NoRow /\ ledger[i].patron = log[x].patron /\ ledger[i].static = log[x].static
      BY <1>2, <2>3 DEF OfRecord, IsHold, NoRow
    <3>2. Follows(ledger[i], profile) /\ IsRow(ledger[i])
      BY <1>1 DEF RowsKnown, LInv, Rows
    <3> QED BY <3>1, <3>2 DEF Follows
  <2>5. HoldRow(ledger[i], log[x], New) = ledger[i]
    BY <1>1, <1>2, <1>4, <2>3, <2>4, RowStays
  <2>6. Same(rows[k], i, log[x].time)
    BY DEF InRows, Source, Matches, Same
  <2>7. PICK n \in k..Len(rows) : rows[n] = HoldEvent(i, ledger[i])
    BY <1>1, <2>2, <2>3, <2>5, <2>6 DEF Settled
  <2>8. rows[n].state = "hold" /\ rows[n].item = i /\ rows[n].time = rows[k].time /\ rows[n].flags = ledger[i].flags
    BY <2>3, <2>6, <2>7 DEF HoldEvent, Event, OfRecord, IsHold, Same
  <2>9. n = k
    <3>1. n \in DOMAIN rows /\ rows[n].state \in kinds
      BY <1>1, <2>8 DEF Overview, LiveToday
    <3>2. ~(rows[n].time < rows[k].time)
      BY <1>2, <2>6, <2>8 DEF Same
    <3>3. n <= k
      BY <2>8, <3>1, <3>2 DEF InRows
    <3> QED BY <1>1, <3>3
  <2>10. profile[log[x].patron] = LatestProfile(log[x].patron)
    BY <1>4, ProfileIsLatest
  <2> QED BY <2>4, <2>8, <2>9, <2>10
<1> QED BY <1>2, <1>3, <1>4

(* Two records cannot both count. *)
LEMMA OneCounts ==
  ASSUME LInv, SInv, CaughtUp, reread # "torn", NEW i, NEW kinds \in {Overview, LiveToday},
         NEW x, InLog(x, i, kinds), NEW y, InLog(y, i, kinds)
  PROVE  x = y
<1>1. log[x].kind # "profile" /\ log[y].kind # "profile"
  BY DEF InLog, Overview, LiveToday
<1>2. log[x].time \in Nat /\ log[y].time \in Nat /\ x \in Nat /\ y \in Nat
  BY <1>1, RowsAndRecords, AtTheEnd DEF InLog
<1> QED BY <1>2 DEF InLog

(* The server's answer for an item with no two records in one second. *)
LEMMA AnswerIs ==
  ASSUME LInv, SInv, CaughtUp, reread # "torn", NEW i \in Item, Alone(i), NEW kinds \in {Overview, LiveToday}
  PROVE  Answer(i, kinds) = Dashboard(i, kinds)
<1>1. Answer(i, kinds) = {rows[k].flags : k \in {n \in DOMAIN rows : InRows(n, i, kinds) /\ rows[n].state = "hold"}}
  BY DEF Answer, Latest, InRows
<1>2. Dashboard(i, kinds) = {Combine(log[k].static, LatestProfile(log[k].patron)) :
                               k \in {n \in DOMAIN log : InLog(n, i, kinds) /\ log[n].kind = "hold"}}
  BY DEF Dashboard, Latest, InLog
<1>3. ASSUME NEW k \in DOMAIN rows, InRows(k, i, kinds), rows[k].state = "hold"
      PROVE  \E x \in DOMAIN log : /\ InLog(x, i, kinds) /\ log[x].kind = "hold"
                                   /\ rows[k].flags = Combine(log[x].static, LatestProfile(log[x].patron))
  <2>1. PICK x : InLog(x, i, kinds) /\ Source(log[x], rows[k])
    BY <1>3, RowCounts
  <2>2. log[x].kind = "hold" /\ x \in DOMAIN log
    BY <1>3, <2>1 DEF Source, Matches, InLog
  <2> QED BY <1>3, <2>1, <2>2, RowSays
<1>4. ASSUME NEW x \in DOMAIN log, InLog(x, i, kinds), log[x].kind = "hold"
      PROVE  \E k \in DOMAIN rows : /\ InRows(k, i, kinds) /\ rows[k].state = "hold"
                                    /\ rows[k].flags = Combine(log[x].static, LatestProfile(log[x].patron))
  <2>1. PICK k : InRows(k, i, kinds) /\ Same(rows[k], i, log[x].time)
    BY <1>4, RecordCounts
  <2>2. k \in DOMAIN rows /\ rows[k].state = "hold"
    BY <2>1 DEF InRows, Same
  <2>3. PICK y : InLog(y, i, kinds) /\ Source(log[y], rows[k])
    BY <2>1, RowCounts
  <2>4. y = x
    BY <1>4, <2>3, OneCounts
  <2>5. rows[k].flags = Combine(log[x].static, LatestProfile(log[x].patron))
    BY <1>4, <2>1, <2>3, <2>4, RowSays
  <2> QED BY <2>1, <2>2, <2>5
<1> QED BY <1>1, <1>2, <1>3, <1>4

(* After any number of failed runs, and of cursors lost between chunks,    *)
(* the log that was sent again gives both reports the dashboard's answer   *)
(* for every item that has no two records in one second.                   *)
THEOREM RereadMatchesAlways == ASSUME ~Regrowth PROVE Spec => []RereadMatches
<1>1. LInv /\ SInv => RereadMatches
  BY AnswerIs DEF RereadMatches
<1> QED BY <1>1, LedgerIsSure, PTL
=============================================================================
