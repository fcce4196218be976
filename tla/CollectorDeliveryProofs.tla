----------------------- MODULE CollectorDeliveryProofs -----------------------
(***************************************************************************)
(* The safety of CollectorDelivery for every number of sources, lines,     *)
(* chunks, faults and every set of refusable events.                       *)
(***************************************************************************)
EXTENDS CollectorDelivery, SequenceTheorems, FiniteSetTheorems, TLAPS

(* While a run reads or delivers, its source is a configured one. *)
LEMMA SrcIsSource ==
  ASSUME RunType, pc \in {"read", "post", "wait", "commit", "save"}
  PROVE  Src \in Source
<1>1. Len(Sources) \in Nat
  BY DeliveryAssumption, LenProperties
<1>2. at \in 1..Len(Sources)
  BY <1>1 DEF RunType
<1> QED BY <1>2 DEF Src, Source

(* What a request carries are events, by their keys. *)
LEMMA BatchKeys ==
  ASSUME RunType, TransferType, pc = "wait", NEW positions \in SUBSET (batch \cup todo)
  PROVE  KeysAt(positions) \in SUBSET Key
<1>1. Src \in Source
  BY SrcIsSource
<1>2. \A i \in positions : chunk.line[i] \in Event
  BY DEF TransferType, Line
<1> QED BY <1>1, <1>2 DEF KeysAt, Key

(* The least elements of a set are some of its elements. *)
LEMMA LeastSubset ==
  ASSUME NEW n, NEW S
  PROVE  Least(n, S) \subseteq S
BY DEF Least

(* What the quarantine keeps under its cap is the end of what it had. *)
LEMMA LastOfType ==
  ASSUME NEW T, NEW q \in Seq(T), NEW n \in Nat \ {0}
  PROVE  /\ LastOf(n, q) \in Seq(T) /\ Len(LastOf(n, q)) <= n
         /\ \A k \in DOMAIN LastOf(n, q) : \E j \in DOMAIN q : LastOf(n, q)[k] = q[j]
<1> DEFINE tail == SubSeq(q, Len(q) - n + 1, Len(q))
<1>1. CASE Len(q) > n
  <2>1. LastOf(n, q) = tail
    BY <1>1 DEF LastOf
  <2>2. /\ Len(q) \in Nat /\ Len(q) - n + 1 \in 1..Len(q)
        /\ \A i \in 1..Len(q) : q[i] \in T
    BY <1>1, LenProperties
  <2>3. \A i \in Len(q) - n + 1..Len(q) : q[i] \in T
    BY <2>2
  <2>4. /\ tail \in Seq(T) /\ Len(tail) = n
        /\ \A k \in 1..n : tail[k] = q[Len(q) - n + k]
    <3>1. /\ tail \in Seq(T)
          /\ Len(tail) = IF Len(q) - n + 1 <= Len(q) THEN Len(q) - (Len(q) - n + 1) + 1 ELSE 0
          /\ \A i \in 1..Len(q) - (Len(q) - n + 1) + 1 : tail[i] = q[(Len(q) - n + 1) + i - 1]
      BY <2>2, <2>3, SubSeqProperties
    <3> HIDE DEF tail
    <3> QED BY <3>1, <2>2
  <2>5. DOMAIN tail = 1..n /\ DOMAIN q = 1..Len(q)
    BY <2>4, LenProperties
  <2> HIDE DEF tail
  <2>6. \A k \in 1..n : Len(q) - n + k \in DOMAIN q
    BY <2>2, <2>5
  <2> QED BY <2>1, <2>4, <2>5, <2>6
<1>2. CASE ~(Len(q) > n)
  <2>1. LastOf(n, q) = q /\ Len(q) \in Nat
    BY <1>2, LenProperties DEF LastOf
  <2> QED BY <1>2, <2>1
<1> QED BY <1>1, <1>2

(* Quarantine.add keeps to the type and the cap, and what it holds after   *)
(* was there before or was added.                                          *)
LEMMA QuarantineType ==
  ASSUME TypeOK, pc = "wait", NEW positions \in SUBSET batch, AddToQuarantine(positions)
  PROVE  /\ quarantine' \in Seq(Key) /\ Len(quarantine') <= QuarantineCap
         /\ Quarantined' \subseteq Quarantined \cup KeysAt(positions)
<1> DEFINE new == {i \in positions :
                /\ <<Src, chunk.line[i]>> \notin Quarantined
                /\ \A j \in positions : j < i => chunk.line[j] # chunk.line[i]}
<1>1. PICK order \in [1..Cardinality(new) -> new] :
         quarantine' = LastOf(QuarantineCap,
            quarantine \o [k \in DOMAIN order |-> <<Src, chunk.line[order[k]]>>])
  BY DEF AddToQuarantine
<1> DEFINE add == [k \in 1..Cardinality(new) |-> <<Src, chunk.line[order[k]]>>]
<1>2. \A i \in positions : <<Src, chunk.line[i]>> \in Key
  <2>1. KeysAt(positions) \in SUBSET Key
    BY BatchKeys DEF TypeOK
  <2> QED BY <2>1 DEF KeysAt
<1>3. Cardinality(new) \in Nat
  <2>1. IsFiniteSet((chunk.from + 1)..chunk.cur.off)
    <3>1. chunk.from + 1 \in Int /\ chunk.cur.off \in Int
      BY DEF TypeOK, TransferType, Cursor
    <3> QED BY <3>1, FS_Interval
  <2>2. new \in SUBSET ((chunk.from + 1)..chunk.cur.off)
    BY DEF TypeOK, TransferType
  <2> QED BY <2>1, <2>2, FS_Subset, FS_CardinalityType
<1>4. add \in Seq(Key) /\ DOMAIN add = 1..Cardinality(new)
  <2>1. add \in [1..Cardinality(new) -> Key]
    BY <1>2
  <2> HIDE DEF new, add
  <2> QED BY <1>3, <2>1, SeqDef
<1>5. \A k \in DOMAIN add : add[k] \in KeysAt(positions)
  BY DEF KeysAt
<1> HIDE DEF add, new
<1>6. quarantine' = LastOf(QuarantineCap, quarantine \o add)
  BY <1>1 DEF add
<1> DEFINE both == quarantine \o add
<1>7. /\ both \in Seq(Key)
      /\ \A k \in DOMAIN both : both[k] \in Quarantined \cup KeysAt(positions)
  <2>1. /\ quarantine \in Seq(Key) /\ Len(quarantine) \in Nat /\ Len(add) \in Nat
        /\ DOMAIN quarantine = 1..Len(quarantine) /\ DOMAIN add = 1..Len(add)
    BY <1>4, LenProperties DEF TypeOK, DiskType
  <2>2. /\ both \in Seq(Key) /\ Len(both) = Len(quarantine) + Len(add)
        /\ \A i \in 1..Len(quarantine) + Len(add) :
             both[i] = IF i <= Len(quarantine) THEN quarantine[i] ELSE add[i - Len(quarantine)]
    BY <2>1, <1>4, ConcatProperties
  <2>3. DOMAIN both = 1..Len(quarantine) + Len(add)
    BY <2>2, LenProperties
  <2>4. ASSUME NEW k \in DOMAIN both
        PROVE  both[k] \in Quarantined \cup KeysAt(positions)
    <3>1. CASE k <= Len(quarantine)
      <4>1. k \in DOMAIN quarantine /\ both[k] = quarantine[k]
        BY <3>1, <2>1, <2>2, <2>3
      <4> QED BY <4>1 DEF Quarantined
    <3>2. CASE ~(k <= Len(quarantine))
      <4>1. k - Len(quarantine) \in DOMAIN add /\ both[k] = add[k - Len(quarantine)]
        BY <3>2, <2>1, <2>2, <2>3
      <4> QED BY <4>1, <1>5
    <3> QED BY <3>1, <3>2
  <2> QED BY <2>2, <2>4
<1> HIDE DEF both
<1>8. /\ quarantine' \in Seq(Key) /\ Len(quarantine') <= QuarantineCap
      /\ \A k \in DOMAIN quarantine' : \E j \in DOMAIN both : quarantine'[k] = both[j]
  <2>1. QuarantineCap \in Nat \ {0} /\ quarantine' = LastOf(QuarantineCap, both)
    BY <1>6, DeliveryAssumption DEF both
  <2> QED BY <2>1, <1>7, LastOfType
<1> QED BY <1>7, <1>8 DEF Quarantined

-----------------------------------------------------------------------------
(* Typing.                                                                 *)

(* What the assumption on the constants gives about each number.           *)
LEMMA ConstantTypes ==
  /\ Len(Sources) \in Nat /\ RunChunks \in Nat \ {0} /\ MaxRounds \in Nat \ {0}
  /\ ErrorAfter \in Nat \ {0} /\ QuarantineCap \in Nat \ {0} /\ ChunkLines \in Nat \ {0}
  /\ MaxFaults \in Nat
BY DeliveryAssumption, LenProperties

(* An empty transfer, as after a failure or a crash, is well typed.        *)
LEMMA ClearTransferType ==
  ASSUME ClearTransfer
  PROVE  TransferType'
BY ConstantTypes DEF ClearTransfer, TransferType, NoChunk, NoCursor, NoRequest, Cursor

(* The initial state is well typed.                                        *)
LEMMA InitType == Init => TypeOK
<1> SUFFICES ASSUME Init PROVE TypeOK
  OBVIOUS
<1>1. FileType
  BY DEF Init, FileType
<1>2. DiskType
  BY ConstantTypes DEF Init, DiskType, NoCursor, Cursor
<1>3. ServerType
  BY ConstantTypes DEF Init, ServerType
<1>4. RunType
  BY ConstantTypes DEF Init, RunType, NoRun
<1>5. TransferType
  BY ConstantTypes DEF Init, TransferType, NoChunk, NoCursor, NoRequest, Cursor
<1> QED BY <1>1, <1>2, <1>3, <1>4, <1>5 DEF TypeOK

(* The next request and what is left of the chunk make up what was left,   *)
(* and there is a request to post exactly when something was left.         *)
LEMMA NextBatchType ==
  ASSUME NEW left, NextBatch(left)
  PROVE  /\ batch' \cup todo' = left /\ rounds' \in 0..MaxRounds
         /\ pc' = IF left = {} THEN "commit" ELSE "post"
<1>1. Least(BatchSize, left) \subseteq left
  BY LeastSubset
<1> QED BY <1>1, ConstantTypes DEF NextBatch

(* The offsets a read starts and stops at are in order. *)
LEMMA OffsetsType ==
  ASSUME TypeOK, pc = "read"
  PROVE  /\ Src \in Source /\ Len(file[Src].lines) \in Nat
         /\ StartOffset(Src) \in Nat /\ ReadTo(Src) \in Nat
         /\ StartOffset(Src) <= ReadTo(Src) /\ ReadTo(Src) <= Len(file[Src].lines)
<1>1. Src \in Source
  BY SrcIsSource DEF TypeOK
<1>2. file[Src].lines \in Seq(Line) /\ durable[Src].off \in Nat
  BY <1>1 DEF TypeOK, FileType, DiskType, Cursor
<1>3. Len(file[Src].lines) \in Nat
  BY <1>2, LenProperties
<1>4. StartOffset(Src) \in Nat /\ StartOffset(Src) <= Len(file[Src].lines)
  BY <1>2, <1>3 DEF StartOffset
<1> QED BY <1>1, <1>3, <1>4, ConstantTypes DEF ReadTo

(* A chunk as read from the file is well typed, and so is its cursor.      *)
LEMMA ChunkAtType ==
  ASSUME TypeOK, pc = "read"
  PROVE  /\ ChunkAt(Src).cur \in Cursor /\ ChunkAt(Src).from \in Nat
         /\ ChunkAt(Src).more \in BOOLEAN
         /\ ChunkAt(Src).line \in [(ChunkAt(Src).from + 1)..ChunkAt(Src).cur.off -> Line]
<1>1. /\ Src \in Source /\ file[Src].lines \in Seq(Line) /\ file[Src].gen \in Nat
      /\ ident \in Nat
  BY OffsetsType DEF TypeOK, FileType, RunType
<1>2. \A i \in 1..Len(file[Src].lines) : file[Src].lines[i] \in Line
  BY <1>1, ElementOfSeq
<1>3. \A i \in (StartOffset(Src) + 1)..ReadTo(Src) : file[Src].lines[i] \in Line
  BY <1>2, OffsetsType
<1> QED BY <1>1, <1>3, OffsetsType DEF ChunkAt, Cursor

(* What the owner of the files does keeps the types.                       *)
LEMMA EnvironmentType ==
  ASSUME TypeOK, Environment
  PROVE  TypeOK'
<1> PICK s \in Source : AppendLine(s) \/ Remove(s) \/ Recreate(s) \/ Truncate(s)
  BY DEF Environment
<1> USE DEF TypeOK, FileType
<1> DEFINE FileRecord == [present : BOOLEAN, id : Nat, gen : Nat, lines : Seq(Line)]
<1>1. /\ file[s] \in FileRecord /\ file[s].lines \in Seq(Line) /\ <<>> \in Seq(Line)
      /\ file[s].id + 1 \in Nat /\ file[s].gen + 1 \in Nat
  BY EmptySeq
<1>2. FileType'
  <2>1. CASE AppendLine(s)
    <3>1. PICK l \in Line : file' = [file EXCEPT ![s].lines = Append(@, l)]
      BY <2>1 DEF AppendLine
    <3>2. Append(file[s].lines, l) \in Seq(Line)
      BY <1>1, AppendProperties
    <3> QED BY <3>1, <3>2
  <2>2. CASE Remove(s)
    BY <1>1, <2>2 DEF Remove
  <2>3. CASE Recreate(s)
    BY <1>1, <2>3 DEF Recreate
  <2>4. CASE Truncate(s)
    BY <1>1, <2>4 DEF Truncate
  <2> QED BY <2>1, <2>2, <2>3, <2>4
<1>3. UNCHANGED <<diskVars, serverVars, runVars, refused, faults>>
  BY DEF AppendLine, Remove, Recreate, Truncate
<1> QED BY <1>2, <1>3 DEF diskVars, serverVars, runVars, DiskType, ServerType, RunType,
           TransferType, Src

(* A run that gives up keeps to the type. *)
LEMMA AbandonType ==
  ASSUME TypeOK, NEW c \in Category, Abandon(c)
  PROVE  FileType' /\ DiskType' /\ RunType' /\ TransferType' /\ UNCHANGED refused
<1>1. TransferType'
  BY ClearTransferType DEF Abandon
<1>2. run' \in [failure : Category \cup {"none"}, missing : BOOLEAN, quarantined : BOOLEAN]
  BY DEF Abandon, TypeOK, RunType
<1>3. RunType'
  BY <1>2 DEF Abandon, TypeOK, RunType
<1> QED BY <1>1, <1>3 DEF Abandon, TypeOK, FileType, DiskType, diskVars

(* Every step of a run keeps the types.                                    *)
LEMMA RunStepType ==
  ASSUME TypeOK, RunStep
  PROVE  TypeOK'
<1> USE DEF diskVars, serverVars, runVars, Transfer
<1>a. FileType /\ DiskType /\ ServerType /\ RunType /\ TransferType
  BY DEF TypeOK
<1> DEFINE RunRecord == [failure : Category \cup {"none"}, missing : BOOLEAN, quarantined : BOOLEAN]
<1>b. run \in RunRecord /\ [run EXCEPT !.missing = TRUE] \in RunRecord
  BY <1>a DEF RunType
<1>1. CASE StartRun
  <2>1. PICK n \in 0..Len(quarantine) : quarantine' = SubSeq(quarantine, n + 1, Len(quarantine))
    BY <1>1 DEF StartRun
  <2>2. quarantine \in Seq(Key) /\ Len(quarantine) \in Nat
    BY <1>a, LenProperties DEF DiskType
  <2>3. \A i \in (n + 1)..Len(quarantine) : quarantine[i] \in Key
    BY <2>2, ElementOfSeq
  <2>4. /\ quarantine' \in Seq(Key)
        /\ Len(quarantine') = IF n + 1 <= Len(quarantine) THEN Len(quarantine) - (n + 1) + 1 ELSE 0
    BY <2>1, <2>2, <2>3, SubSeqProperties
  <2>5. Len(quarantine') <= QuarantineCap
    BY <2>2, <2>4, <1>a, ConstantTypes DEF DiskType
  <2>6. DiskType'
    BY <1>1, <2>4, <2>5, <1>a DEF StartRun, DiskType
  <2>7. RunType'
    BY <1>1, <1>a, ConstantTypes DEF StartRun, RunType, NoRun
  <2> QED BY <1>1, <1>a, <2>6, <2>7 DEF StartRun, TypeOK, FileType, ServerType, TransferType
<1>2. CASE LeaveSource
  BY <1>2, <1>a, ConstantTypes
     DEF LeaveSource, NextSource, TypeOK, FileType, DiskType, ServerType, RunType, TransferType
<1>3. CASE Identify
  <2>1. Src \in Source /\ file[Src].id \in Nat
    <3>1. at \in 1..Len(Sources)
      BY <1>3, <1>a, ConstantTypes DEF Identify, RunType
    <3>2. Src \in Source
      BY <3>1 DEF Src, Source
    <3> QED BY <3>2, <1>a DEF FileType
  <2>2. RunType'
    <3>1. run' \in RunRecord
      BY <1>3, <1>b DEF Identify
    <3>2. CASE file[Src].present
      BY <1>3, <2>1, <3>1, <3>2, <1>a, ConstantTypes DEF Identify, RunType
    <3>3. CASE ~file[Src].present
      BY <1>3, <2>1, <3>1, <3>3, <1>a, ConstantTypes DEF Identify, NextSource, RunType
    <3> QED BY <3>2, <3>3
  <2> QED BY <1>3, <1>a, <2>2 DEF Identify, TypeOK, FileType, DiskType, ServerType, TransferType
<1>4. CASE ReadChunk
  <2>1. Src \in Source /\ pc = "read"
    BY <1>4, OffsetsType DEF ReadChunk
  <2>2. DiskType'
    <3>1. [durable EXCEPT ![Src] = IF @.id = ident /\ @.off = ReadTo(Src) THEN @
                                   ELSE ChunkAt(Src).cur] \in [Source -> Cursor]
      BY <2>1, <1>a, ChunkAtType DEF DiskType
    <3> QED BY <3>1, <1>4, <1>a DEF ReadChunk, DiskType
  <2>3. CASE ~file[Src].present \/ StartOffset(Src) = ReadTo(Src)
    <3>1. /\ run' \in RunRecord /\ NextSource
          /\ UNCHANGED <<budget, ident, Transfer>>
      <4>1. ~(file[Src].present /\ StartOffset(Src) < ReadTo(Src))
        BY <2>1, <2>3, OffsetsType
      <4>2. /\ run' = run \/ run' = [run EXCEPT !.missing = TRUE]
            /\ NextSource /\ UNCHANGED <<budget, ident, Transfer>>
        BY <1>4, <4>1 DEF ReadChunk
      <4> QED BY <1>b, <4>2
    <3>2. RunType'
      BY <1>a, <2>1, <3>1, ConstantTypes DEF NextSource, RunType
    <3>3. TransferType'
      BY <1>a, <2>1, <3>1 DEF NextSource, TransferType
    <3> QED BY <3>2, <3>3, <2>2, <1>4, <1>a DEF ReadChunk, TypeOK, FileType, ServerType
  <2>4. CASE file[Src].present /\ StartOffset(Src) < ReadTo(Src)
    <3>1. /\ chunk' = ChunkAt(Src) /\ UNCHANGED <<at, request, run, budget, ident>>
          /\ NextBatch(Deliverable(Src, ChunkAt(Src).line))
      BY <1>4, <2>4, OffsetsType DEF ReadChunk
    <3>2. /\ batch' \cup todo' = Deliverable(Src, ChunkAt(Src).line) /\ rounds' \in 0..MaxRounds
          /\ pc' \in {"commit", "post"}
      BY <3>1, NextBatchType
    <3>3. RunType'
      BY <3>1, <3>2, <2>1, <1>a DEF RunType
    <3>4. batch' \cup todo' \subseteq {i \in DOMAIN chunk'.line : chunk'.line[i] # Silent}
      BY <3>1, <3>2 DEF Deliverable
    <3>5. request = NoRequest
      BY <2>1, <1>a DEF TransferType
    <3>6. /\ chunk'.cur \in Cursor /\ chunk'.from \in Nat /\ chunk'.more \in BOOLEAN
          /\ chunk'.line \in [(chunk'.from + 1)..chunk'.cur.off -> Line]
      BY <2>1, <3>1, ChunkAtType
    <3>7. TransferType'
      BY <3>1, <3>2, <3>4, <3>5, <3>6 DEF TransferType, NoRequest
    <3> QED BY <3>3, <3>7, <2>2, <1>4, <1>a DEF ReadChunk, TypeOK, FileType, ServerType
  <2> QED BY <2>3, <2>4, <1>4 DEF ReadChunk
<1>5. CASE Post
  <2>1. rounds' \in 0..MaxRounds
    BY <1>5, <1>a, ConstantTypes DEF Post, TransferType
  <2> QED BY <1>5, <2>1, <1>a
          DEF Post, TypeOK, FileType, DiskType, ServerType, RunType, TransferType
<1>6. CASE Delivered
  <2>1. /\ batch' \cup todo' = todo /\ rounds' \in 0..MaxRounds
        /\ pc' \in {"commit", "post"}
    BY <1>6, NextBatchType DEF Delivered
  <2>2. RunType'
    BY <1>6, <2>1, <1>a DEF Delivered, RunType
  <2>3. TransferType'
    BY <1>6, <2>1, <1>a DEF Delivered, TransferType, NoRequest
  <2> QED BY <1>6, <2>2, <2>3, <1>a DEF Delivered, TypeOK, FileType, DiskType, ServerType
<1>7. CASE Refuse
  <2>1. /\ pc = "wait" /\ request.positions \in SUBSET batch
        /\ request.positions \in SUBSET (batch \cup todo)
    BY <1>7, <1>a DEF Refuse, TransferType
  <2>2. quarantine' \in Seq(Key) /\ Len(quarantine') <= QuarantineCap
    BY <1>7, <2>1, QuarantineType DEF Refuse
  <2>3. KeysAt(request.positions) \in SUBSET Key
    BY <2>1, <1>a, BatchKeys
  <2>4. /\ batch' \cup todo' \subseteq batch \cup todo /\ rounds' \in 0..MaxRounds
        /\ pc' \in {"commit", "post"}
    <3>1. CASE batch \ request.positions # {}
      BY <1>7, <3>1, <1>a DEF Refuse, TransferType
    <3>2. CASE batch \ request.positions = {}
      BY <1>7, <3>2, NextBatchType DEF Refuse
    <3> QED BY <3>1, <3>2
  <2>5. run' \in RunRecord
    BY <1>7, <1>a DEF Refuse, RunType
  <2>6. DiskType'
    BY <1>7, <2>2, <1>a DEF Refuse, DiskType
  <2>7. RunType'
    BY <1>7, <2>1, <2>4, <2>5, <1>a DEF Refuse, RunType
  <2>8. TransferType'
    BY <1>7, <2>4, <1>a DEF Refuse, TransferType, NoRequest
  <2>9. ServerType'
    BY <1>7, <2>3, <1>a DEF Refuse, ServerType
  <2> QED BY <1>7, <2>6, <2>7, <2>8, <2>9, <1>a DEF Refuse, TypeOK, FileType
<1>8. ASSUME NEW c \in Category, Abandon(c), UNCHANGED <<serverVars, faults>>
      PROVE  TypeOK'
  BY <1>8, AbandonType DEF TypeOK, ServerType
<1>9. CASE CommitCache
  <2>1. Src \in Source /\ chunk.cur.gen \in Nat /\ DOMAIN chunk.line \subseteq Nat
    BY <1>9, <1>a, SrcIsSource DEF CommitCache, TransferType, Cursor
  <2>2. DiskType'
    BY <1>9, <2>1, <1>a DEF CommitCache, DiskType
  <2> QED BY <1>9, <2>2, <1>a
          DEF CommitCache, TypeOK, FileType, ServerType, RunType, TransferType
<1>10. CASE SaveCursor
  <2>1. Src \in Source /\ chunk.cur \in Cursor
    BY <1>10, <1>a, SrcIsSource DEF SaveCursor, TransferType
  <2>2. DiskType'
    BY <1>10, <2>1, <1>a DEF SaveCursor, DiskType
  <2>3. RunType'
    BY <1>10, <1>a, ConstantTypes DEF SaveCursor, RunType
  <2>4. TransferType'
    BY <1>10, ClearTransferType DEF SaveCursor
  <2> QED BY <1>10, <2>2, <2>3, <2>4, <1>a DEF SaveCursor, TypeOK, FileType, ServerType
<1>11. CASE Finish
  <2>1. RunType'
    BY <1>11, ConstantTypes DEF Finish, RunType, NoRun
  <2>2. Failures \in 0..ErrorAfter
    BY <1>a, ConstantTypes DEF Failures, DiskType
  <2>3. Health \in {"healthy", "degraded", "error"}
    BY DEF Health
  <2>4. DiskType'
    BY <1>11, <2>2, <2>3, <1>a DEF Finish, DiskType
  <2>5. ServerType'
    BY <1>11, <1>a, ConstantTypes DEF Finish, ServerType
  <2> QED BY <1>11, <2>1, <2>4, <2>5, <1>a DEF Finish, TypeOK, FileType, TransferType
<1> QED BY <1>1, <1>2, <1>3, <1>4, <1>5, <1>6, <1>7, <1>8, <1>9, <1>10, <1>11
        DEF RunStep, TooManyRounds, FailedReply, Category

(* A transaction of the server stores event keys and nothing else.         *)
LEMMA StoreType ==
  ASSUME ServerType, NEW keys \in SUBSET Key, Store(keys)
  PROVE  stored' \subseteq Key /\ onboarding' \in {"pending", "ready"}
BY DEF Store, ServerType

(* The server's steps keep the types.                                      *)
LEMMA ServerStepType ==
  ASSUME TypeOK, ServerHandle \/ ServerHandleStale
  PROVE  TypeOK'
<1>a. FileType /\ DiskType /\ ServerType /\ RunType /\ TransferType
  BY DEF TypeOK
<1>1. CASE ServerHandle
  <2>1. /\ Malformed \subseteq batch /\ Least(MaxReported, Conflicts) \subseteq batch
    BY LeastSubset DEF Malformed, Taken, Conflicts
  <2>2. /\ request'.answer \in {"ok", "conflict", "invalid"} /\ request'.positions \subseteq batch
        /\ UNCHANGED <<pc, chunk, batch, todo, rounds>> /\ pc = "wait"
    BY <1>1, <2>1 DEF ServerHandle, Answer
  <2>3. KeysAt(batch) \in SUBSET Key
    BY <1>a, <2>2, BatchKeys
  <2>4. stored' \subseteq Key /\ onboarding' \in {"pending", "ready"}
    BY <1>1, <1>a, <2>3, StoreType DEF ServerHandle, ServerType
  <2> QED BY <1>1, <1>a, <2>2, <2>4 DEF ServerHandle, diskVars, TypeOK, FileType, DiskType,
                                    ServerType, RunType, TransferType
<1>2. CASE ServerHandleStale
  <2>1. stored' \subseteq Key /\ onboarding' \in {"pending", "ready"} /\ stale' \subseteq stale
    BY <1>2, <1>a, StoreType DEF ServerHandleStale, ServerType
  <2> QED BY <1>2, <1>a, <2>1 DEF ServerHandleStale, diskVars, runVars, TypeOK, FileType,
                                  DiskType, ServerType, RunType, TransferType
<1> QED BY <1>1, <1>2

(* A fault keeps the types.                                                *)
LEMMA FaultsType ==
  ASSUME TypeOK, Faults
  PROVE  TypeOK'
<1>a. FileType /\ DiskType /\ ServerType /\ RunType /\ TransferType
  BY DEF TypeOK
<1>b. faults' \in 0..MaxFaults
  BY <1>a, ConstantTypes DEF Faults, ServerFails, LoseReply, Abort, Crash, Fault, ServerType
<1>c. InFlight \subseteq SUBSET Key
  BY <1>a, BatchKeys DEF InFlight
<1>1. CASE ServerFails
  <2>1. TransferType'
    BY <1>1, <1>a DEF ServerFails, Answer, TransferType
  <2> QED BY <1>1, <1>a, <1>b, <2>1 DEF ServerFails, diskVars, serverVars, TypeOK, FileType,
                                    DiskType, ServerType, RunType
<1>2. CASE LoseReply
  <2>1. FileType' /\ DiskType' /\ RunType' /\ TransferType' /\ UNCHANGED refused
    BY <1>2, AbandonType DEF LoseReply, Category
  <2>2. ServerType'
    BY <1>2, <1>a, <1>b, <1>c, <2>1 DEF LoseReply, ServerType
  <2> QED BY <2>1, <2>2 DEF TypeOK
<1>3. CASE Abort
  <2>1. FileType' /\ DiskType' /\ RunType' /\ TransferType' /\ UNCHANGED refused
    BY <1>3, AbandonType DEF Abort, Category
  <2>2. ServerType'
    BY <1>3, <1>a, <1>b, <2>1 DEF Abort, serverVars, ServerType
  <2> QED BY <2>1, <2>2 DEF TypeOK
<1>4. CASE Crash
  <2>1. TransferType'
    BY <1>4, ClearTransferType DEF Crash
  <2>2. RunType'
    BY <1>4, ConstantTypes DEF Crash, RunType, NoRun
  <2>3. ServerType'
    BY <1>4, <1>a, <1>b, <1>c DEF Crash, ServerType
  <2> QED BY <1>4, <1>a, <2>1, <2>2, <2>3 DEF Crash, diskVars, TypeOK, FileType, DiskType
<1> QED BY <1>1, <1>2, <1>3, <1>4 DEF Faults

(* TypeOK is inductive.                                                    *)
LEMMA NextType == TypeOK /\ [Next]_vars => TypeOK'
<1> SUFFICES ASSUME TypeOK, [Next]_vars PROVE TypeOK'
  OBVIOUS
<1>1. CASE UNCHANGED vars
  BY <1>1 DEF vars, diskVars, serverVars, runVars, TypeOK, FileType, DiskType, ServerType,
              RunType, TransferType
<1> QED BY <1>1, EnvironmentType, RunStepType, ServerStepType, FaultsType DEF Next

(* Every reachable state is well typed: in particular the quarantine keeps *)
(* to its cap, a run to its chunk budget and its rounds, and what is sent  *)
(* is lines of the chunk being delivered.                                  *)
THEOREM TypeCorrect == Spec => []TypeOK
<1> QED BY InitType, NextType, PTL DEF Spec

-----------------------------------------------------------------------------
(* The inductive invariant.                                                *)

IInv == DeliveryInv /\ CommittedIsSettled /\ CacheCoversCursor

(* What the owner of a file may do to a cursor held for it: make it dead,  *)
(* or leave it alive and every line it has passed in its place.            *)
LEMMA CursorUnderEnvironment ==
  ASSUME TypeOK, NEW s \in Source, NEW c \in Cursor,
         AppendLine(s) \/ Remove(s) \/ Recreate(s) \/ Truncate(s),
         AppendLine(s) => CutIsVisible(c, s, Len(file[s].lines) + 1),
         c.id <= file[s].id, c.gen <= file[s].gen,
         CutIsVisible(c, s, Len(file[s].lines)),
         ~file[s].present => file[s].lines = <<>>
  PROVE  /\ c.id <= file'[s].id /\ c.gen <= file'[s].gen /\ file[s].id <= file'[s].id
         /\ c.id = file'[s].id /\ c.gen # file'[s].gen => Len(file'[s].lines) < c.off \/ c.off = 0
         /\ ~file'[s].present => file'[s].lines = <<>>
         /\ c.id = file'[s].id /\ c.gen = file'[s].gen => Live(c, s)
         /\ c.id = file'[s].id /\ c.gen = file'[s].gen /\ file'[s].present =>
              /\ file[s].present /\ Len(file[s].lines) <= Len(file'[s].lines)
              /\ \A i \in 1..Len(file[s].lines) : file'[s].lines[i] = file[s].lines[i]
<1>1. /\ file[s].id \in Nat /\ file[s].gen \in Nat /\ file[s].lines \in Seq(Line)
      /\ Len(file[s].lines) \in Nat /\ c.id \in Nat /\ c.gen \in Nat /\ c.off \in Nat
  BY LenProperties DEF TypeOK, FileType, Cursor
<1>2. Len(<<>>) = 0
  BY EmptySeq
<1>3. CASE AppendLine(s)
  <2>1. PICK l \in Line : file' = [file EXCEPT ![s].lines = Append(@, l)]
    BY <1>3 DEF AppendLine
  <2>2. /\ file'[s].lines = Append(file[s].lines, l) /\ file'[s].id = file[s].id
        /\ file'[s].gen = file[s].gen /\ file'[s].present = file[s].present /\ file[s].present
    BY <1>3, <2>1 DEF AppendLine, TypeOK, FileType
  <2>3. /\ Len(file'[s].lines) = Len(file[s].lines) + 1
        /\ \A i \in 1..Len(file[s].lines) : file'[s].lines[i] = file[s].lines[i]
    BY <1>1, <2>2, AppendProperties
  <2> QED BY <1>1, <1>3, <2>2, <2>3 DEF Live, CutIsVisible
<1>4. CASE Remove(s)
  <2>1. /\ file'[s].lines = <<>> /\ file'[s].id = file[s].id
        /\ file'[s].gen = file[s].gen /\ file'[s].present = FALSE
    BY <1>4 DEF Remove, TypeOK, FileType
  <2> QED BY <1>1, <1>2, <2>1 DEF Live
<1>5. CASE Recreate(s)
  <2>1. /\ file'[s].lines = <<>> /\ file'[s].id = file[s].id + 1
        /\ file'[s].gen = file[s].gen + 1 /\ file'[s].present = TRUE
    BY <1>5 DEF Recreate, TypeOK, FileType
  <2> QED BY <1>1, <1>2, <2>1 DEF Live
<1>6. CASE Truncate(s)
  <2>1. /\ file'[s].lines = <<>> /\ file'[s].id = file[s].id
        /\ file'[s].gen = file[s].gen + 1 /\ file'[s].present = file[s].present
    BY <1>6 DEF Truncate, TypeOK, FileType
  <2> QED BY <1>1, <1>2, <2>1 DEF Live
<1> QED BY <1>3, <1>4, <1>5, <1>6

(* The invariant survives the files growing, being replaced and being cut  *)
(* under a run: the cursors and the chunk in flight stay alive with their  *)
(* lines in place, or become dead.                                         *)
LEMMA EnvironmentInv ==
  ASSUME TypeOK, IInv, Environment
  PROVE  IInv'
<1> PICK s \in Source : AppendLine(s) \/ Remove(s) \/ Recreate(s) \/ Truncate(s)
  BY DEF Environment
<1>a. /\ UNCHANGED <<durable, cached, quarantine, stored, refused, pc, at, ident, chunk, todo,
                     batch, request>>
      /\ \A t \in Source : t # s => file'[t] = file[t]
  BY DEF AppendLine, Remove, Recreate, Truncate, diskVars, serverVars, runVars, TypeOK, FileType
<1>b. FilesInv /\ ReadInv /\ ChunkInv /\ AnswerInv /\ Quarantined \subseteq refused
  BY DEF IInv, DeliveryInv
<1>c. /\ durable[s] \in Cursor /\ durable[s].off \in Nat
      /\ Len(file[s].lines) \in Nat /\ Len(file'[s].lines) \in Nat
      /\ DOMAIN file'[s].lines = 1..Len(file'[s].lines)
      /\ DOMAIN file[s].lines = 1..Len(file[s].lines)
      /\ file[s].id \in Nat /\ file'[s].id \in Nat
  BY EnvironmentType, LenProperties DEF TypeOK, FileType, DiskType, Cursor
<1>1. /\ durable[s].id <= file'[s].id /\ durable[s].gen <= file'[s].gen
      /\ file[s].id <= file'[s].id
      /\ durable[s].id = file'[s].id /\ durable[s].gen # file'[s].gen
           => Len(file'[s].lines) < durable[s].off \/ durable[s].off = 0
      /\ ~file'[s].present => file'[s].lines = <<>>
      /\ durable[s].id = file'[s].id /\ durable[s].gen = file'[s].gen => Live(durable[s], s)
      /\ durable[s].id = file'[s].id /\ durable[s].gen = file'[s].gen /\ file'[s].present =>
           /\ file[s].present /\ Len(file[s].lines) <= Len(file'[s].lines)
           /\ \A i \in 1..Len(file[s].lines) : file'[s].lines[i] = file[s].lines[i]
  <2>1. AppendLine(s) => CutIsVisible(durable[s], s, Len(file[s].lines) + 1)
    BY DEF AppendLine
  <2> QED BY <1>b, <1>c, <2>1, CursorUnderEnvironment DEF FilesInv
<1>2. FilesInv'
  <2>1. ASSUME NEW t \in Source
        PROVE  (/\ ~file[t].present => file[t].lines = <<>>
                /\ durable[t].id <= file[t].id /\ durable[t].gen <= file[t].gen
                /\ CutIsVisible(durable[t], t, Len(file[t].lines))
                /\ Live(durable[t], t) /\ file[t].present => durable[t].off <= Len(file[t].lines))'
    <3>1. CASE t = s
      BY <1>a, <1>b, <1>c, <1>1, <3>1 DEF FilesInv, CutIsVisible, Live
    <3>2. CASE t # s
      BY <1>a, <1>b, <3>2 DEF FilesInv, CutIsVisible, Live
    <3> QED BY <3>1, <3>2
  <2> QED BY <2>1 DEF FilesInv
<1>3. ReadInv'
  <2> SUFFICES ASSUME pc = "read" \/ InFlow
               PROVE  durable[Src].id <= ident /\ ident <= file'[Src].id
    BY <1>a DEF ReadInv, InFlow, Src
  <2>1. Src \in Source
    BY SrcIsSource DEF TypeOK, InFlow
  <2>2. ident \in Nat /\ file[Src].id \in Nat /\ file'[Src].id \in Nat
    BY <2>1, EnvironmentType DEF TypeOK, RunType, FileType
  <2> QED BY <1>a, <1>b, <1>1, <2>1, <2>2 DEF ReadInv
<1>4. ChunkInv'
  <2> SUFFICES ASSUME InFlow
               PROVE  ChunkInv'
    BY <1>a DEF ChunkInv, InFlow
  <2>1. Src \in Source /\ Src' = Src
    BY <1>a, SrcIsSource DEF TypeOK, InFlow, Src
  <2>2. CASE Src # s
    BY <1>a, <1>b, <2>1, <2>2 DEF ChunkInv, InFlow, CutIsVisible, Live, Settled
  <2>3. CASE Src = s
    <3>1. /\ chunk.cur \in Cursor /\ chunk.cur.off \in Nat /\ chunk.from \in Nat
          /\ DOMAIN chunk.line = (chunk.from + 1)..chunk.cur.off
      BY DEF TypeOK, TransferType, Cursor
    <3>2. AppendLine(s) => CutIsVisible(chunk.cur, s, Len(file[s].lines) + 1)
      <4>1. chunk # NoChunk
        BY <1>b, <3>1 DEF ChunkInv, NoChunk, NoCursor
      <4> QED BY <2>3, <4>1 DEF AppendLine
    <3>3. /\ chunk.cur.id <= file[s].id /\ chunk.cur.gen <= file[s].gen
          /\ CutIsVisible(chunk.cur, s, Len(file[s].lines))
          /\ ~file[s].present => file[s].lines = <<>>
      BY <1>b, <2>3 DEF ChunkInv, ReadInv, FilesInv
    <3>4. /\ chunk.cur.gen <= file'[s].gen
          /\ chunk.cur.id = file'[s].id /\ chunk.cur.gen # file'[s].gen
               => Len(file'[s].lines) < chunk.cur.off \/ chunk.cur.off = 0
          /\ chunk.cur.id = file'[s].id /\ chunk.cur.gen = file'[s].gen => Live(chunk.cur, s)
          /\ chunk.cur.id = file'[s].id /\ chunk.cur.gen = file'[s].gen /\ file'[s].present =>
               /\ file[s].present /\ Len(file[s].lines) <= Len(file'[s].lines)
               /\ \A i \in 1..Len(file[s].lines) : file'[s].lines[i] = file[s].lines[i]
      BY <3>1, <3>2, <3>3, CursorUnderEnvironment
    <3>5. ASSUME chunk.cur.id = file'[s].id, chunk.cur.gen = file'[s].gen, file'[s].present
          PROVE  /\ chunk.cur.off <= Len(file'[s].lines)
                 /\ \A i \in DOMAIN chunk.line : file'[s].lines[i] = chunk.line[i]
      <4>1. /\ chunk.cur.off <= Len(file[s].lines)
            /\ \A i \in DOMAIN chunk.line : file[s].lines[i] = chunk.line[i]
        BY <1>b, <2>3, <3>4, <3>5 DEF ChunkInv
      <4>2. \A i \in DOMAIN chunk.line : i \in 1..Len(file[s].lines)
        BY <1>c, <3>1, <4>1
      <4> QED BY <1>c, <3>1, <3>4, <3>5, <4>1, <4>2
    <3>6. ASSUME chunk.from # 0
          PROVE  /\ durable[s].off = chunk.from
                 /\ chunk.cur.id = file'[s].id /\ chunk.cur.gen = file'[s].gen
                      => durable[s].id = file'[s].id /\ durable[s].gen = file'[s].gen
      <4>1. durable[s].off = chunk.from /\ (Live(chunk.cur, s) => Live(durable[s], s))
        BY <1>b, <2>3, <3>6 DEF ChunkInv
      <4> QED BY <3>4, <4>1 DEF Live
    <3> QED BY <1>a, <1>b, <2>1, <2>3, <3>4, <3>5, <3>6
            DEF ChunkInv, InFlow, CutIsVisible, Live, Settled
  <2> QED BY <2>2, <2>3
<1>5. AnswerInv' /\ (Quarantined \subseteq refused)'
  BY <1>a, <1>b DEF AnswerInv, KeysAt, Src, Quarantined
<1>6. CommittedIsSettled'
  <2>1. ASSUME NEW t \in Source, durable[t].id = file'[t].id, durable[t].gen = file'[t].gen,
               NEW i \in 1..durable[t].off \cap DOMAIN file'[t].lines
        PROVE  file'[t].lines[i] = Silent \/ <<t, file'[t].lines[i]>> \in Settled
    <3>1. CASE t = s
      <4>1. Live(durable[s], s)
        BY <1>1, <2>1, <3>1
      <4>2. file'[s].present
        <5>1. DOMAIN <<>> = {}
          OBVIOUS
        <5> QED BY <1>1, <2>1, <3>1, <5>1
      <4>3. durable[s].off <= Len(file[s].lines) /\ file'[s].lines[i] = file[s].lines[i]
            /\ i \in 1..durable[s].off \cap DOMAIN file[s].lines
        BY <1>b, <1>c, <1>1, <2>1, <3>1, <4>1, <4>2 DEF FilesInv
      <4> QED BY <3>1, <4>1, <4>3 DEF IInv, CommittedIsSettled
    <3>2. CASE t # s
      BY <1>a, <2>1, <3>2 DEF IInv, CommittedIsSettled, Live
    <3> QED BY <3>1, <3>2
  <2> QED BY <1>a, <2>1 DEF CommittedIsSettled, Live, Settled
<1>7. CacheCoversCursor'
  <2>1. ASSUME NEW t \in Source, durable[t].id = file'[t].id, durable[t].gen = file'[t].gen
        PROVE  Live(durable[t], t)
    BY <1>a, <1>1, <2>1 DEF Live
  <2> QED BY <1>a, <2>1 DEF IInv, CacheCoversCursor, Live
<1> QED BY <1>2, <1>3, <1>4, <1>5, <1>6, <1>7 DEF IInv, DeliveryInv

(* Steps that touch no file and no cursor, and forget nothing settled. *)
LEMMA QuietInv ==
  ASSUME IInv, UNCHANGED <<file, durable>>, Settled \subseteq Settled', cached \subseteq cached'
  PROVE  FilesInv' /\ CommittedIsSettled' /\ CacheCoversCursor'
<1>1. FilesInv'
  BY DEF IInv, DeliveryInv, FilesInv, CutIsVisible, Live
<1>2. CommittedIsSettled'
  BY DEF IInv, CommittedIsSettled, Live
<1>3. CacheCoversCursor'
  BY DEF IInv, CacheCoversCursor, Live
<1> QED BY <1>1, <1>2, <1>3

(* Steps after which no chunk is in flight. *)
LEMMA IdleInv ==
  ASSUME IInv, UNCHANGED <<file, durable, cached>>, Settled \subseteq Settled',
         pc' \notin {"read", "post", "wait", "commit", "save"},
         Quarantined' \subseteq refused'
  PROVE  IInv'
BY QuietInv DEF IInv, DeliveryInv, ReadInv, ChunkInv, AnswerInv, InFlow

(* Steps within the delivery of a chunk: what leaves batch and todo is     *)
(* settled, and an answer tells the truth.                                 *)
LEMMA DeliveringInv ==
  ASSUME TypeOK, IInv, InFlow, InFlow',
         UNCHANGED <<file, durable, ident, at, chunk>>,
         cached \subseteq cached', Settled \subseteq Settled',
         \A i \in (batch \cup todo) \ (batch' \cup todo') : <<Src, chunk.line[i]>> \in Settled',
         AnswerInv', Quarantined' \subseteq refused',
         pc' \in {"commit", "save"} => batch' = {} /\ todo' = {},
         pc' = "save" => \A i \in DOMAIN chunk.line : <<Src, chunk.cur.gen, i>> \in cached'
  PROVE  IInv'
<1>1. FilesInv' /\ CommittedIsSettled' /\ CacheCoversCursor'
  BY QuietInv
<1>2. Src' = Src /\ ReadInv /\ ChunkInv
  BY DEF Src, IInv, DeliveryInv
<1>3. ReadInv'
  BY <1>2 DEF ReadInv, InFlow
<1>4. \A i \in DOMAIN chunk.line :
        chunk.line[i] = Silent \/ <<Src, chunk.line[i]>> \in Settled' \/ i \in batch' \cup todo'
  BY <1>2 DEF ChunkInv
<1>5. ChunkInv'
  BY <1>2, <1>4 DEF ChunkInv, InFlow, CutIsVisible, Live
<1> QED BY <1>1, <1>3, <1>5 DEF IInv, DeliveryInv

(* The invariant when a chunk is read, the file having possibly been       *)
(* replaced since the run looked at its path.                              *)
LEMMA ReadChunkInv ==
  ASSUME TypeOK, IInv, ReadChunk
  PROVE  IInv'
<1>a. /\ Src \in Source /\ Len(file[Src].lines) \in Nat /\ pc = "read"
      /\ StartOffset(Src) \in Nat /\ ReadTo(Src) \in Nat
      /\ StartOffset(Src) <= ReadTo(Src) /\ ReadTo(Src) <= Len(file[Src].lines)
      /\ durable[Src].id \in Nat /\ durable[Src].gen \in Nat /\ durable[Src].off \in Nat
      /\ file[Src].gen \in Nat /\ file[Src].id \in Nat /\ ident \in Nat
  BY OffsetsType DEF ReadChunk, TypeOK, DiskType, FileType, RunType, Cursor
<1>b. FilesInv /\ ReadInv /\ Quarantined \subseteq refused
  BY DEF IInv, DeliveryInv
<1>c. /\ UNCHANGED <<file, cached, quarantine, stored, refused, ident>>
      /\ Settled' = Settled /\ Quarantined' \subseteq refused'
  BY <1>b DEF ReadChunk, serverVars, Settled, Quarantined
<1>d. durable[Src].id <= ident /\ ident <= file[Src].id
  BY <1>a, <1>b DEF ReadInv
<1>1. CASE ~file[Src].present
  <2>1. UNCHANGED durable /\ pc' = "source"
    BY <1>1, <1>a DEF ReadChunk, NextSource
  <2> QED BY <1>c, <2>1, IdleInv
<1>2. CASE file[Src].present /\ StartOffset(Src) = ReadTo(Src)
  <2>1. /\ pc' = "source"
        /\ durable' = [durable EXCEPT ![Src] =
             IF @.id = ident /\ @.off = ReadTo(Src) THEN @ ELSE ChunkAt(Src).cur]
    BY <1>2, <1>a DEF ReadChunk, NextSource
  <2>2. CASE durable[Src].id = ident /\ durable[Src].off = ReadTo(Src)
    <3>1. UNCHANGED durable
      BY <2>1, <2>2, <1>a DEF TypeOK, DiskType
    <3> QED BY <1>c, <2>1, <3>1, IdleInv
  <2>3. CASE ~(durable[Src].id = ident /\ durable[Src].off = ReadTo(Src))
    <3>1. StartOffset(Src) = 0 /\ ReadTo(Src) = 0
      BY <1>2, <2>3, <1>a DEF StartOffset
    <3>2. durable' = [durable EXCEPT ![Src] = [id |-> ident, gen |-> file[Src].gen, off |-> 0]]
      BY <2>1, <2>3, <3>1, <1>a DEF ChunkAt, TypeOK, DiskType
    <3>3. /\ durable'[Src] = [id |-> ident, gen |-> file[Src].gen, off |-> 0]
          /\ \A t \in Source : t # Src => durable'[t] = durable[t]
      BY <3>2, <1>a DEF TypeOK, DiskType
    <3>4. FilesInv'
      <4>1. ASSUME NEW t \in Source
            PROVE  (/\ ~file[t].present => file[t].lines = <<>>
                    /\ durable[t].id <= file[t].id /\ durable[t].gen <= file[t].gen
                    /\ CutIsVisible(durable[t], t, Len(file[t].lines))
                    /\ Live(durable[t], t) /\ file[t].present
                         => durable[t].off <= Len(file[t].lines))'
        <5>1. CASE t = Src
          BY <1>a, <1>b, <1>c, <1>d, <3>3, <5>1 DEF FilesInv, CutIsVisible, Live
        <5>2. CASE t # Src
          BY <1>b, <1>c, <3>3, <5>2 DEF FilesInv, CutIsVisible, Live
        <5> QED BY <5>1, <5>2
      <4> QED BY <4>1 DEF FilesInv
    <3>5. CommittedIsSettled'
      BY <1>c, <3>3 DEF IInv, CommittedIsSettled, Live
    <3>6. CacheCoversCursor'
      BY <1>c, <3>3 DEF IInv, CacheCoversCursor, Live
    <3> QED BY <1>c, <2>1, <3>4, <3>5, <3>6
            DEF IInv, DeliveryInv, ReadInv, ChunkInv, AnswerInv, InFlow
  <2> QED BY <2>2, <2>3
<1>3. CASE file[Src].present /\ StartOffset(Src) < ReadTo(Src)
  <2>1. /\ chunk' = ChunkAt(Src) /\ UNCHANGED <<durable, at, request>>
        /\ NextBatch(Deliverable(Src, ChunkAt(Src).line))
    BY <1>3, <1>a DEF ReadChunk
  <2>2. /\ batch' \cup todo' = Deliverable(Src, ChunkAt(Src).line)
        /\ pc' = IF Deliverable(Src, ChunkAt(Src).line) = {} THEN "commit" ELSE "post"
    BY <2>1, NextBatchType
  <2>3. FilesInv' /\ CommittedIsSettled' /\ CacheCoversCursor'
    BY <1>c, <2>1, QuietInv
  <2>4. Src' = Src
    BY <2>1 DEF Src
  <2>5. ReadInv'
    BY <1>c, <1>d, <2>1, <2>4 DEF ReadInv
  <2>6. /\ chunk'.cur.id = ident /\ chunk'.cur.gen = file[Src].gen /\ chunk'.cur.off = ReadTo(Src)
        /\ chunk'.from = StartOffset(Src)
        /\ DOMAIN chunk'.line = (StartOffset(Src) + 1)..ReadTo(Src)
        /\ \A i \in DOMAIN chunk'.line : chunk'.line[i] = file[Src].lines[i]
    BY <2>1 DEF ChunkAt
  <2>7. StartOffset(Src) # 0 =>
          /\ durable[Src].id = ident /\ durable[Src].off = StartOffset(Src)
          /\ durable[Src].off <= Len(file[Src].lines)
    BY <1>a DEF StartOffset
  <2>8. StartOffset(Src) # 0 /\ ident = file[Src].id => Live(durable[Src], Src)
    BY <2>7, <1>a, <1>b DEF FilesInv, CutIsVisible, Live
  <2>9. \A i \in DOMAIN chunk'.line :
          chunk'.line[i] = Silent \/ <<Src, chunk'.line[i]>> \in Settled \/ i \in batch' \cup todo'
    BY <1>b, <2>1, <2>2 DEF Deliverable, Settled
  <2>10. ChunkInv'
    <3>1. /\ chunk'.cur.gen <= file[Src].gen /\ chunk'.from < chunk'.cur.off
          /\ chunk'.cur.off <= Len(file[Src].lines)
          /\ chunk'.from # 0 => durable[Src].off = chunk'.from
          /\ chunk'.from # 0 /\ chunk'.cur.id = file[Src].id => Live(durable[Src], Src)
      BY <1>3, <1>a, <2>6, <2>7, <2>8
    <3>2. pc' \in {"commit", "post"} /\ (pc' = "commit" => batch' = {} /\ todo' = {})
      BY <2>2
    <3> QED BY <1>c, <2>1, <2>4, <2>6, <2>9, <3>1, <3>2 DEF ChunkInv, CutIsVisible, Live
  <2>11. AnswerInv'
    BY <2>2 DEF AnswerInv
  <2> QED BY <1>c, <2>3, <2>5, <2>10, <2>11 DEF IInv, DeliveryInv
<1> QED BY <1>a, <1>1, <1>2, <1>3

(* The invariant when a cursor is saved: everything in the delivered chunk *)
(* is settled and cached, everything before it was.                        *)
LEMMA SaveCursorInv ==
  ASSUME TypeOK, IInv, SaveCursor
  PROVE  IInv'
<1>a. /\ Src \in Source /\ pc = "save" /\ pc' = "source"
      /\ UNCHANGED <<file, cached, quarantine, stored, refused>>
      /\ durable' = [durable EXCEPT ![Src] = chunk.cur]
  BY SrcIsSource DEF SaveCursor, TypeOK, serverVars
<1>b. FilesInv /\ ReadInv /\ ChunkInv /\ Quarantined \subseteq refused
  BY DEF IInv, DeliveryInv
<1>c. /\ durable'[Src] = chunk.cur
      /\ \A t \in Source : t # Src => durable'[t] = durable[t]
  BY <1>a DEF TypeOK, DiskType
<1>d. /\ Len(file[Src].lines) \in Nat /\ file[Src].id \in Nat
      /\ DOMAIN file[Src].lines = 1..Len(file[Src].lines)
      /\ chunk.cur.off \in Nat /\ chunk.from \in Nat /\ ident \in Nat /\ durable[Src].id \in Nat
      /\ DOMAIN chunk.line = (chunk.from + 1)..chunk.cur.off
  BY <1>a, LenProperties DEF TypeOK, FileType, DiskType, RunType, TransferType, Cursor
<1>e. /\ chunk.cur.id <= file[Src].id /\ chunk.cur.gen <= file[Src].gen
      /\ CutIsVisible(chunk.cur, Src, Len(file[Src].lines))
      /\ Live(chunk.cur, Src) /\ file[Src].present =>
           /\ chunk.cur.off <= Len(file[Src].lines)
           /\ \A i \in DOMAIN chunk.line : file[Src].lines[i] = chunk.line[i]
      /\ chunk.from # 0 =>
           durable[Src].off = chunk.from /\ (Live(chunk.cur, Src) => Live(durable[Src], Src))
      /\ \A i \in DOMAIN chunk.line :
           /\ chunk.line[i] = Silent \/ <<Src, chunk.line[i]>> \in Settled
           /\ <<Src, chunk.cur.gen, i>> \in cached
  BY <1>a, <1>b, <1>d DEF ChunkInv, ReadInv, InFlow
<1>1. FilesInv'
  <2>1. ASSUME NEW t \in Source
        PROVE  (/\ ~file[t].present => file[t].lines = <<>>
                /\ durable[t].id <= file[t].id /\ durable[t].gen <= file[t].gen
                /\ CutIsVisible(durable[t], t, Len(file[t].lines))
                /\ Live(durable[t], t) /\ file[t].present => durable[t].off <= Len(file[t].lines))'
    <3>1. CASE t = Src
      BY <1>a, <1>b, <1>c, <1>e, <3>1 DEF FilesInv, CutIsVisible, Live
    <3>2. CASE t # Src
      BY <1>a, <1>b, <1>c, <3>2 DEF FilesInv, CutIsVisible, Live
    <3> QED BY <3>1, <3>2
  <2> QED BY <2>1 DEF FilesInv
<1>2. CommittedIsSettled'
  <2>1. ASSUME Live(chunk.cur, Src), NEW i \in 1..chunk.cur.off \cap DOMAIN file[Src].lines
        PROVE  file[Src].lines[i] = Silent \/ <<Src, file[Src].lines[i]>> \in Settled
    <3>1. file[Src].present
      <4>1. DOMAIN <<>> = {}
        OBVIOUS
      <4> QED BY <1>a, <1>b, <2>1, <4>1 DEF FilesInv
    <3>2. CASE i <= chunk.from
      <4>1. chunk.from # 0 /\ i \in 1..durable[Src].off \cap DOMAIN file[Src].lines
        BY <1>d, <1>e, <2>1, <3>2
      <4> QED BY <1>a, <1>e, <2>1, <4>1 DEF IInv, CommittedIsSettled
    <3>3. CASE ~(i <= chunk.from)
      <4>1. i \in DOMAIN chunk.line
        BY <1>d, <3>3
      <4> QED BY <1>e, <2>1, <3>1, <4>1
    <3> QED BY <3>2, <3>3
  <2>2. ASSUME NEW t \in Source, Live(durable[t], t)',
               NEW i \in 1..durable'[t].off \cap DOMAIN file[t].lines
        PROVE  file[t].lines[i] = Silent \/ <<t, file[t].lines[i]>> \in Settled
    <3>1. CASE t = Src
      BY <1>a, <1>c, <2>1, <2>2, <3>1 DEF Live
    <3>2. CASE t # Src
      BY <1>a, <1>c, <2>2, <3>2 DEF IInv, CommittedIsSettled, Live
    <3> QED BY <3>1, <3>2
  <2> QED BY <1>a, <2>2 DEF CommittedIsSettled, Settled
<1>3. CacheCoversCursor'
  <2>1. ASSUME Live(chunk.cur, Src), NEW i \in 1..chunk.cur.off
        PROVE  <<Src, chunk.cur.gen, i>> \in cached
    <3>1. CASE i <= chunk.from
      <4>1. chunk.from # 0 /\ i \in 1..durable[Src].off /\ Live(durable[Src], Src)
        BY <1>d, <1>e, <2>1, <3>1
      <4> QED BY <1>a, <2>1, <4>1 DEF IInv, CacheCoversCursor, Live
    <3>2. CASE ~(i <= chunk.from)
      <4>1. i \in DOMAIN chunk.line
        BY <1>d, <3>2
      <4> QED BY <1>e, <4>1
    <3> QED BY <3>1, <3>2
  <2>2. ASSUME NEW t \in Source, Live(durable[t], t)', NEW i \in 1..durable'[t].off
        PROVE  <<t, durable'[t].gen, i>> \in cached
    <3>1. CASE t = Src
      BY <1>a, <1>c, <2>1, <2>2, <3>1 DEF Live
    <3>2. CASE t # Src
      BY <1>a, <1>c, <2>2, <3>2 DEF IInv, CacheCoversCursor, Live
    <3> QED BY <3>1, <3>2
  <2> QED BY <1>a, <2>2 DEF CacheCoversCursor
<1> QED BY <1>a, <1>b, <1>1, <1>2, <1>3
        DEF IInv, DeliveryInv, ReadInv, ChunkInv, AnswerInv, InFlow, Quarantined

(* The invariant when the server refuses events: what leaves the batch is  *)
(* recorded as refused before anything else happens.                       *)
LEMMA RefuseInv ==
  ASSUME TypeOK, IInv, Refuse
  PROVE  IInv'
<1>a. /\ pc = "wait" /\ request.positions \in SUBSET batch
      /\ UNCHANGED <<file, durable, cached, stored, ident, at, chunk>>
      /\ refused' = refused \cup KeysAt(request.positions)
      /\ Src \in Source /\ Quarantined \subseteq refused
  BY SrcIsSource DEF Refuse, TypeOK, TransferType, serverVars, IInv, DeliveryInv
<1>1. /\ (batch \cup todo) \ (batch' \cup todo') \subseteq request.positions
      /\ pc' \in {"post", "commit"} /\ (pc' = "commit" => batch' = {} /\ todo' = {})
  <2>1. CASE batch \ request.positions # {}
    BY <2>1, <1>a DEF Refuse
  <2>2. CASE batch \ request.positions = {}
    <3>1. NextBatch(todo)
      BY <2>2 DEF Refuse
    <3> QED BY <2>2, <3>1, NextBatchType
  <2> QED BY <2>1, <2>2
<1>2. Quarantined' \subseteq refused'
  BY <1>a, QuarantineType DEF Refuse
<1>3. \A i \in (batch \cup todo) \ (batch' \cup todo') : <<Src, chunk.line[i]>> \in Settled'
  BY <1>1, <1>a DEF KeysAt, Settled
<1>4. AnswerInv'
  BY <1>1 DEF AnswerInv
<1> QED BY <1>a, <1>1, <1>2, <1>3, <1>4, DeliveringInv DEF InFlow, Settled

(* Index arithmetic: the k-th element of a sequence without its first n.   *)
LEMMA DropIndex ==
  ASSUME NEW len \in Nat, NEW n \in 0..len,
         NEW k \in 1..(IF n + 1 <= len THEN len - (n + 1) + 1 ELSE 0)
  PROVE  /\ n + k \in 1..len /\ (n + 1) + k - 1 = n + k
         /\ k \in 1..(len - (n + 1) + 1)
OBVIOUS

(* The invariant survives every step of a run.                             *)
LEMMA RunStepInv ==
  ASSUME TypeOK, IInv, RunStep
  PROVE  IInv'
<1> USE DEF diskVars, serverVars, Transfer
<1>a. Quarantined \subseteq refused /\ AnswerInv
  BY DEF IInv, DeliveryInv
<1>1. CASE StartRun
  <2>1. PICK n \in 0..Len(quarantine) : quarantine' = SubSeq(quarantine, n + 1, Len(quarantine))
    BY <1>1 DEF StartRun
  <2>2. quarantine \in Seq(Key) /\ Len(quarantine) \in Nat /\ DOMAIN quarantine = 1..Len(quarantine)
    BY LenProperties DEF TypeOK, DiskType
  <2>3. \A i \in (n + 1)..Len(quarantine) : quarantine[i] \in Key
    BY <2>2, ElementOfSeq
  <2>4. /\ quarantine' \in Seq(Key)
        /\ Len(quarantine') = IF n + 1 <= Len(quarantine) THEN Len(quarantine) - (n + 1) + 1 ELSE 0
        /\ \A i \in 1..(Len(quarantine) - (n + 1) + 1) : quarantine'[i] = quarantine[(n + 1) + i - 1]
    BY <2>1, <2>2, <2>3, SubSeqProperties
  <2>5. DOMAIN quarantine' = 1..Len(quarantine')
    BY <2>4, LenProperties
  <2>6. ASSUME NEW k \in DOMAIN quarantine' PROVE quarantine'[k] \in Quarantined
    <3>1. k \in 1..Len(quarantine') /\ n \in 0..Len(quarantine)
      BY <2>1, <2>5, <2>6
    <3>2. /\ n + k \in 1..Len(quarantine) /\ (n + 1) + k - 1 = n + k
          /\ k \in 1..(Len(quarantine) - (n + 1) + 1)
      BY <2>2, <2>4, <3>1, DropIndex
    <3>3. quarantine'[k] = quarantine[(n + 1) + k - 1]
      BY <2>4, <3>2
    <3> QED BY <2>2, <3>2, <3>3 DEF Quarantined
  <2>7. Quarantined' \subseteq refused'
    BY <1>1, <1>a, <2>6 DEF StartRun, Quarantined
  <2> QED BY <1>1, <2>7, IdleInv DEF StartRun, Settled
<1>2. CASE LeaveSource
  BY <1>2, <1>a, IdleInv DEF LeaveSource, NextSource, Settled, Quarantined
<1>3. CASE Identify
  <2>1. CASE ~file[Src].present
    BY <1>3, <2>1, <1>a, IdleInv DEF Identify, NextSource, Settled, Quarantined
  <2>2. CASE file[Src].present
    <3>1. FilesInv' /\ CommittedIsSettled' /\ CacheCoversCursor'
      BY <1>3, QuietInv DEF Identify, Settled
    <3>2. /\ pc' = "read" /\ ident' = file[Src].id /\ Src' = Src
          /\ UNCHANGED <<file, durable, quarantine, refused>>
      BY <1>3, <2>2 DEF Identify, Src
    <3>3. Src \in Source
      <4>1. at \in 1..Len(Sources)
        BY <1>3, ConstantTypes DEF Identify, TypeOK, RunType
      <4> QED BY <4>1 DEF Src, Source
    <3>4. file[Src].id \in Nat /\ durable[Src].id <= file[Src].id
      BY <3>3 DEF TypeOK, FileType, IInv, DeliveryInv, FilesInv
    <3>5. ReadInv'
      BY <3>2, <3>4 DEF ReadInv
    <3> QED BY <1>a, <3>1, <3>2, <3>5
            DEF IInv, DeliveryInv, ChunkInv, AnswerInv, InFlow, Quarantined
  <2> QED BY <2>1, <2>2
<1>4. CASE ReadChunk
  BY <1>4, ReadChunkInv
<1>5. CASE Post
  <2>1. /\ UNCHANGED <<file, durable, cached, stored, refused, quarantine, ident, at, chunk,
                       todo, batch, request>>
        /\ pc = "post" /\ pc' = "wait"
    BY <1>5 DEF Post
  <2>2. AnswerInv'
    BY <2>1 DEF AnswerInv, KeysAt, NoRequest, TypeOK, TransferType
  <2> QED BY <1>a, <2>1, <2>2, DeliveringInv DEF InFlow, Settled, Quarantined
<1>6. CASE Delivered
  <2>1. /\ UNCHANGED <<file, durable, cached, stored, refused, quarantine, ident, at, chunk>>
        /\ pc = "wait" /\ request.answer = "ok" /\ NextBatch(todo)
    BY <1>6 DEF Delivered
  <2>2. /\ batch' \cup todo' = todo
        /\ pc' \in {"commit", "post"} /\ (pc' = "commit" => batch' = {} /\ todo' = {})
    BY <2>1, NextBatchType
  <2>3. \A i \in (batch \cup todo) \ (batch' \cup todo') : <<Src, chunk.line[i]>> \in Settled'
    BY <1>a, <2>1, <2>2 DEF AnswerInv, KeysAt, Settled
  <2>4. AnswerInv'
    BY <2>2 DEF AnswerInv
  <2> QED BY <1>a, <2>1, <2>2, <2>3, <2>4, DeliveringInv DEF InFlow, Settled, Quarantined
<1>7. CASE Refuse
  BY <1>7, RefuseInv
<1>8. ASSUME NEW c \in Category, Abandon(c), UNCHANGED stored
      PROVE  IInv'
  BY <1>8, <1>a, IdleInv DEF Abandon, Settled, Quarantined
<1>9. CASE CommitCache
  <2>1. /\ UNCHANGED <<file, durable, stored, refused, quarantine, ident, at, chunk, todo, batch>>
        /\ pc = "commit" /\ pc' = "save"
        /\ cached' = cached \cup {<<Src, chunk.cur.gen, i>> : i \in DOMAIN chunk.line}
    BY <1>9 DEF CommitCache
  <2>2. batch = {} /\ todo = {}
    BY <2>1 DEF IInv, DeliveryInv, ChunkInv, InFlow
  <2>3. AnswerInv'
    BY <2>1 DEF AnswerInv
  <2> QED BY <1>a, <2>1, <2>2, <2>3, DeliveringInv DEF InFlow, Settled, Quarantined
<1>10. CASE SaveCursor
  BY <1>10, SaveCursorInv
<1>11. CASE Finish
  BY <1>11, <1>a, IdleInv DEF Finish, Settled, Quarantined
<1> QED BY <1>1, <1>2, <1>3, <1>4, <1>5, <1>6, <1>7, <1>8, <1>9, <1>10, <1>11
        DEF RunStep, TooManyRounds, FailedReply, Category

(* The invariant survives the server's steps: it acknowledges what it      *)
(* stored, and reports nothing that it could have stored.                  *)
LEMMA ServerInv ==
  ASSUME TypeOK, IInv, ServerHandle \/ ServerHandleStale
  PROVE  IInv'
<1>a. Quarantined \subseteq refused /\ AnswerInv
  BY DEF IInv, DeliveryInv
<1>1. CASE ServerHandle
  <2>1. /\ UNCHANGED <<file, durable, cached, quarantine, refused, ident, at, chunk, todo, batch, pc>>
        /\ pc = "wait" /\ stored \subseteq stored' /\ Src' = Src
    BY <1>1 DEF ServerHandle, diskVars, Store, Src
  <2>2. /\ request'.answer = "ok" => KeysAt(batch) \subseteq stored'
        /\ KeysAt(request'.positions) \subseteq Foreign \cup Invalid
    <3>1. CASE Malformed # {} /\ Answer("invalid", Malformed)
      BY <3>1 DEF Answer, KeysAt, Malformed
    <3>2. CASE Answer("conflict", Least(MaxReported, Conflicts))
      <4>1. Least(MaxReported, Conflicts) \subseteq Taken
        BY LeastSubset DEF Conflicts
      <4> QED BY <3>2, <4>1 DEF Answer, KeysAt, Taken
    <3>3. CASE Answer("ok", {}) /\ Store(KeysAt(batch))
      BY <3>3 DEF Answer, KeysAt, Store
    <3> QED BY <1>1, <3>1, <3>2, <3>3 DEF ServerHandle
  <2>3. AnswerInv'
    BY <2>1, <2>2 DEF AnswerInv, KeysAt
  <2> QED BY <1>a, <2>1, <2>3, DeliveringInv DEF Settled, Quarantined, InFlow
<1>2. CASE ServerHandleStale
  <2>1. /\ UNCHANGED <<file, durable, cached, quarantine, refused, ident, at, chunk, todo, batch,
                       pc, request>>
        /\ stored \subseteq stored' /\ Src' = Src
    BY <1>2 DEF ServerHandleStale, diskVars, runVars, Store, Src
  <2>2. FilesInv' /\ CommittedIsSettled' /\ CacheCoversCursor'
    BY <2>1, QuietInv DEF Settled
  <2>3. ReadInv' /\ ChunkInv' /\ AnswerInv' /\ Quarantined' \subseteq refused'
    BY <1>a, <2>1 DEF IInv, DeliveryInv, ReadInv, ChunkInv, AnswerInv, InFlow, CutIsVisible, Live,
                      Settled, KeysAt, Quarantined
  <2> QED BY <2>2, <2>3 DEF IInv, DeliveryInv
<1> QED BY <1>1, <1>2

(* The invariant survives failures, lost answers and crashes.              *)
LEMMA FaultsInv ==
  ASSUME TypeOK, IInv, Faults
  PROVE  IInv'
<1>a. Quarantined \subseteq refused /\ AnswerInv
  BY DEF IInv, DeliveryInv
<1>1. CASE ServerFails
  <2>1. /\ UNCHANGED <<file, durable, cached, quarantine, refused, stored, ident, at, chunk, todo,
                       batch, pc>>
        /\ pc = "wait" /\ request' = [answer |-> "failed", positions |-> {}]
    BY <1>1 DEF ServerFails, diskVars, serverVars, Answer
  <2>2. AnswerInv'
    BY <2>1 DEF AnswerInv, KeysAt
  <2> QED BY <1>a, <2>1, <2>2, DeliveringInv DEF Settled, Quarantined, InFlow
<1>2. CASE LoseReply \/ Abort
  BY <1>2, <1>a, IdleInv DEF LoseReply, Abort, Abandon, diskVars, serverVars, Settled, Quarantined
<1>3. CASE Crash
  BY <1>3, <1>a, IdleInv DEF Crash, diskVars, Settled, Quarantined
<1> QED BY <1>1, <1>2, <1>3 DEF Faults

(* The invariant holds initially.                                          *)
LEMMA InitInv == Init => IInv
<1> SUFFICES ASSUME Init PROVE IInv
  OBVIOUS
<1>1. /\ durable = [s \in Source |-> NoCursor] /\ pc = "idle" /\ quarantine = <<>>
      /\ file = [s \in Source |-> [present |-> TRUE, id |-> 1, gen |-> 1, lines |-> <<>>]]
  BY DEF Init
<1>2. FilesInv
  BY <1>1 DEF FilesInv, NoCursor, CutIsVisible, Live
<1>3. CommittedIsSettled /\ CacheCoversCursor
  BY <1>1 DEF CommittedIsSettled, CacheCoversCursor, NoCursor, Live
<1>4. Quarantined = {}
  BY <1>1 DEF Quarantined
<1> QED BY <1>1, <1>2, <1>3, <1>4 DEF IInv, DeliveryInv, ReadInv, ChunkInv, AnswerInv, InFlow

(* The invariant is inductive, given the types.                            *)
LEMMA NextInv == TypeOK /\ IInv /\ [Next]_vars => IInv'
<1> SUFFICES ASSUME TypeOK, IInv, [Next]_vars PROVE IInv'
  OBVIOUS
<1>1. CASE UNCHANGED vars
  <2>1. /\ UNCHANGED <<file, durable, cached, quarantine, refused, ident, at, chunk, todo, batch,
                       pc, request, stored>>
        /\ Src' = Src
    BY <1>1 DEF vars, diskVars, serverVars, runVars, Src
  <2>2. FilesInv' /\ CommittedIsSettled' /\ CacheCoversCursor'
    BY <2>1, QuietInv DEF Settled
  <2>3. ReadInv' /\ ChunkInv' /\ AnswerInv' /\ Quarantined' \subseteq refused'
    BY <2>1 DEF IInv, DeliveryInv, ReadInv, ChunkInv, AnswerInv, InFlow, CutIsVisible, Live,
                Settled, KeysAt, Quarantined
  <2> QED BY <2>2, <2>3 DEF IInv, DeliveryInv
<1> QED BY <1>1, EnvironmentInv, RunStepInv, ServerInv, FaultsInv DEF Next

(* Rows and the onboarding status are the server's to change, and what was *)
(* refused is the Collector's to add to.                                   *)
LEMMA OtherStepsStoreNothing ==
  ASSUME [Next]_vars
  PROVE  /\ Refuse \/ ServerHandle \/ ServerHandleStale \/ UNCHANGED <<refused, stored>>
         /\ ServerHandle \/ ServerHandleStale \/ UNCHANGED <<stored, onboarding>>
<1> USE DEF diskVars, serverVars, runVars
<1>1. CASE UNCHANGED vars
  BY <1>1 DEF vars
<1>2. CASE Environment
  BY <1>2 DEF Environment, AppendLine, Remove, Recreate, Truncate
<1>3. CASE RunStep
  BY <1>3 DEF RunStep, StartRun, LeaveSource, Identify, ReadChunk, Post, Delivered, Refuse,
              TooManyRounds, FailedReply, Abandon, CommitCache, SaveCursor, Finish
<1>4. CASE Faults
  BY <1>4 DEF Faults, ServerFails, LoseReply, Abort, Crash, Abandon
<1> QED BY <1>1, <1>2, <1>3, <1>4 DEF Next

(* In every reachable state, the invariant that makes the rest provable:   *)
(* a chunk in flight continues the saved cursor or starts from nothing,    *)
(* and every line of it is settled, silent or still to be sent.            *)
THEOREM DeliveryCorrect == Spec => []DeliveryInv
<1>1. TypeOK /\ IInv /\ [Next]_vars => TypeOK' /\ IInv'
  BY NextType, NextInv
<1>2. IInv => DeliveryInv
  BY DEF IInv
<1> QED BY InitType, InitInv, <1>1, <1>2, PTL DEF Spec

(* At-least-once delivery: a cursor on disk never passes an event that was *)
(* neither stored nor refused, whatever crashed, was lost or was replaced. *)
THEOREM CommittedIsSettledAlways == Spec => []CommittedIsSettled
<1>1. TypeOK /\ IInv /\ [Next]_vars => TypeOK' /\ IInv'
  BY NextType, NextInv
<1>2. IInv => CommittedIsSettled
  BY DEF IInv
<1> QED BY InitType, InitInv, <1>1, <1>2, PTL DEF Spec

(* The patron cache is never behind the cursor. *)
THEOREM CacheCoversCursorAlways == Spec => []CacheCoversCursor
<1>1. TypeOK /\ IInv /\ [Next]_vars => TypeOK' /\ IInv'
  BY NextType, NextInv
<1>2. IInv => CacheCoversCursor
  BY DEF IInv
<1> QED BY InitType, InitInv, <1>1, <1>2, PTL DEF Spec

-----------------------------------------------------------------------------
(* What the Collector skips, and what a pending branch holds.              *)

(* Whatever the Collector gave up on is refusable, and nothing the server  *)
(* stored was.                                                             *)
THEOREM OnlyRefusableIsSkippedAlways == Spec => []OnlyRefusableIsSkipped
<1>1. Init => OnlyRefusableIsSkipped
  BY DEF Init, OnlyRefusableIsSkipped
<1>2. ASSUME IInv, OnlyRefusableIsSkipped, [Next]_vars
      PROVE  OnlyRefusableIsSkipped'
  <2>1. CASE Refuse
    <3>1. KeysAt(request.positions) \subseteq Foreign \cup Invalid
      BY <1>2, <2>1 DEF Refuse, IInv, DeliveryInv, AnswerInv
    <3> QED BY <1>2, <2>1, <3>1 DEF Refuse, serverVars, OnlyRefusableIsSkipped
  <2>2. CASE ServerHandle
    <3>1. Malformed = {} /\ Taken = {} => KeysAt(batch) \cap (Foreign \cup Invalid) = {}
      BY DEF Malformed, Taken, KeysAt
    <3> QED BY <1>2, <2>2, <3>1 DEF ServerHandle, Store, OnlyRefusableIsSkipped
  <2>3. CASE ServerHandleStale
    BY <1>2, <2>3 DEF ServerHandleStale, Store, OnlyRefusableIsSkipped
  <2>4. CASE UNCHANGED <<refused, stored>>
    BY <1>2, <2>4 DEF OnlyRefusableIsSkipped
  <2>5. Refuse \/ ServerHandle \/ ServerHandleStale \/ UNCHANGED <<refused, stored>>
    BY <1>2, OtherStepsStoreNothing
  <2> QED BY <2>1, <2>2, <2>3, <2>4, <2>5
<1>3. TypeOK /\ IInv /\ [Next]_vars => TypeOK' /\ IInv'
  BY NextType, NextInv
<1> QED BY InitType, InitInv, <1>1, <1>2, <1>3, PTL DEF Spec

(* A branch is pending exactly as long as it has no rows.                  *)
THEOREM PendingHasNoDataAlways == Spec => []PendingHasNoData
<1>1. Init => PendingHasNoData
  BY DEF Init, PendingHasNoData
<1>2. ASSUME TypeOK, PendingHasNoData, [Next]_vars
      PROVE  PendingHasNoData'
  <2>1. ASSUME NEW keys, Store(keys) PROVE PendingHasNoData'
    BY <1>2, <2>1 DEF Store, PendingHasNoData, TypeOK, ServerType
  <2>2. CASE ServerHandle
    BY <1>2, <2>1, <2>2 DEF ServerHandle, PendingHasNoData
  <2>3. CASE ServerHandleStale
    BY <1>2, <2>1, <2>3 DEF ServerHandleStale, PendingHasNoData
  <2>4. CASE UNCHANGED <<stored, onboarding>>
    BY <1>2, <2>4 DEF PendingHasNoData
  <2>5. ServerHandle \/ ServerHandleStale \/ UNCHANGED <<stored, onboarding>>
    BY <1>2, OtherStepsStoreNothing
  <2> QED BY <2>2, <2>3, <2>4, <2>5
<1> QED BY InitType, NextType, <1>1, <1>2, PTL DEF Spec

-----------------------------------------------------------------------------
(* The Collector implements the queue of FileQueue: the movement of the    *)
(* saved cursors, and the refinement mapping of CollectorDelivery.         *)

Active == pc \in {"read", "post", "wait", "commit", "save"}

(* Which steps change what: the cursors move in two steps only, a step     *)
(* outside the environment leaves the files alone, and outside Identify    *)
(* and ReadChunk a run that goes on goes on with what it read.             *)
LEMMA StepKinds ==
  ASSUME [Next]_vars
  PROVE  /\ ReadChunk \/ SaveCursor \/ UNCHANGED durable
         /\ Environment \/ UNCHANGED file
         /\ \/ Environment \/ Identify \/ ReadChunk \/ ~Active'
            \/ UNCHANGED <<ident, at, chunk>> /\ (InFlow' => InFlow) /\ (Active' => Active)
<1> USE DEF diskVars, serverVars, runVars, Active, InFlow
<1>1. CASE UNCHANGED vars
  BY <1>1 DEF vars
<1>2. CASE Environment
  BY <1>2 DEF Environment, AppendLine, Remove, Recreate, Truncate
<1>3. CASE StartRun \/ LeaveSource \/ Identify \/ ReadChunk \/ SaveCursor \/ Finish
  BY <1>3 DEF StartRun, LeaveSource, NextSource, Identify, ReadChunk, SaveCursor, Finish
<1>4. CASE Post \/ CommitCache
  BY <1>4 DEF Post, CommitCache, Transfer
<1>5. CASE Delivered \/ Refuse
  BY <1>5 DEF Delivered, Refuse
<1>6. CASE TooManyRounds \/ FailedReply
  BY <1>6 DEF TooManyRounds, FailedReply, Abandon
<1>7. CASE ServerHandle \/ ServerHandleStale
  BY <1>7 DEF ServerHandle, ServerHandleStale
<1>8. CASE Faults
  BY <1>8 DEF Faults, ServerFails, LoseReply, Abort, Crash, Abandon
<1> QED BY <1>1, <1>2, <1>3, <1>4, <1>5, <1>6, <1>7, <1>8 DEF Next, RunStep

(* What the environment does to a file's identity and content number.      *)
LEMMA FilesGetNewer ==
  ASSUME TypeOK, Environment, NEW s \in Source
  PROVE  /\ file[s].gen \in Nat /\ file'[s].gen \in Nat /\ file[s].gen <= file'[s].gen
         /\ file'[s].id = file[s].id \/ file[s].gen < file'[s].gen
<1> PICK t \in Source : AppendLine(t) \/ Remove(t) \/ Recreate(t) \/ Truncate(t)
  BY DEF Environment
<1>1. file[s].gen \in Nat /\ file[s].id \in Nat
  BY DEF TypeOK, FileType
<1>2. CASE s # t
  BY <1>1, <1>2 DEF AppendLine, Remove, Recreate, Truncate, TypeOK, FileType
<1>3. CASE s = t
  BY <1>1, <1>3 DEF AppendLine, Remove, Recreate, Truncate, TypeOK, FileType
<1> QED BY <1>2, <1>3

(* ForwardInv is inductive, given the invariants proved already.           *)
LEMMA NextForward ==
  ASSUME TypeOK, TypeOK', IInv, ForwardInv, [Next]_vars
  PROVE  ForwardInv'
<1>a. Active <=> pc = "read" \/ InFlow
  BY DEF Active, InFlow
<1>1. CASE Environment
  <2>1. UNCHANGED <<durable, pc, at, ident, chunk>> /\ Src' = Src /\ InFlow' = InFlow
    BY <1>1 DEF Environment, AppendLine, Remove, Recreate, Truncate, diskVars, runVars, Src, InFlow
  <2>2. ASSUME pc = "read" \/ InFlow
        PROVE  ident = file'[Src].id \/ durable[Src].gen < file'[Src].gen
    <3>1. Src \in Source
      BY <2>2, SrcIsSource DEF TypeOK, InFlow
    <3>2. durable[Src].gen \in Nat /\ durable[Src].gen <= file[Src].gen
      BY <3>1 DEF TypeOK, DiskType, Cursor, IInv, DeliveryInv, FilesInv
    <3> QED BY <1>1, <2>2, <3>1, <3>2, FilesGetNewer DEF ForwardInv
  <2> QED BY <2>1, <2>2 DEF ForwardInv
<1>2. CASE ~Active'
  BY <1>2 DEF ForwardInv, Active, InFlow
<1>3. CASE Identify /\ Active'
  <2>1. /\ pc' = "read" /\ ident' = file[Src].id /\ UNCHANGED <<file, at>>
    BY <1>3 DEF Identify, Active, NextSource
  <2> QED BY <2>1 DEF ForwardInv, InFlow, Src
<1>4. CASE ReadChunk /\ Active'
  <2>1. /\ file[Src].present /\ pc = "read" /\ StartOffset(Src) < ReadTo(Src)
        /\ chunk' = ChunkAt(Src) /\ UNCHANGED <<file, durable, at, ident>> /\ Src' = Src
    BY <1>4 DEF ReadChunk, Active, NextSource, Src
  <2>2. Src \in Source
    BY <2>1, SrcIsSource DEF TypeOK
  <2>3. /\ StartOffset(Src) \in Nat /\ ReadTo(Src) \in Nat
        /\ durable[Src].gen <= file[Src].gen
        /\ durable[Src].off \in Nat /\ durable[Src].gen \in Nat /\ file[Src].gen \in Nat
        /\ Len(file[Src].lines) \in Nat
    BY <2>1, <2>2, OffsetsType, LenProperties
       DEF TypeOK, DiskType, FileType, Cursor, IInv, DeliveryInv, FilesInv
  <2>4. /\ chunk'.cur.gen = file[Src].gen /\ chunk'.cur.id = ident /\ chunk'.cur.off = ReadTo(Src)
    BY <2>1 DEF ChunkAt
  <2>5. ident = file[Src].id \/ durable[Src].gen < file[Src].gen
    BY <2>1 DEF ForwardInv
  <2>6. ASSUME durable[Src].id = ident, durable[Src].gen = file[Src].gen
        PROVE  durable[Src].off <= ReadTo(Src)
    <3>1. durable[Src].off <= Len(file[Src].lines)
      BY <2>1, <2>2, <2>3, <2>5, <2>6 DEF IInv, DeliveryInv, FilesInv, Live
    <3>2. StartOffset(Src) = durable[Src].off
      BY <2>3, <2>6, <3>1 DEF StartOffset
    <3> QED BY <2>1, <2>3, <3>2
  <2> QED BY <2>1, <2>3, <2>4, <2>5, <2>6 DEF ForwardInv
<1>5. CASE /\ UNCHANGED <<ident, at, chunk>> /\ (InFlow' => InFlow) /\ (Active' => Active) /\ Active'
           /\ UNCHANGED <<file, durable>>
  BY <1>5, <1>a DEF ForwardInv, Active, InFlow, Src
<1>6. ReadChunk \/ ~Active' \/ UNCHANGED durable
  BY StepKinds DEF SaveCursor, Active
<1> QED BY <1>1, <1>2, <1>3, <1>4, <1>5, <1>6, StepKinds

(* A run that has not started is not behind its cursor.                    *)
LEMMA InitForward == Init => ForwardInv
BY DEF Init, ForwardInv, InFlow

(* A saved cursor never goes back within one content of its file.          *)
LEMMA CursorForward ==
  ASSUME TypeOK, IInv, ForwardInv, [Next]_vars, NEW s \in Source,
         durable[s].id = durable'[s].id, durable[s].gen = durable'[s].gen
  PROVE  durable[s].off <= durable'[s].off
<1>1. durable[s] \in Cursor /\ durable[s].off \in Nat /\ durable \in [Source -> Cursor]
  BY DEF TypeOK, DiskType, Cursor
<1>2. CASE UNCHANGED durable
  BY <1>1, <1>2
<1>3. CASE SaveCursor
  <2>1. Src \in Source /\ durable' = [durable EXCEPT ![Src] = chunk.cur] /\ InFlow
    BY <1>3, SrcIsSource DEF SaveCursor, TypeOK, InFlow
  <2>2. CASE s = Src
    BY <1>1, <2>1, <2>2 DEF ForwardInv
  <2>3. CASE s # Src
    BY <1>1, <2>1, <2>3
  <2> QED BY <2>2, <2>3
<1>4. CASE ReadChunk /\ durable' # durable
  <2>1. /\ Src \in Source /\ pc = "read" /\ file[Src].present
        /\ StartOffset(Src) = ReadTo(Src)
        /\ durable' = [durable EXCEPT ![Src] =
             IF @.id = ident /\ @.off = ReadTo(Src) THEN @ ELSE ChunkAt(Src).cur]
    BY <1>4, SrcIsSource DEF ReadChunk, TypeOK
  <2>2. CASE s # Src
    BY <1>1, <2>1, <2>2
  <2>3. CASE s = Src
    <3>1. durable'[s].off = ReadTo(s)
      BY <1>1, <2>1, <2>3 DEF ChunkAt
    <3>2. durable'[s].id = ident /\ (durable[s].off = ReadTo(s) \/ durable'[s].gen = file[s].gen)
      BY <1>1, <2>1, <2>3 DEF ChunkAt
    <3>3. CASE durable[s].off = ReadTo(s)
      BY <1>1, <3>1, <3>3
    <3>4. CASE durable'[s].gen = file[s].gen
      <4>1. file[s].gen \in Nat /\ Len(file[s].lines) \in Nat
        BY LenProperties DEF TypeOK, FileType
      <4>2. Live(durable[s], s)
        BY <2>1, <2>3, <3>2, <3>4, <4>1 DEF ForwardInv, Live
      <4>3. durable[s].off <= Len(file[s].lines)
        BY <2>1, <2>3, <4>2 DEF IInv, DeliveryInv, FilesInv
      <4>4. StartOffset(s) = durable[s].off
        BY <1>1, <2>3, <3>2, <4>1, <4>3 DEF StartOffset
      <4> QED BY <1>1, <2>1, <2>3, <3>1, <4>4
    <3> QED BY <3>2, <3>3, <3>4
  <2> QED BY <2>2, <2>3
<1> QED BY <1>2, <1>3, <1>4, StepKinds

(* No run, crash or restart moves a saved cursor back over lines of the    *)
(* same content: only a replaced or truncated file starts again.           *)
THEOREM NeverGoesBackAlways == Spec => NeverGoesBack
<1>1. TypeOK /\ IInv /\ ForwardInv /\ [Next]_vars => TypeOK' /\ IInv' /\ ForwardInv'
  BY NextType, NextInv, NextForward
<1>2. TypeOK /\ IInv /\ ForwardInv /\ [Next]_vars =>
        [\A s \in Source :
           (durable[s].id = durable'[s].id /\ durable[s].gen = durable'[s].gen)
             => durable[s].off <= durable'[s].off]_vars
  BY CursorForward
<1> QED BY InitType, InitInv, InitForward, <1>1, <1>2, PTL DEF Spec, NeverGoesBack

-----------------------------------------------------------------------------
(* The refinement mapping, named.                                          *)
Log  == [s \in Source |-> file[s].lines]
Mark == [s \in Source |-> IF file[s].present /\ Live(durable[s], s) THEN durable[s].off ELSE 0]

(* A settled event stays settled, and is one the model knows.              *)
LEMMA SettledGrows ==
  ASSUME TypeOK', [Next]_vars
  PROVE  Settled \subseteq Settled' /\ Settled' \in SUBSET Key
<1>1. refused \subseteq refused' /\ stored \subseteq stored'
  <2>1. CASE Refuse
    BY <2>1 DEF Refuse, serverVars
  <2>2. CASE ServerHandle
    BY <2>2 DEF ServerHandle, Store
  <2>3. CASE ServerHandleStale
    BY <2>3 DEF ServerHandleStale, Store
  <2> QED BY <2>1, <2>2, <2>3, OtherStepsStoreNothing
<1> QED BY <1>1 DEF Settled, TypeOK, ServerType

(* The owner of a file appends to the queue or replaces it.                *)
LEMMA EnvironmentQueue ==
  ASSUME TypeOK, IInv, Environment
  PROVE  Queue!Next
<1> PICK s \in Source : AppendLine(s) \/ Remove(s) \/ Recreate(s) \/ Truncate(s)
  BY DEF Environment
<1>1. /\ UNCHANGED <<durable, stored, refused>> /\ Settled' = Settled
      /\ \A t \in Source : t # s => file'[t] = file[t]
  BY DEF AppendLine, Remove, Recreate, Truncate, diskVars, serverVars, TypeOK, FileType, Settled
<1>2. /\ \A t \in Source : t # s => Log'[t] = Log[t] /\ Mark'[t] = Mark[t]
      /\ Log'[s] = file'[s].lines
      /\ Mark'[s] = IF file'[s].present /\ durable[s].id = file'[s].id
                         /\ durable[s].gen = file'[s].gen THEN durable[s].off ELSE 0
      /\ Mark[s] = IF file[s].present /\ Live(durable[s], s) THEN durable[s].off ELSE 0
  BY <1>1 DEF Log, Mark, Live
<1>3. /\ durable[s].id \in Nat /\ durable[s].gen \in Nat /\ durable[s].gen <= file[s].gen
      /\ file[s].gen \in Nat
  BY DEF TypeOK, DiskType, FileType, Cursor, IInv, DeliveryInv, FilesInv
<1>4. CASE AppendLine(s)
  <2>1. PICK l \in Line : file' = [file EXCEPT ![s].lines = Append(@, l)]
    BY <1>4 DEF AppendLine
  <2>2. /\ file'[s].lines = Append(file[s].lines, l) /\ file'[s].id = file[s].id
        /\ file'[s].gen = file[s].gen /\ file'[s].present = file[s].present
    BY <2>1 DEF TypeOK, FileType
  <2>3. Mark' = Mark
    BY <1>2, <2>2 DEF Mark, Live
  <2>4. Log' = [Log EXCEPT ![s] = Append(@, l)]
    BY <1>2, <2>2 DEF Log
  <2>5. Queue!Append1(s)
    BY <1>1, <2>3, <2>4 DEF Queue!Append1, Log, Mark, Line
  <2> QED BY <2>5 DEF Queue!Next
<1>5. CASE Remove(s) \/ Recreate(s) \/ Truncate(s)
  <2>1. file'[s].lines = <<>> /\ (file'[s].present => file[s].gen < file'[s].gen)
    BY <1>3, <1>5 DEF Remove, Recreate, Truncate, TypeOK, FileType
  <2>2. Mark'[s] = 0
    BY <1>2, <1>3, <2>1
  <2>3. Log' = [Log EXCEPT ![s] = <<>>] /\ Mark' = [Mark EXCEPT ![s] = 0]
    BY <1>2, <2>1, <2>2 DEF Log, Mark
  <2>4. Queue!Replace(s)
    BY <1>1, <2>3 DEF Queue!Replace, Log, Mark
  <2> QED BY <2>4 DEF Queue!Next
<1> QED BY <1>4, <1>5

(* Saving the cursor of a delivered chunk advances the queue's mark.       *)
LEMMA SaveCursorQueue ==
  ASSUME TypeOK, IInv, IInv', ForwardInv, SaveCursor
  PROVE  Queue!Next
<1> PICK s \in Source : s = Src
  BY SrcIsSource DEF SaveCursor, TypeOK
<1>1. /\ durable' = [durable EXCEPT ![s] = chunk.cur] /\ InFlow
      /\ UNCHANGED <<file, stored, refused>> /\ Settled' = Settled
  BY DEF SaveCursor, InFlow, serverVars, Settled
<1>2. /\ durable'[s] = chunk.cur /\ \A t \in Source : t # s => durable'[t] = durable[t]
  BY <1>1 DEF TypeOK, DiskType
<1>3. /\ chunk.cur.id \in Nat /\ chunk.cur.gen \in Nat /\ chunk.cur.off \in Nat
      /\ durable[s].id \in Nat /\ durable[s].gen \in Nat /\ durable[s].off \in Nat
      /\ file[s].id \in Nat /\ file[s].gen \in Nat /\ Len(file[s].lines) \in Nat
      /\ DOMAIN file[s].lines = 1..Len(file[s].lines) /\ ident \in Nat
  BY <1>1, LenProperties DEF TypeOK, DiskType, FileType, TransferType, Cursor, RunType
<1>4. /\ chunk.cur.id = ident /\ chunk.cur.gen <= file[s].gen
      /\ durable[s].id <= ident /\ ident <= file[s].id
      /\ durable[s].gen <= chunk.cur.gen
      /\ durable[s].id = chunk.cur.id /\ durable[s].gen = chunk.cur.gen
           => durable[s].off <= chunk.cur.off
  BY <1>1 DEF IInv, DeliveryInv, ReadInv, ChunkInv, ForwardInv
<1>5. Mark[s] \in 0..Mark'[s]
  <2>1. CASE file[s].present /\ Live(durable[s], s)
    <3>1. Live(chunk.cur, s) /\ durable[s].off <= chunk.cur.off
      BY <1>3, <1>4, <2>1 DEF Live
    <3> QED BY <1>1, <1>2, <1>3, <2>1, <3>1 DEF Mark, Live
  <2>2. CASE ~(file[s].present /\ Live(durable[s], s))
    BY <1>1, <1>2, <1>3, <2>2 DEF Mark, Live
  <2> QED BY <2>1, <2>2
<1>6. /\ Mark'[s] <= Len(file[s].lines)
      /\ \A i \in 1..Mark'[s] : file[s].lines[i] = Silent \/ <<s, file[s].lines[i]>> \in Settled
  <2>1. CASE file[s].present /\ Live(chunk.cur, s)
    <3>1. Mark'[s] = chunk.cur.off /\ Live(durable[s], s)' /\ file'[s].present
      BY <1>1, <1>2, <2>1 DEF Mark, Live
    <3>2. chunk.cur.off <= Len(file[s].lines)
      BY <1>1, <1>2, <3>1 DEF IInv, DeliveryInv, FilesInv
    <3>3. 1..chunk.cur.off \subseteq 1..durable'[s].off \cap DOMAIN file[s].lines
      BY <1>2, <1>3, <3>2
    <3> QED BY <1>1, <1>2, <3>1, <3>2, <3>3 DEF IInv, CommittedIsSettled
  <2>2. CASE ~(file[s].present /\ Live(chunk.cur, s))
    <3>1. Mark'[s] = 0
      BY <1>1, <1>2, <2>2 DEF Mark, Live
    <3> QED BY <1>3, <3>1
  <2> QED BY <2>1, <2>2
<1>7. Mark[s] \in Nat /\ Mark'[s] \in Nat
  BY <1>1, <1>2, <1>3 DEF Mark, Live
<1>8. Mark' = [Mark EXCEPT ![s] = Mark'[s]]
  <2>1. \A t \in Source : t # s => Mark'[t] = Mark[t]
    BY <1>1, <1>2 DEF Mark, Live
  <2> QED BY <2>1 DEF Mark, Live
<1>9. Mark'[s] \in Mark[s]..Len(Log[s]) /\ Log' = Log
      /\ \A i \in 1..Mark'[s] : Queue!Done(s, Log[s][i])
  BY <1>1, <1>3, <1>5, <1>6, <1>7 DEF Log, Queue!Done
<1>10. Queue!Advance(s)
  BY <1>1, <1>8, <1>9 DEF Queue!Advance, Log, Mark
<1> QED BY <1>1, <1>10 DEF Queue!Next

(* A cursor saved over an empty read leaves the mark where it was.         *)
LEMMA EmptyReadQueue ==
  ASSUME TypeOK, TypeOK', IInv, IInv', ForwardInv, [Next]_vars, ReadChunk
  PROVE  UNCHANGED <<Log, Mark, Settled>>
<1>1. /\ Src \in Source /\ pc = "read" /\ UNCHANGED <<file, stored, refused>>
  BY SrcIsSource DEF ReadChunk, TypeOK, serverVars
<1>2. CASE UNCHANGED durable
  BY <1>1, <1>2 DEF Log, Mark, Settled, Live
<1>3. CASE durable' # durable
  <2>1. /\ file[Src].present /\ StartOffset(Src) = ReadTo(Src)
        /\ durable' = [durable EXCEPT ![Src] =
             IF @.id = ident /\ @.off = ReadTo(Src) THEN @ ELSE ChunkAt(Src).cur]
    BY <1>3 DEF ReadChunk
  <2>2. ~(durable[Src].id = ident /\ durable[Src].off = ReadTo(Src))
    BY <1>1, <1>3, <2>1 DEF TypeOK, DiskType
  <2>3. /\ Len(file[Src].lines) \in Nat /\ StartOffset(Src) \in Nat /\ ReadTo(Src) \in Nat
        /\ durable[Src].off \in Nat
    BY <1>1, OffsetsType, LenProperties DEF TypeOK, FileType, DiskType, Cursor
  <2>4. StartOffset(Src) = 0 /\ ReadTo(Src) = 0
    BY <2>1, <2>2, <2>3 DEF StartOffset
  <2>5. Len(file[Src].lines) = 0
    BY <1>1, <2>3, <2>4, ConstantTypes DEF ReadTo
  <2>6. Mark[Src] = 0
    BY <1>1, <2>1, <2>3, <2>5 DEF Mark, IInv, DeliveryInv, FilesInv
  <2>7. /\ durable'[Src].off = 0
        /\ \A t \in Source : t # Src => durable'[t] = durable[t]
    BY <1>1, <2>1, <2>2, <2>4 DEF ChunkAt, TypeOK, DiskType
  <2>8. \A t \in Source : Mark'[t] = Mark[t]
    BY <1>1, <2>6, <2>7 DEF Mark, Live
  <2> QED BY <1>1, <2>8 DEF Log, Mark, Settled
<1> QED BY <1>2, <1>3

(* Every step of the Collector, of the server and of the files is a step   *)
(* of the queue, or leaves it as it is.                                    *)
LEMMA QueueStep ==
  ASSUME TypeOK, TypeOK', IInv, IInv', ForwardInv, [Next]_vars
  PROVE  [Queue!Next]_Queue!vars
<1>1. CASE Environment
  BY <1>1, EnvironmentQueue
<1>2. CASE SaveCursor
  BY <1>2, SaveCursorQueue
<1>3. CASE ReadChunk
  BY <1>3, EmptyReadQueue DEF Queue!vars, Log, Mark
<1>4. CASE UNCHANGED <<file, durable>>
  <2>1. Log' = Log /\ Mark' = Mark
    BY <1>4 DEF Log, Mark, Live
  <2>2. Settled' = Settled \cup Settled' /\ Settled' \in SUBSET Key
    BY SettledGrows
  <2>3. Queue!Settle
    BY <2>1, <2>2 DEF Queue!Settle, Queue!Key, Key, Log, Mark
  <2> QED BY <2>3 DEF Queue!Next
<1> QED BY <1>1, <1>2, <1>3, <1>4, StepKinds

(* The files, the saved cursors and the settled events are the queue of    *)
(* FileQueue: whatever the runs, crashes, late requests and replacements,  *)
(* the mark moves forward, over settled lines only, or the file is new.    *)
THEOREM CollectorImplementsQueue == Spec => ImplementsQueue
<1>1. Init => Queue!Init
  BY DEF Init, Queue!Init, NoCursor, Settled, Live
<1>2. TypeOK /\ IInv /\ ForwardInv /\ [Next]_vars => TypeOK' /\ IInv' /\ ForwardInv'
  BY NextType, NextInv, NextForward
<1>3. TypeOK /\ TypeOK' /\ IInv /\ IInv' /\ ForwardInv /\ [Next]_vars => [Queue!Next]_Queue!vars
  BY QueueStep
<1> QED BY InitType, InitInv, InitForward, <1>1, <1>2, <1>3, PTL DEF Spec, ImplementsQueue, Queue!Spec
=============================================================================
