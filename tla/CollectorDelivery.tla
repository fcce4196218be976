------------------------- MODULE CollectorDelivery -------------------------
(***************************************************************************)
(* One installation's Contract v2 Collector and the ingest transaction it  *)
(* posts to.                                                               *)
(*                                                                         *)
(* The Collector is a process the Windows task scheduler starts again and  *)
(* again (one at a time: overlap policy IgnoreNew).  A run reads each Tech *)
(* Logic file in bounded chunks of complete lines, posts the events of the *)
(* chunk, and only then commits the patron cache and the cursor.  The      *)
(* files themselves are the queue: nothing else remembers an event.  The   *)
(* files grow, are replaced and are truncated while the run is looking;    *)
(* the process may be killed between any two steps; a request may be       *)
(* refused, answered late, or carried out after its sender gave up.        *)
(*                                                                         *)
(* A line is the event it is transformed into, or Silent if it produces    *)
(* none (a message-64 record, a dropped scan).  Offsets count lines, and   *)
(* an event of a chunk is named by the position of its line in the file.   *)
(***************************************************************************)
EXTENDS Naturals, Sequences, FiniteSets

CONSTANTS
  Sources,        \* SOURCE_ORDER, a sequence of source names
  Event,          \* event identities (event_key)
  Silent,         \* a line that produces no event
  Foreign,        \* <<source, event>> the server holds with other content
  Invalid,        \* <<source, event>> the request models refuse
  ChunkLines,     \* v2.chunk_lines
  BatchSize,      \* v2.max_events_per_request
  RunChunks,      \* v2.max_chunks_per_run
  MaxRounds,      \* _MAX_ROUNDS
  MaxReported,    \* _MAX_REPORTED_CONFLICTS
  QuarantineCap,  \* v2.quarantine_max_entries
  ErrorAfter,     \* v2.error_after_consecutive_failures
  MaxLines,       \* bound: lines in one file
  MaxGens,        \* bound: contents (replacements and truncations) of one file
  MaxFaults       \* bound: crashes, failures and lost answers

Source == {Sources[k] : k \in 1..Len(Sources)}
Line   == Event \cup {Silent}
Key    == Source \X Event
Category == {"auth", "config", "permanent", "retryable", "other"}

ASSUME DeliveryAssumption ==
  /\ Sources \in Seq(STRING)
  /\ \A j, k \in 1..Len(Sources) : Sources[j] = Sources[k] => j = k
  /\ Silent \notin Event
  /\ Foreign \subseteq Key /\ Invalid \subseteq Key
  /\ {ChunkLines, BatchSize, RunChunks, MaxRounds, MaxReported,
      QuarantineCap, ErrorAfter} \subseteq Nat \ {0}
  /\ {MaxLines, MaxGens, MaxFaults} \subseteq Nat

VARIABLES
  file,        \* per source: present?, identity, content generation, lines
  durable,     \* per source: the cursor in state_v2.json
  cached,      \* <<source, gen, line>> whose cache changes reached the SQLite file
  quarantine,  \* quarantine_v2.json: keys, oldest first
  refused,     \* history: every key the Collector ever recorded as refused
  stored,      \* the rows the server committed for this key_id
  onboarding,  \* branches.onboarding_status
  pc, at, budget, ident, chunk, todo, batch, rounds,  \* the run
  request,     \* the answer the run is waiting for
  stale,       \* requests given up by their sender and still under way
  run,         \* what the run will report
  status,      \* status_v2.json
  faults       \* faults so far

diskVars   == <<durable, cached, quarantine, status>>
serverVars == <<stored, onboarding, stale>>
runVars    == <<pc, at, budget, ident, chunk, todo, batch, rounds, request, run>>
vars == <<file, diskVars, serverVars, runVars, refused, faults>>

NoCursor  == [id |-> 0, gen |-> 0, off |-> 0]
NoChunk   == [cur |-> NoCursor, from |-> 0, line |-> <<>>, more |-> FALSE]
NoRequest == [answer |-> "none", positions |-> {}]
NoRun     == [failure |-> "none", missing |-> FALSE, quarantined |-> FALSE]

Src == Sources[at]
KeysAt(positions) == {<<Src, chunk.line[i]>> : i \in positions}
Quarantined == {quarantine[k] : k \in DOMAIN quarantine}

(* Keys that need no further delivery: the server has them, or refused them. *)
Settled == stored \cup refused

(* The n least elements of a set of numbers. *)
Least(n, S) == {i \in S : Cardinality({j \in S : j < i}) < n}

Init ==
  /\ file = [s \in Source |-> [present |-> TRUE, id |-> 1, gen |-> 1, lines |-> <<>>]]
  /\ durable = [s \in Source |-> NoCursor]
  /\ cached = {} /\ quarantine = <<>> /\ refused = {}
  /\ stored = {} /\ onboarding = "pending"
  /\ pc = "idle" /\ at = 1 /\ budget = 0 /\ ident = 0
  /\ chunk = NoChunk /\ todo = {} /\ batch = {} /\ rounds = 0
  /\ request = NoRequest /\ stale = {} /\ run = NoRun
  /\ status = [health |-> "none", failures |-> 0]
  /\ faults = 0

-----------------------------------------------------------------------------
(* Tech Logic's side of the files (outside the repository).                *)

(* A cursor names the content the file holds now. *)
Live(c, s) == c.id = file[s].id /\ c.gen = file[s].gen

(* Environment assumption: a truncated file is looked at before it grows   *)
(* back to the offset held for it, since its size is all that gives the    *)
(* truncation away (read_chunk, size < cursor.offset).                     *)
CutIsVisible(c, s, len) ==
  c.id = file[s].id /\ c.gen # file[s].gen => len < c.off \/ c.off = 0

AppendLine(s) ==
  /\ file[s].present /\ Len(file[s].lines) < MaxLines
  /\ CutIsVisible(durable[s], s, Len(file[s].lines) + 1)
  /\ chunk # NoChunk /\ Src = s => CutIsVisible(chunk.cur, s, Len(file[s].lines) + 1)
  /\ \E l \in Line : file' = [file EXCEPT ![s].lines = Append(@, l)]
  /\ UNCHANGED <<diskVars, serverVars, runVars, refused, faults>>

Remove(s) ==
  /\ file[s].present /\ file[s].gen < MaxGens
  /\ file' = [file EXCEPT ![s].present = FALSE, ![s].lines = <<>>]
  /\ UNCHANGED <<diskVars, serverVars, runVars, refused, faults>>

Recreate(s) ==
  /\ ~file[s].present
  /\ file' = [file EXCEPT ![s] =
       [present |-> TRUE, id |-> @.id + 1, gen |-> @.gen + 1, lines |-> <<>>]]
  /\ UNCHANGED <<diskVars, serverVars, runVars, refused, faults>>

Truncate(s) ==
  /\ file[s].present /\ file[s].gen < MaxGens /\ file[s].lines # <<>>
  /\ file' = [file EXCEPT ![s].gen = @ + 1, ![s].lines = <<>>]
  /\ UNCHANGED <<diskVars, serverVars, runVars, refused, faults>>

-----------------------------------------------------------------------------
(* One run of the Collector.                                               *)

Transfer == <<chunk, todo, batch, rounds, request>>
ClearTransfer ==
  chunk' = NoChunk /\ todo' = {} /\ batch' = {} /\ rounds' = 0 /\ request' = NoRequest

(* run_once_v2 up to _process_sources: the quarantine is loaded and its    *)
(* expired entries, which are the oldest, are dropped and saved.           *)
StartRun ==
  /\ pc = "idle"
  /\ \E n \in 0..Len(quarantine) : quarantine' = SubSeq(quarantine, n + 1, Len(quarantine))
  /\ pc' = "source" /\ at' = 1 /\ budget' = RunChunks /\ run' = NoRun
  /\ UNCHANGED <<file, durable, cached, status, serverVars, ident, Transfer, refused, faults>>

NextSource == pc' = "source" /\ at' = at + 1

(* The end of the source loop, and a source whose chunk budget is spent.   *)
LeaveSource ==
  /\ pc = "source"
  /\ \/ at > Len(Sources) /\ pc' = "finish" /\ UNCHANGED at
     \/ at <= Len(Sources) /\ budget = 0 /\ NextSource
  /\ UNCHANGED <<file, diskVars, serverVars, budget, ident, Transfer, run, refused, faults>>

(* Mutant: a source is read although the chunk budget is spent.            *)
Identify_IgnoresBudget ==
  /\ pc = "source" /\ at <= Len(Sources) /\ file[Src].present
  /\ pc' = "read" /\ ident' = file[Src].id
  /\ UNCHANGED <<file, diskVars, serverVars, at, budget, run, Transfer, refused, faults>>

(* reader.identify: the first look at the path. *)
Identify ==
  /\ pc = "source" /\ at <= Len(Sources) /\ budget > 0
  /\ \/ /\ file[Src].present
        /\ pc' = "read" /\ ident' = file[Src].id /\ UNCHANGED <<at, run>>
     \/ /\ ~file[Src].present
        /\ NextSource /\ run' = [run EXCEPT !.missing = TRUE] /\ UNCHANGED ident
  /\ UNCHANGED <<file, diskVars, serverVars, budget, Transfer, refused, faults>>

(* Mutant: a file no longer than the offset counts as truncated.           *)
StartOffset_OffByOne(s) ==
  IF durable[s].id # ident \/ Len(file[s].lines) <= durable[s].off THEN 0 ELSE durable[s].off

(* Where read_chunk starts and stops, given the identity seen first and    *)
(* the size and content seen now (the path may have been replaced since).  *)
StartOffset(s) ==
  IF \/ durable[s].id # ident                        \* first read, or rotated
     \/ Len(file[s].lines) < durable[s].off          \* truncated
  THEN 0 ELSE durable[s].off

ReadTo(s) ==
  IF Len(file[s].lines) < StartOffset(s) + ChunkLines
  THEN Len(file[s].lines) ELSE StartOffset(s) + ChunkLines

ChunkAt(s) ==
  [cur  |-> [id |-> ident, gen |-> file[s].gen, off |-> ReadTo(s)],
   from |-> StartOffset(s),
   line |-> [i \in (StartOffset(s) + 1)..ReadTo(s) |-> file[s].lines[i]],
   more |-> Len(file[s].lines) > ReadTo(s)]

(* The chunk's lines to send: those that make an event which the           *)
(* quarantine did not hold when the chunk was read.                        *)
Deliverable(s, line) ==
  {i \in DOMAIN line : line[i] # Silent /\ <<s, line[i]>> \notin Quarantined}

(* Mutants: a chunk with nothing to send goes without the cache commit, or *)
(* ends the run.                                                           *)
NextBatch_SkipsCache(left) ==
  /\ batch' = Least(BatchSize, left) /\ todo' = left \ Least(BatchSize, left) /\ rounds' = 0
  /\ pc' = IF left # {} THEN "post" ELSE IF pc = "read" THEN "save" ELSE "commit"

NextBatch_EndsRun(left) ==
  /\ batch' = Least(BatchSize, left) /\ todo' = left \ Least(BatchSize, left) /\ rounds' = 0
  /\ pc' = IF left # {} THEN "post" ELSE IF pc = "read" THEN "finish" ELSE "commit"

(* The next request of the chunk, or none left. *)
NextBatch(left) ==
  /\ batch' = Least(BatchSize, left) /\ todo' = left \ Least(BatchSize, left)
  /\ rounds' = 0
  /\ pc' = IF left = {} THEN "commit" ELSE "post"

(* read_next_chunk: the file is gone, has no new complete line (a cursor   *)
(* that moved is still saved), or yields a chunk to deliver.               *)
ReadChunk ==
  /\ pc = "read"
  /\ \/ /\ ~file[Src].present
        /\ NextSource /\ run' = [run EXCEPT !.missing = TRUE]
        /\ UNCHANGED <<durable, Transfer>>
     \/ /\ file[Src].present /\ StartOffset(Src) = ReadTo(Src)
        /\ NextSource
        /\ durable' = [durable EXCEPT ![Src] =
             IF @.id = ident /\ @.off = ReadTo(Src) THEN @ ELSE ChunkAt(Src).cur]
        /\ UNCHANGED <<Transfer, run>>
     \/ /\ file[Src].present /\ StartOffset(Src) < ReadTo(Src)
        /\ chunk' = ChunkAt(Src)
        /\ NextBatch(Deliverable(Src, ChunkAt(Src).line))
        /\ UNCHANGED <<durable, at, request, run>>
  /\ UNCHANGED <<file, cached, quarantine, status, serverVars, budget, ident, refused, faults>>

(* _deliver, one round: post_batch sends what is left of the batch. *)
Post ==
  /\ pc = "post" /\ rounds < MaxRounds
  /\ rounds' = rounds + 1 /\ pc' = "wait"
  /\ UNCHANGED <<file, diskVars, serverVars, at, budget, ident, chunk, todo, batch, request,
                 run, refused, faults>>

Delivered ==
  /\ pc = "wait" /\ request.answer = "ok"
  /\ NextBatch(todo) /\ request' = NoRequest
  /\ UNCHANGED <<file, diskVars, serverVars, at, budget, ident, chunk, run, refused, faults>>

LastOf(n, q) == IF Len(q) > n THEN SubSeq(q, Len(q) - n + 1, Len(q)) ELSE q

(* Quarantine.add: the keys it does not hold yet go to the end, once each  *)
(* and in the order of the request; over the cap, the oldest are dropped.  *)
AddToQuarantine(positions) ==
  LET new == {i \in positions :
                /\ <<Src, chunk.line[i]>> \notin Quarantined
                /\ \A j \in positions : j < i => chunk.line[j] # chunk.line[i]}
  IN \E order \in [1..Cardinality(new) -> new] :
       /\ \A j, k \in DOMAIN order : j < k => order[j] < order[k]
       /\ quarantine' = LastOf(QuarantineCap,
            quarantine \o [k \in DOMAIN order |-> <<Src, chunk.line[order[k]]>>])

(* Mutants: the refused events leave the batch unrecorded; they stay in it. *)
Refuse_Unrecorded ==
  /\ pc = "wait" /\ request.answer \in {"conflict", "invalid"}
  /\ run' = [run EXCEPT !.quarantined = TRUE]
  /\ request' = NoRequest
  /\ LET left == batch \ request.positions IN
       \/ left # {} /\ batch' = left /\ pc' = "post" /\ UNCHANGED <<todo, rounds>>
       \/ left = {} /\ NextBatch(todo)
  /\ UNCHANGED <<file, diskVars, serverVars, at, budget, ident, chunk, refused, faults>>

Refuse_KeepsBatch ==
  /\ pc = "wait" /\ request.answer \in {"conflict", "invalid"}
  /\ AddToQuarantine(request.positions)
  /\ refused' = refused \cup KeysAt(request.positions)
  /\ run' = [run EXCEPT !.quarantined = TRUE]
  /\ request' = NoRequest /\ pc' = "post" /\ UNCHANGED <<batch, todo, rounds>>
  /\ UNCHANGED <<file, durable, cached, status, serverVars, at, budget, ident, chunk, faults>>

(* A 409 or an event-level 422: the reported events leave the batch, the   *)
(* quarantine is saved, and what is left of the batch goes round again.    *)
Refuse ==
  /\ pc = "wait" /\ request.answer \in {"conflict", "invalid"}
  /\ AddToQuarantine(request.positions)
  /\ refused' = refused \cup KeysAt(request.positions)
  /\ run' = [run EXCEPT !.quarantined = TRUE]
  /\ request' = NoRequest
  /\ LET left == batch \ request.positions IN
       \/ left # {} /\ batch' = left /\ pc' = "post" /\ UNCHANGED <<todo, rounds>>
       \/ left = {} /\ NextBatch(todo)
  /\ UNCHANGED <<file, durable, cached, status, serverVars, at, budget, ident, chunk, faults>>

(* A failure ends the run: cache.discard(), nothing of the chunk is kept. *)
Abandon(category) ==
  /\ pc' = "finish" /\ run' = [run EXCEPT !.failure = category] /\ ClearTransfer
  /\ UNCHANGED <<file, diskVars, at, budget, ident, refused>>

(* Mutant: out of rounds, the run goes on to the next batch.               *)
TooManyRounds_GoesOn ==
  /\ pc = "post" /\ rounds >= MaxRounds
  /\ NextBatch(todo) /\ UNCHANGED <<file, diskVars, serverVars, at, budget, ident, chunk, request,
                                    run, refused, faults>>

TooManyRounds ==
  /\ pc = "post" /\ rounds >= MaxRounds
  /\ Abandon("permanent") /\ UNCHANGED <<serverVars, faults>>

(* Mutant: the batch of a failed request is recorded as refused.           *)
FailedReply_Quarantines ==
  /\ pc = "wait" /\ request.answer = "failed"
  /\ AddToQuarantine(batch) /\ refused' = refused \cup KeysAt(batch)
  /\ pc' = "finish" /\ run' = [run EXCEPT !.failure = "permanent"] /\ ClearTransfer
  /\ UNCHANGED <<file, durable, cached, status, at, budget, ident, serverVars, faults>>

FailedReply ==
  /\ pc = "wait" /\ request.answer = "failed"
  /\ \E c \in Category : Abandon(c)
  /\ UNCHANGED <<serverVars, faults>>

(* cache.commit(): the patron profiles and holds of the chunk become durable. *)
CommitCache ==
  /\ pc = "commit"
  /\ cached' = cached \cup {<<Src, chunk.cur.gen, i>> : i \in DOMAIN chunk.line}
  /\ pc' = "save"
  /\ UNCHANGED <<file, durable, quarantine, status, serverVars, at, budget, ident, Transfer,
                 run, refused, faults>>

(* Mutant: the cursor takes the size the file has now. *)
SaveCursor_SizeNow ==
  /\ pc = "save"
  /\ durable' = [durable EXCEPT ![Src] = [chunk.cur EXCEPT !.off = Len(file[Src].lines)]]
  /\ budget' = budget - 1
  /\ pc' = "source" /\ at' = IF chunk.more THEN at ELSE at + 1
  /\ ClearTransfer
  /\ UNCHANGED <<file, cached, quarantine, status, serverVars, ident, run, refused, faults>>

(* state.save_state, then on to the next chunk or the next source. *)
SaveCursor ==
  /\ pc = "save"
  /\ durable' = [durable EXCEPT ![Src] = chunk.cur]
  /\ budget' = budget - 1
  /\ pc' = "source" /\ at' = IF chunk.more THEN at ELSE at + 1
  /\ ClearTransfer
  /\ UNCHANGED <<file, cached, quarantine, status, serverVars, ident, run, refused, faults>>

(* v2_status.decide, over the failures before this run (the count is kept  *)
(* at ErrorAfter, where only "at least" matters).                          *)
Failures == IF run.failure = "none" THEN 0
            ELSE IF status.failures < ErrorAfter THEN status.failures + 1 ELSE ErrorAfter

Health ==
  CASE run.failure = "none"      -> IF run.missing \/ run.quarantined THEN "degraded" ELSE "healthy"
    [] run.failure = "retryable" -> IF Failures >= ErrorAfter THEN "error" ELSE "degraded"
    [] OTHER                     -> "error"

(* The run writes its status, best effort, and its process ends. *)
Finish ==
  /\ pc = "finish"
  /\ \/ status' = [health |-> Health, failures |-> Failures] /\ UNCHANGED faults
     \/ faults < MaxFaults /\ faults' = faults + 1 /\ UNCHANGED status
  /\ pc' = "idle" /\ at' = 1 /\ budget' = 0 /\ ident' = 0 /\ run' = NoRun
  /\ UNCHANGED <<file, durable, cached, quarantine, serverVars, Transfer, refused>>

-----------------------------------------------------------------------------
(* The server: POST /v2/upload, one database transaction.                  *)

(* Mutant: the transition looks at the rows there were before.             *)
Store_LooksBefore(keys) ==
  /\ stored' = stored \cup keys
  /\ onboarding' = IF stored = {} THEN onboarding ELSE "ready"

(* The events of these keys are inserted where missing, and the first      *)
(* insertion moves the branch from pending to ready with it.               *)
Store(keys) ==
  /\ stored' = stored \cup keys
  /\ onboarding' = IF keys \subseteq stored THEN onboarding ELSE "ready"

Malformed == {i \in batch : <<Src, chunk.line[i]>> \in Invalid}
Taken     == {i \in batch : <<Src, chunk.line[i]>> \in Foreign}

(* _store_kind: the first copy of each identity is compared with the row   *)
(* it would duplicate.                                                     *)
Conflicts == {i \in Taken : \A j \in Taken : j < i => chunk.line[j] # chunk.line[i]}

Answer(a, positions) == request' = [answer |-> a, positions |-> positions]

ServerHandle ==
  /\ pc = "wait" /\ request.answer = "none"
  /\ \/ /\ Malformed # {}
        /\ Answer("invalid", Malformed) /\ UNCHANGED <<stored, onboarding>>
     \/ /\ Malformed = {} /\ Taken # {}
        /\ Answer("conflict", Least(MaxReported, Conflicts)) /\ UNCHANGED <<stored, onboarding>>
     \/ /\ Malformed = {} /\ Taken = {}
        /\ Answer("ok", {}) /\ Store(KeysAt(batch))
  /\ UNCHANGED <<file, diskVars, stale, pc, at, budget, ident, chunk, todo, batch, rounds, run,
                 refused, faults>>

(* A request its sender gave up on is carried out after all. *)
ServerHandleStale ==
  /\ \E keys \in stale :
       /\ stale' = stale \ {keys}
       /\ IF keys \cap (Foreign \cup Invalid) = {} THEN Store(keys)
                                                  ELSE UNCHANGED <<stored, onboarding>>
  /\ UNCHANGED <<file, diskVars, runVars, refused, faults>>

-----------------------------------------------------------------------------
(* Faults.                                                                 *)

Fault == faults < MaxFaults /\ faults' = faults + 1

(* The request in flight, if the server has not answered it yet. *)
InFlight == IF pc = "wait" /\ request.answer = "none" THEN {KeysAt(batch)} ELSE {}

(* The server refuses the token, is rate-limited, or fails: nothing stored. *)
ServerFails ==
  /\ pc = "wait" /\ request.answer = "none" /\ Fault
  /\ Answer("failed", {})
  /\ UNCHANGED <<file, diskVars, serverVars, pc, at, budget, ident, chunk, todo, batch, rounds,
                 run, refused>>

(* The answer does not arrive: the request is under way still, or was      *)
(* carried out and its answer is lost.                                     *)
LoseReply ==
  /\ pc = "wait" /\ Fault
  /\ Abandon("retryable")
  /\ stale' = stale \cup InFlight
  /\ UNCHANGED <<stored, onboarding>>

(* An exception in the setup, the read, the transform, the quarantine's    *)
(* save, the cache commit or the state save.                               *)
Abort ==
  /\ \/ pc \in {"source", "read", "commit", "save"}
     \/ pc = "wait" /\ request.answer \in {"conflict", "invalid"}
  /\ Fault /\ \E c \in {"config", "other"} : Abandon(c)
  /\ UNCHANGED serverVars

(* The process or the machine stops; whatever was not written is gone. *)
Crash ==
  /\ pc # "idle" /\ Fault
  /\ pc' = "idle" /\ at' = 1 /\ budget' = 0 /\ ident' = 0 /\ run' = NoRun /\ ClearTransfer
  /\ stale' = stale \cup InFlight
  /\ UNCHANGED <<file, diskVars, stored, onboarding, refused>>

-----------------------------------------------------------------------------
Environment == \E s \in Source : AppendLine(s) \/ Remove(s) \/ Recreate(s) \/ Truncate(s)

RunStep == \/ StartRun \/ LeaveSource \/ Identify \/ ReadChunk \/ Post \/ Delivered \/ Refuse
           \/ TooManyRounds \/ FailedReply \/ CommitCache \/ SaveCursor \/ Finish

Faults == ServerFails \/ LoseReply \/ Abort \/ Crash

Next == Environment \/ RunStep \/ ServerHandle \/ ServerHandleStale \/ Faults

Spec == Init /\ [][Next]_vars

(* The scheduler starts runs for ever, a started run goes on until it ends *)
(* or fails, and the server answers.  Nothing makes a file grow, a fault   *)
(* happen, or an abandoned request be carried out.                         *)
FairSpec == Spec /\ WF_vars(RunStep) /\ WF_vars(ServerHandle)

-----------------------------------------------------------------------------
(* Properties.                                                             *)

Cursor == [id : Nat, gen : Nat, off : Nat]

FileType == file \in [Source -> [present : BOOLEAN, id : Nat, gen : Nat, lines : Seq(Line)]]

DiskType ==
  /\ durable \in [Source -> Cursor]
  /\ cached \subseteq Source \X Nat \X Nat
  /\ quarantine \in Seq(Key) /\ Len(quarantine) <= QuarantineCap
  /\ status \in [health : {"none", "healthy", "degraded", "error"}, failures : 0..ErrorAfter]

ServerType ==
  /\ refused \subseteq Key /\ stored \subseteq Key /\ stale \subseteq SUBSET Key
  /\ onboarding \in {"pending", "ready"}
  /\ faults \in 0..MaxFaults

RunType ==
  /\ pc \in {"idle", "source", "read", "post", "wait", "commit", "save", "finish"}
  /\ at \in 1..(Len(Sources) + 1) /\ budget \in 0..RunChunks /\ ident \in Nat
  /\ pc \in {"read", "post", "wait", "commit", "save"} => at <= Len(Sources) /\ budget > 0
  /\ run \in [failure : Category \cup {"none"}, missing : BOOLEAN, quarantined : BOOLEAN]

TransferType ==
  /\ chunk.cur \in Cursor /\ chunk.from \in Nat /\ chunk.more \in BOOLEAN
  /\ chunk.line \in [(chunk.from + 1)..chunk.cur.off -> Line]
  /\ batch \cup todo \subseteq {i \in DOMAIN chunk.line : chunk.line[i] # Silent}
  /\ request.answer \in {"none", "ok", "conflict", "invalid", "failed"}
  /\ request.positions \subseteq batch /\ (pc # "wait" => request = NoRequest)
  /\ rounds \in 0..MaxRounds

(* Every variable keeps to its type; a chunk's lines lie between where it  *)
(* started and where its cursor points, what is sent are lines of it, the  *)
(* quarantine keeps to its cap and a run to its chunks and its rounds.     *)
TypeOK == FileType /\ DiskType /\ ServerType /\ RunType /\ TransferType

(* What holds between any two steps and makes the safety properties        *)
(* inductive.  A chunk in flight continues the saved cursor, or starts     *)
(* from nothing; while the file still is the one it was read from, its     *)
(* lines are the file's; and each is settled, silent, or still to be sent. *)
InFlow == pc \in {"post", "wait", "commit", "save"}

FilesInv ==
  \A s \in Source :
    /\ ~file[s].present => file[s].lines = <<>>
    /\ durable[s].id <= file[s].id /\ durable[s].gen <= file[s].gen
    /\ CutIsVisible(durable[s], s, Len(file[s].lines))
    /\ Live(durable[s], s) /\ file[s].present => durable[s].off <= Len(file[s].lines)

ReadInv ==
  pc = "read" \/ InFlow => durable[Src].id <= ident /\ ident <= file[Src].id

ChunkInv ==
  InFlow =>
    /\ chunk.cur.id = ident /\ chunk.cur.gen <= file[Src].gen /\ chunk.from < chunk.cur.off
    /\ CutIsVisible(chunk.cur, Src, Len(file[Src].lines))
    /\ Live(chunk.cur, Src) /\ file[Src].present =>
         /\ chunk.cur.off <= Len(file[Src].lines)
         /\ \A i \in DOMAIN chunk.line : file[Src].lines[i] = chunk.line[i]
    /\ chunk.from # 0 =>
         /\ durable[Src].off = chunk.from
         /\ Live(chunk.cur, Src) => Live(durable[Src], Src)
    /\ \A i \in DOMAIN chunk.line :
         chunk.line[i] = Silent \/ <<Src, chunk.line[i]>> \in Settled \/ i \in batch \cup todo
    /\ pc \in {"commit", "save"} => batch = {} /\ todo = {}
    /\ pc = "save" => \A i \in DOMAIN chunk.line : <<Src, chunk.cur.gen, i>> \in cached

AnswerInv ==
  /\ pc = "wait" /\ request.answer = "ok" => KeysAt(batch) \subseteq stored
  /\ pc = "wait" => KeysAt(request.positions) \subseteq Foreign \cup Invalid

DeliveryInv == FilesInv /\ ReadInv /\ ChunkInv /\ AnswerInv /\ Quarantined \subseteq refused

(* What makes the cursor's movement provable as well: a file replaced      *)
(* since the run looked at its path has newer content than the saved       *)
(* cursor, and a chunk in flight is never behind that cursor.              *)
ForwardInv ==
  /\ pc = "read" \/ InFlow => ident = file[Src].id \/ durable[Src].gen < file[Src].gen
  /\ InFlow =>
       /\ durable[Src].gen <= chunk.cur.gen
       /\ durable[Src].id = chunk.cur.id /\ durable[Src].gen = chunk.cur.gen
            => durable[Src].off <= chunk.cur.off

(* A cursor on disk never passes an undelivered event: every line below    *)
(* the offset saved for the present content of a file made no event, or    *)
(* one the server stored, or one it refused and the Collector recorded.    *)
(* Crashes, lost answers, rotations under the reader and a quarantine that *)
(* forgets included (v2_run._process_sources, "delivered or quarantined"). *)
CommittedIsSettled ==
  \A s \in Source : Live(durable[s], s) =>
    \A i \in 1..durable[s].off \cap DOMAIN file[s].lines :
      file[s].lines[i] = Silent \/ <<s, file[s].lines[i]>> \in Settled

(* Cache first, cursor second: no line is below the saved offset while its *)
(* patron profiles are not in the cache file (v2_run.py, the comment on    *)
(* the two commits).                                                       *)
CacheCoversCursor ==
  \A s \in Source : Live(durable[s], s) =>
    \A i \in 1..durable[s].off : <<s, durable[s].gen, i>> \in cached

(* Giving up on an event is the server's decision alone, and final on both *)
(* sides: what the Collector recorded as refused the server would never    *)
(* take, and what it took, by whatever request, was never refusable.       *)
OnlyRefusableIsSkipped ==
  /\ refused \subseteq Foreign \cup Invalid
  /\ stored \cap (Foreign \cup Invalid) = {}

(* The branch turns ready with its first rows and not a transaction later, *)
(* whichever request, on time or abandoned, stored them (main.upload_v2).  *)
PendingHasNoData == onboarding = "pending" <=> stored = {}

(* A saved cursor goes back only when the file was replaced or cut. *)
NeverGoesBack ==
  [][\A s \in Source :
       (durable[s].id = durable'[s].id /\ durable[s].gen = durable'[s].gen)
         => durable[s].off <= durable'[s].off]_vars

(* Every event written to a file is settled, or its file is replaced       *)
(* before: no refusal, failure or eviction from the quarantine makes the   *)
(* Collector go round in circles.                                          *)
Waiting(s, e) ==
  (\E i \in DOMAIN file[s].lines : file[s].lines[i] = e) /\ <<s, e>> \notin Settled
EverythingSettles == \A s \in Source, e \in Event : Waiting(s, e) ~> ~Waiting(s, e)

(* ... and its line is in the end below the saved cursor.                  *)
CaughtUp(s) ==
  \/ ~file[s].present \/ file[s].lines = <<>>
  \/ Live(durable[s], s) /\ durable[s].off = Len(file[s].lines)
EveryCursorCatchesUp == \A s \in Source : []<>CaughtUp(s)

(* The source files, the cursors and what is settled are the queue of      *)
(* FileQueue; the run, the requests and the crashes are its stutters.      *)
Queue == INSTANCE FileQueue WITH
  log     <- [s \in Source |-> file[s].lines],
  mark    <- [s \in Source |-> IF file[s].present /\ Live(durable[s], s) THEN durable[s].off ELSE 0],
  settled <- Settled
ImplementsQueue == Queue!Spec
=============================================================================
