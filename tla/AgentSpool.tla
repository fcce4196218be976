----------------------------- MODULE AgentSpool -----------------------------
(***************************************************************************)
(* The continuous agent, one of its sources: a collector thread that tails *)
(* a Tech Logic file into a directory of batch files, an uploader thread   *)
(* that drains the directory, and the /upload transaction behind it.  The  *)
(* two threads share the directory and nothing else; the sources share     *)
(* nothing at all.                                                         *)
(*                                                                         *)
(* An event is named <<generation, offset of its line>>.  The generation   *)
(* counts the discontinuities (rotations, truncations) of the source and   *)
(* is saved together with the cursor, after the batches that carry it.     *)
(* The server keeps the first row of each name and drops the rest.         *)
(*                                                                         *)
(* A line is "event", "silent" (no event is parsed from it) or "poison"    *)
(* (an event the server refuses for good).  Offsets count lines.  Batch    *)
(* files whose names differ in their time stamp alone, and which hold the  *)
(* same records, count as one.                                             *)
(***************************************************************************)
EXTENDS Naturals, Sequences, FiniteSets

CONSTANTS
  Logs,           \* what the file may grow to: sequences of kinds of lines
  Modes,          \* the bootstrap modes the configuration may name
  BatchMax,       \* batch_max_events
  Budgets,        \* what uploader_max_isolation_requests may be
  Overtake,       \* may the file change while its generation is not saved?
  MaxContents,    \* bound: contents (replacements and truncations) of the file
  MaxFaults       \* bound: crashes, stops, failures and misread identities

ASSUME AgentAssumption ==
  /\ Logs \subseteq Seq({"event", "silent", "poison"})
  /\ Modes \subseteq {"REPLAY", "NORMAL"} /\ Overtake \in BOOLEAN
  /\ BatchMax \in Nat \ {0} /\ Budgets \subseteq Nat \ {0}
  /\ MaxContents \in Nat \ {0} /\ MaxFaults \in Nat

VARIABLES
  budget,       \* uploader_max_isolation_requests
  file,         \* present?, identity, content number, lines
  saved,        \* agent state file: cursor and generation
  skipped,      \* history: lines a NORMAL bootstrap passed over
  pc,           \* the collector: down, up, look, write, save
  live,         \* read cursor and generation, in memory
  ident,        \* the identity this poll saw
  suspect,      \* a discontinuity seen once
  buf, due,     \* events not spooled yet, and is their time up?
  done,         \* chunks of the buffer that are spooled already
  after,        \* what follows the flush: another poll, a confirmed read, exit
  spool,        \* pending batch files
  job,          \* the batch the uploader works on
  rows,         \* the server's rows
  quarantined,  \* records in the quarantine directory
  faults

collectorVars == <<pc, live, ident, suspect, buf, due, done, after>>
uploaderVars  == <<job, rows, quarantined>>
vars == <<budget, file, saved, skipped, collectorVars, spool, uploaderVars, faults>>

Nowhere == [id |-> 0, content |-> 0, off |-> 0, gen |-> 0]
NoState == Nowhere
Calm    == [kind |-> "none", id |-> 0]
ThenPoll == [then |-> "poll", cur |-> Nowhere, events |-> <<>>]
ThenExit == [ThenPoll EXCEPT !.then = "exit"]
NoJob   == [batch |-> [gen |-> 0, from |-> 0, to |-> 0, events |-> <<>>],
            todo |-> <<>>, bad |-> {}, left |-> FALSE, used |-> 0]

Init ==
  /\ budget \in Budgets
  /\ file = [present |-> TRUE, id |-> 1, content |-> 1, lines |-> <<>>]
  /\ saved = NoState /\ skipped = {}
  /\ pc = "down" /\ live = Nowhere /\ ident = 0 /\ suspect = Calm
  /\ buf = <<>> /\ due = FALSE /\ done = 0 /\ after = ThenPoll
  /\ spool = {} /\ job = NoJob /\ rows = {} /\ quarantined = {}
  /\ faults = 0

Fault == faults < MaxFaults /\ faults' = faults + 1

Events(b) == {b.events[k] : k \in DOMAIN b.events}
Spooled   == (UNION {Events(b) : b \in spool}) \cup rows \cup quarantined
Size      == Len(file.lines)

-----------------------------------------------------------------------------
(* The file (Tech Logic's, outside the repository).                        *)

(* Environment assumptions.  A cut is looked at, twice in a row, before    *)
(* the file grows back to an offset held for it.  And, unless Overtake,    *)
(* the file is not replaced while a generation in use is unsaved, nor      *)
(* between the two looks of a poll that confirms a discontinuity or looks  *)
(* again at lines spooled before a crash, nor is it cut while the saved    *)
(* offset is zero.                                                         *)
CutIsVisible(c, len) ==
  c.id = file.id /\ c.content # file.content => len < c.off \/ c.off = 0

GenerationIsSaved ==
  /\ saved # NoState /\ \A r \in Spooled : r.gen <= saved.gen
  /\ pc # "down" => live.gen = saved.gen /\ after.then # "absorb"
  /\ pc = "look" => suspect = Calm /\ \A r \in Spooled : r.gen < live.gen \/ r.at <= live.off

AppendLine ==
  /\ file.present
  /\ \A c \in {saved, live, after.cur} : CutIsVisible(c, Size + 1)
  /\ \E log \in Logs :
       /\ Size < Len(log) /\ file.lines = SubSeq(log, 1, Size)
       /\ file' = [file EXCEPT !.lines = Append(@, log[Size + 1])]
  /\ UNCHANGED <<budget, saved, skipped, collectorVars, spool, uploaderVars, faults>>

Remove ==
  /\ file.present /\ file.content < MaxContents
  /\ file' = [file EXCEPT !.present = FALSE, !.lines = <<>>]
  /\ UNCHANGED <<budget, saved, skipped, collectorVars, spool, uploaderVars, faults>>

Recreate ==
  /\ ~file.present /\ (Overtake \/ GenerationIsSaved)
  /\ file' = [present |-> TRUE, id |-> file.id + 1, content |-> file.content + 1, lines |-> <<>>]
  /\ UNCHANGED <<budget, saved, skipped, collectorVars, spool, uploaderVars, faults>>

Truncate ==
  /\ file.present /\ file.content < MaxContents /\ file.lines # <<>>
  /\ Overtake \/ (GenerationIsSaved /\ saved.off > 0)
  /\ file' = [file EXCEPT !.content = @ + 1, !.lines = <<>>]
  /\ UNCHANGED <<budget, saved, skipped, collectorVars, spool, uploaderVars, faults>>

-----------------------------------------------------------------------------
(* The collector thread.                                                   *)

(* A new process: the saved state, or the bootstrap.  NORMAL seeds at the  *)
(* end of the file and saves that; a failure to save is logged, and the    *)
(* cursor is used all the same.                                            *)
Start ==
  /\ pc = "down" /\ pc' = "up"
  /\ \/ /\ saved # NoState \/ "REPLAY" \in Modes
        /\ live' = saved /\ UNCHANGED <<saved, skipped, faults>>
     \/ /\ saved = NoState /\ "NORMAL" \in Modes /\ file.present
        /\ live' = [id |-> file.id, content |-> file.content, off |-> Size, gen |-> 0]
        /\ skipped' = skipped \cup {<<file.content, i>> : i \in 1..Size}
        /\ \/ saved' = live' /\ UNCHANGED faults
           \/ UNCHANGED saved /\ Fault
  /\ UNCHANGED <<budget, file, ident, suspect, buf, due, done, after, spool, uploaderVars>>

(* _should_flush, decided at the end of every poll. *)
FlushOrRest(b) == IF b # <<>> /\ (due \/ Len(b) >= BatchMax) THEN "write" ELSE "up"

(* batch_max_seconds since the first buffered event. *)
TimeIsUp ==
  /\ buf # <<>> /\ ~due /\ due' = TRUE
  /\ UNCHANGED <<budget, file, saved, skipped, pc, live, ident, suspect, buf, done, after, spool,
                 uploaderVars, faults>>

(* discovery.identify, the first look of read_new_lines. *)
Look ==
  /\ pc = "up" /\ file.present /\ pc' = "look" /\ ident' = file.id
  /\ UNCHANGED <<budget, file, saved, skipped, live, suspect, buf, due, done, after, spool,
                 uploaderVars, faults>>

(* ... which on the real machine was seen to return a wrong identity once. *)
(* A cursor that has no identity yet takes the first one at its word: that *)
(* look is assumed to be right.                                            *)
Misread ==
  /\ pc = "up" /\ file.present /\ pc' = "look" /\ live.id # 0
  /\ Fault /\ ident' = MaxContents + 1 + faults
  /\ UNCHANGED <<budget, file, saved, skipped, live, suspect, buf, due, done, after, spool, uploaderVars>>

(* The file is not there: only what is buffered matters. *)
Missing ==
  /\ ~file.present
  /\ pc = "look" \/ (pc = "up" /\ FlushOrRest(buf) = "write")
  /\ pc' = FlushOrRest(buf) /\ ident' = 0
  /\ UNCHANGED <<budget, file, saved, skipped, live, suspect, buf, due, done, after, spool,
                 uploaderVars, faults>>

Discontinuity ==
  CASE live.id = 0        -> "none"
    [] live.id # 0 /\ live.id # ident -> "rotated"
    [] live.id = ident    -> IF Size < live.off THEN "truncated" ELSE "none"

From == IF Discontinuity = "none" THEN live.off ELSE 0

(* The events of the lines read, named under a generation.  They are torn  *)
(* if the path was replaced between the two looks.                         *)
EventAt(i, gen) ==
  [gen |-> gen, at |-> i, of |-> file.content, bad |-> file.lines[i] = "poison", torn |-> ident # file.id]
EventsUpTo(gen) ==
  LET upTo[i \in 0..Size] ==
        IF i <= From THEN <<>>
        ELSE IF file.lines[i] = "silent" THEN upTo[i - 1] ELSE Append(upTo[i - 1], EventAt(i, gen))
  IN upTo
EventsRead(gen) == EventsUpTo(gen)[Size]

Result(gen) == [id |-> ident, content |-> file.content, off |-> Size, gen |-> gen]

Sighting == [kind |-> Discontinuity, id |-> IF Discontinuity = "rotated" THEN ident ELSE 0]

(* Mutants: the first sighting is taken for a confirmation; a truncation   *)
(* keeps the generation.                                                   *)
Confirms_AtOnce == Discontinuity # "none"
NextGeneration_Rotated == IF Discontinuity = "rotated" THEN live.gen + 1 ELSE live.gen

Confirms == Discontinuity # "none" /\ suspect = Sighting
NextGeneration == live.gen + 1

(* A first sighting is withheld: nothing moves, the read is discarded. *)
Withhold ==
  /\ pc = "look" /\ file.present
  /\ Discontinuity # "none" /\ ~Confirms
  /\ suspect' = Sighting /\ pc' = FlushOrRest(buf) /\ ident' = 0
  /\ UNCHANGED <<budget, file, saved, skipped, live, buf, due, done, after, spool, uploaderVars,
                 faults>>

(* Mutants: a cursor is saved whenever a read has no events; a batch is    *)
(* written when it is full only.                                           *)
Absorb_SavesEarly(cur, events, old) ==
  /\ live' = cur /\ buf' = old \o events
  /\ pc' = IF events = <<>> THEN "save" ELSE FlushOrRest(buf')

Absorb_NoTimer(cur, events, old) ==
  /\ live' = cur /\ buf' = old \o events
  /\ pc' = IF buf' = <<>> THEN "save" ELSE IF Len(buf') >= BatchMax THEN "write" ELSE "up"

(* The read takes effect: events to the buffer, then save or flush. *)
Absorb(cur, events, old) ==
  /\ live' = cur /\ buf' = old \o events
  /\ pc' = IF buf' = <<>> THEN "save" ELSE FlushOrRest(buf')

ReadOn ==
  /\ pc = "look" /\ file.present /\ Discontinuity = "none"
  /\ suspect' = Calm /\ ident' = 0
  /\ Absorb(Result(live.gen), EventsRead(live.gen), buf)
  /\ UNCHANGED <<budget, file, saved, skipped, due, done, after, spool, uploaderVars, faults>>

(* The second sighting of the same: what is buffered is flushed under the  *)
(* old generation, then the read takes effect under the next.              *)
Confirm ==
  /\ pc = "look" /\ file.present /\ Confirms
  /\ suspect' = Calm /\ ident' = 0
  /\ LET cur == Result(NextGeneration)  events == EventsRead(NextGeneration)
     IN IF buf = <<>>
        THEN Absorb(cur, events, <<>>) /\ UNCHANGED <<due, after>>
        ELSE /\ pc' = "write" /\ after' = [then |-> "absorb", cur |-> cur, events |-> events]
             /\ UNCHANGED <<live, buf, due>>
  /\ UNCHANGED <<budget, file, saved, skipped, done, spool, uploaderVars, faults>>

(* _flush: the chunks of the buffer one by one, each a durable file. *)
Chunk(k) ==
  SubSeq(buf, k * BatchMax + 1, IF (k + 1) * BatchMax < Len(buf) THEN (k + 1) * BatchMax ELSE Len(buf))

BatchFile(k) ==
  [gen |-> buf[1].gen, from |-> Chunk(k)[1].at - 1, events |-> Chunk(k),
   to  |-> IF (k + 1) * BatchMax < Len(buf) THEN buf[(k + 1) * BatchMax + 1].at - 1 ELSE live.off]

WriteBatch ==
  /\ pc = "write" /\ spool' = spool \cup {BatchFile(done)}
  /\ IF (done + 1) * BatchMax < Len(buf)
     THEN done' = done + 1 /\ UNCHANGED <<pc, buf, due>>
     ELSE pc' = "save" /\ buf' = <<>> /\ due' = FALSE /\ done' = 0
  /\ UNCHANGED <<budget, file, saved, skipped, live, ident, suspect, after, uploaderVars, faults>>

(* The process is gone, and what was in its memory. *)
Down ==
  /\ pc' = "down" /\ live' = Nowhere /\ ident' = 0 /\ suspect' = Calm
  /\ buf' = <<>> /\ due' = FALSE /\ done' = 0 /\ after' = ThenPoll /\ job' = NoJob

(* _persist_state, and on with the poll or out of the process. *)
SaveState ==
  /\ pc = "save" /\ saved' = live
  /\ \/ after.then = "exit" /\ Down
     \/ /\ after.then # "exit" /\ after' = ThenPoll
        /\ IF after.then = "absorb" THEN Absorb(after.cur, after.events, <<>>)
                                   ELSE pc' = "up" /\ UNCHANGED <<live, buf>>
        /\ UNCHANGED <<ident, suspect, due, done, job>>
  /\ UNCHANGED <<budget, file, skipped, spool, rows, quarantined, faults>>

(* An orderly stop: force_flush, then the end of the process. *)
Stop ==
  /\ pc = "up" /\ buf # <<>> /\ Fault /\ pc' = "write" /\ after' = ThenExit
  /\ UNCHANGED <<budget, file, saved, skipped, live, ident, suspect, buf, due, done, spool, uploaderVars>>

(* write_batch or save_state raises; the loop logs it and polls again.     *)
CollectorFails ==
  /\ pc \in {"write", "save"} /\ after.then # "exit" /\ Fault
  /\ pc' = "up" /\ done' = 0 /\ after' = ThenPoll
  /\ UNCHANGED <<budget, file, saved, skipped, live, ident, suspect, buf, due, spool, uploaderVars>>

Crash ==
  /\ pc # "down" /\ Fault /\ Down
  /\ UNCHANGED <<budget, file, saved, skipped, spool, rows, quarantined>>

-----------------------------------------------------------------------------
(* The uploader thread and the server.                                     *)

Half(recs) == <<SubSeq(recs, 1, Len(recs) \div 2), SubSeq(recs, Len(recs) \div 2 + 1, Len(recs))>>

(* Mutant: batches in the order of their offsets alone. *)
Older_ByOffset(b, c) == b.from < c.from \/ (b.from = c.from /\ b.to < c.to)

(* list_pending_batches: by generation, then by offsets. *)
Older(b, c) ==
  \/ b.gen < c.gen
  \/ b.gen = c.gen /\ (b.from < c.from \/ (b.from = c.from /\ b.to < c.to))

(* The oldest batch, whole or, if it is over the byte budget, in halves.   *)
Pick ==
  /\ pc # "down" /\ job = NoJob
  /\ \E b \in spool :
       /\ \A c \in spool : ~Older(c, b)
       /\ \E whole \in {TRUE, Len(b.events) = 1} :
            job' = [NoJob EXCEPT !.batch = b, !.todo = IF whole THEN <<b.events>> ELSE Half(b.events)]
  /\ UNCHANGED <<budget, file, saved, skipped, collectorVars, spool, rows, quarantined, faults>>

Sending == job.todo # <<>>

(* Mutant: the budget ends a request early. *)
Exhausted_OneEarly == job.used + 1 >= budget

Exhausted == job.used >= budget

Head1 == job.todo[1]
Poisoned == \E k \in DOMAIN Head1 : Head1[k].bad

(* INSERT ... ON CONFLICT DO NOTHING, in the order of the request. *)
Insert(recs) ==
  rows' = rows \cup {recs[k] : k \in {n \in DOMAIN recs :
    \A r \in rows : r.gen # recs[n].gen \/ r.at # recs[n].at}}

(* The budget is spent: what is left of the batch stays pending. *)
SkipRequest ==
  /\ Sending /\ Exhausted
  /\ job' = [job EXCEPT !.todo = Tail(@), !.left = TRUE]
  /\ UNCHANGED <<budget, file, saved, skipped, collectorVars, spool, rows, quarantined, faults>>

(* A request is stored, or refused and halved, or one record refused.      *)
Accepted ==
  /\ Sending /\ ~Exhausted /\ ~Poisoned
  /\ Insert(Head1)
  /\ job' = [job EXCEPT !.todo = Tail(@), !.used = @ + 1]
  /\ UNCHANGED <<budget, file, saved, skipped, collectorVars, spool, quarantined, faults>>

Rejected ==
  /\ Sending /\ ~Exhausted /\ Poisoned
  /\ job' = IF Len(Head1) = 1
            THEN [job EXCEPT !.todo = Tail(@), !.used = @ + 1, !.bad = @ \cup {Head1[1]}]
            ELSE [job EXCEPT !.todo = Half(Head1) \o Tail(@), !.used = @ + 1]
  /\ UNCHANGED <<budget, file, saved, skipped, collectorVars, spool, rows, quarantined, faults>>

(* No answer, 5xx, 429, 401, 403: stays pending, and the next half is      *)
(* tried; the request may have been carried out.                           *)
NoAnswer ==
  /\ Sending /\ ~Exhausted /\ Fault
  /\ \/ UNCHANGED rows
     \/ ~Poisoned /\ Insert(Head1)
  /\ job' = [job EXCEPT !.todo = Tail(@), !.used = @ + 1, !.left = TRUE]
  /\ UNCHANGED <<budget, file, saved, skipped, collectorVars, spool, quarantined>>

(* Mutant: a batch is resolved when nothing of it is left to send. *)
Resolved_NothingToSend == TRUE
Resolved == ~job.left

(* Everything resolved: quarantine first, then delete the batch. *)
Quarantine ==
  /\ job # NoJob /\ ~Sending /\ Resolved /\ job.bad # {}
  /\ quarantined' = quarantined \cup job.bad /\ job' = [job EXCEPT !.bad = {}]
  /\ UNCHANGED <<budget, file, saved, skipped, collectorVars, spool, rows, faults>>

Acknowledge ==
  /\ job # NoJob /\ ~Sending /\ Resolved /\ job.bad = {}
  /\ spool' = spool \ {job.batch} /\ job' = NoJob
  /\ UNCHANGED <<budget, file, saved, skipped, collectorVars, rows, quarantined, faults>>

(* Not everything: the file stays as it is, for another cycle. *)
Retry ==
  /\ job # NoJob /\ ~Sending /\ ~Resolved /\ job' = NoJob
  /\ UNCHANGED <<budget, file, saved, skipped, collectorVars, spool, rows, quarantined, faults>>

-----------------------------------------------------------------------------
Environment == AppendLine \/ Remove \/ Recreate \/ Truncate

CollectorStep == Start \/ Look \/ Missing \/ Withhold \/ ReadOn \/ Confirm \/ WriteBatch \/ SaveState

UploaderStep ==
  Pick \/ SkipRequest \/ Accepted \/ Rejected \/ Quarantine \/ Acknowledge \/ Retry

Faults == Misread \/ Stop \/ CollectorFails \/ Crash \/ NoAnswer

Next == Environment \/ CollectorStep \/ TimeIsUp \/ UploaderStep \/ Faults

(* Both threads go on, the service manager restarts a process that ended,  *)
(* and time passes.  Nothing makes the file change or a fault happen.      *)
Spec == Init /\ [][Next]_vars /\ WF_vars(CollectorStep) /\ WF_vars(UploaderStep) /\ WF_vars(TimeIsUp)

-----------------------------------------------------------------------------
(* Properties.                                                             *)

(* A record torn by a replacement between the two looks of one poll is     *)
(* exempt below: its line is read again under the next generation.         *)
Whole == {r \in Spooled : ~r.torn}

(* "The cursor may lag durable capture, but must never lead durable        *)
(* capture": every event below the offset saved for the file as it is now  *)
(* is in the spool, on the server or in quarantine (collector.py).         *)
CursorNeverLeads ==
  saved.id = file.id /\ saved.content = file.content =>
    \A i \in 1..saved.off \cap DOMAIN file.lines :
      \/ file.lines[i] = "silent" \/ <<file.content, i>> \in skipped
      \/ \E r \in Whole : r.of = file.content /\ r.at = i

(* A record leaves the spool for the server's table or for quarantine, and *)
(* it is that record that is there, not another of its name.               *)
NothingDropped == [][Spooled \subseteq Spooled']_vars

(* A name is given to one line only, across crashes, rotations seen once   *)
(* or twice and batches written again: "the SAME record produces the SAME  *)
(* id", and no other does (event_identity.py).                             *)
OneLinePerName ==
  \A r, q \in Spooled : r.gen = q.gen /\ r.at = q.at => r.of = q.of

(* A line goes out under one name only, however often its file is re-read  *)
(* and whatever identity a single look returned for it.                    *)
OneNamePerLine ==
  \A r, q \in Whole : r.of = q.of /\ r.at = q.at => r.gen = q.gen

(* Both: names and lines correspond one to one.                            *)
NamesAreLines == OneLinePerName /\ OneNamePerLine

(* A row is first stored only when every pending record of a smaller name  *)
(* is stored, or quarantined, or part of the batch being sent.             *)
OldestFirst ==
  [][\A r \in rows' \ rows : \A q \in UNION {Events(b) : b \in spool} :
       q.gen < r.gen \/ (q.gen = r.gen /\ q.at < r.at) =>
         \E p \in rows' \cup quarantined \cup Events(job.batch) : p.gen = q.gen /\ p.at = q.at]_vars

(* Again and again, everything in the file is captured: what a read        *)
(* withheld, a failed flush or a restart left behind is read once more.    *)
Captured ==
  \A i \in DOMAIN file.lines :
    \/ file.lines[i] = "silent" \/ <<file.content, i>> \in skipped
    \/ \E r \in Whole : r.of = file.content /\ r.at = i
EventsAreSpooled == []<>Captured

(* The spool drains: poison is isolated within the request budget, and a   *)
(* refused record never holds up what is behind it (uploader.py).  That    *)
(* takes as many requests as a batch of refused records has halves.        *)
SpoolDrains == budget >= 2 * BatchMax - 1 => []<>(spool = {})
=============================================================================
