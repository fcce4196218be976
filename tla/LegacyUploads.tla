--------------------------- MODULE LegacyUploads ---------------------------
(***************************************************************************)
(* The uploads of the first contract: the Collector's one-shot run, and    *)
(* the scheduled pipeline it took over from, each reading the sorter's     *)
(* files from a saved position, sending what is new batch by batch, and    *)
(* saving the new position afterwards.                                     *)
(*                                                                         *)
(* A line has two halves, and a position counts halves: the sorter may be  *)
(* in the middle of a line.  Rejects.txt is read like Checkins.txt.        *)
(***************************************************************************)
EXTENDS PipelineStatus, FiniteSets

CONSTANTS
  Pasts,       \* what there is to begin with: the programs installed, the lines to come, ...
  MaxBatch     \* max_records_per_batch, MAX_RECORDS_PER_REQUEST

VARIABLES
  past,        \* the member of Pasts
  files,       \* the sorter's files
  coming,      \* the lines each file has yet to get
  committed,   \* each program's state file
  run,         \* each program's run
  stored,      \* the server's tables: how many rows there are of a key
  skipped,     \* history: the lines that the bootstrap went past
  trouble      \* bound: what has gone wrong or changed so far

vars == <<statusVars, past, files, coming, committed, run, stored, skipped, trouble>>

Collector == "collector"
Pipeline  == "pipeline"
Order     == <<"checkins", "acs">>
Source    == {"checkins", "acs"}
NoBarcode == "none"

None == [s \in Source |-> <<>>]
Line(time, barcode, dated) == [time |-> time, barcode |-> barcode, dated |-> dated]

(* A file is known by its inode; the second part tells what was in it      *)
(* before it was emptied.                                                  *)
File(exists, id, lines, half, writes) ==
  [exists |-> exists, id |-> id, lines |-> lines, half |-> half, writes |-> writes]
Size(file) == 2 * Len(file.lines) - (IF file.half THEN 1 ELSE 0)
Complete(file) == Len(file.lines) - (IF file.half THEN 1 ELSE 0)

(* Positions, where there are any, over older ones. *)
Over(new, old) == [s \in DOMAIN new \cup DOMAIN old |-> IF s \in DOMAIN new THEN new[s] ELSE old[s]]
Nothing == [id |-> <<0, 0>>, at |-> 0]

(* The programs there are, and lines as the parsers read them.             *)
ASSUME UploadsAssumption ==
  /\ MaxBatch \in Nat \ {0}
  /\ \A p \in Pasts :
       /\ p = [programs |-> p.programs, old |-> p.old, lines |-> p.lines, halves |-> p.halves, trouble |-> p.trouble,
               bootstrap |-> p.bootstrap, mayChange |-> p.mayChange, mayCutOver |-> p.mayCutOver, reporters |-> p.reporters]
       /\ p.programs \subseteq {Collector, Pipeline} /\ p.halves \in BOOLEAN
       /\ \A s \in Source : \A lines \in {p.old[s], p.lines[s]} :
            /\ lines \in Seq(Range(lines))
            /\ \A line \in Range(lines) : line = Line(line.time, line.barcode, line.dated) /\ line.dated \in BOOLEAN
       /\ p.lines = [s \in Source |-> p.lines[s]]

NoFile  == [kind |-> "absent"]
Damaged == [kind |-> "damaged"]
StateFile(at, stat) == [kind |-> "saved", at |-> at, stat |-> stat]
Idle    == [pc |-> "idle"]

Init ==
  /\ StatusInit
  /\ past \in Pasts
  /\ files = [s \in Source |-> File(TRUE, <<1, 0>>, past.old[s], FALSE, 0)]
  /\ coming = past.lines
  /\ committed = [p \in {Collector, Pipeline} |-> NoFile]
  /\ run = [p \in {Collector, Pipeline} |-> Idle]
  /\ stored = <<>> /\ skipped = {} /\ trouble = 0

-----------------------------------------------------------------------------
(* The sorter, which writes a line at a time or half of one, and whoever   *)
(* replaces, empties or takes away a file.                                 *)
Trouble == trouble < past.trouble /\ trouble' = trouble + 1

Cursors(p) ==
  (IF committed[p].kind = "saved" THEN {committed[p].at} ELSE {})
    \cup (IF run[p].pc \in {"read", "send", "save", "bootstrap"} THEN {run[p].read} ELSE {})

(* An emptied file that has outgrown a cursor saved before looks as if it  *)
(* had only grown: a run comes first.                                      *)
Outgrown(s, file) ==
  \E cursors \in Cursors(Collector) :
    /\ s \in DOMAIN cursors
    /\ cursors[s].id[1] = file.id[1] /\ cursors[s].id # file.id
    /\ Size(file) >= cursors[s].at

Change(s, exists, id, lines, half) ==
  /\ LET file == File(exists, id, lines, half, files[s].writes + 1) IN
       ~Outgrown(s, file) /\ files' = [files EXCEPT ![s] = file]
  /\ UNCHANGED <<statusVars, past, committed, run, stored, skipped>>

WriteLine(s) ==
  /\ files[s].exists /\ ~files[s].half /\ coming[s] # <<>>
  /\ \E half \in {FALSE, past.halves} :
       Change(s, TRUE, files[s].id, Append(files[s].lines, coming[s][1]), half)
  /\ coming' = [coming EXCEPT ![s] = Tail(@)] /\ UNCHANGED trouble

FinishLine(s) ==
  /\ files[s].half
  /\ Change(s, TRUE, files[s].id, files[s].lines, FALSE)
  /\ UNCHANGED <<coming, trouble>>

ReplaceFile(s) ==
  /\ past.mayChange /\ Trouble
  /\ \E exists \in {TRUE, files[s].exists = FALSE} :
       Change(s, exists, <<files[s].id[1] + 1, 0>>, <<>>, FALSE)
  /\ UNCHANGED coming

EmptyFile(s) ==
  /\ past.mayChange /\ Trouble /\ files[s].exists
  /\ Change(s, TRUE, <<files[s].id[1], files[s].id[2] + 1>>, <<>>, FALSE)
  /\ UNCHANGED coming

-----------------------------------------------------------------------------
(* What a program makes of the text it has read.  A line without a usable  *)
(* time is left out, by the pipeline only if it is of the ACS log; half a  *)
(* line is short of columns, but of an ACS message the first half lacks    *)
(* only the fields.                                                        *)
Record(s, line) == [source |-> s, time |-> line.time, barcode |-> line.barcode, dated |-> line.dated]

Parsed(s, lines) == [i \in DOMAIN lines |-> Record(s, lines[i])]

RecordsUpTo(s, lines) ==
  LET upTo[i \in 0..Len(lines)] ==
        IF i = 0 THEN <<>>
        ELSE IF lines[i].dated THEN Append(upTo[i - 1], Record(s, lines[i])) ELSE upTo[i - 1]
  IN upTo
Records(s, lines) == RecordsUpTo(s, lines)[Len(lines)]

PipelineRecords(s, file, at) ==
  LET whole == SubSeq(file.lines, (at + 1) \div 2 + 1, Complete(file))
      torn  == IF s = "acs" /\ file.half /\ at < Size(file)
               THEN <<[Last(file.lines) EXCEPT !.barcode = NoBarcode]>> ELSE <<>> IN
  IF s = "acs" THEN Records(s, whole \o torn) ELSE Parsed(s, whole)

(* read_new_lines: a file with another identity, or one that has shrunk,   *)
(* is read from its start; a line is read when it has ended.               *)
(* Mutants: the size is not looked at; the position returned is the end of *)
(* the file.                                                               *)
StartAt_NotShrunk(file, cursor) == IF cursor.id[1] # file.id[1] THEN 0 ELSE cursor.at
StartAt(file, cursor) == IF cursor.id[1] # file.id[1] \/ Size(file) < cursor.at THEN 0 ELSE cursor.at

EndAt_Size(file) == Size(file)
EndAt(file) == 2 * Complete(file)

CursorAt(file) == [id |-> file.id, at |-> EndAt(file)]
NewLines(file, cursor) == SubSeq(file.lines, (StartAt(file, cursor) + 1) \div 2 + 1, Complete(file))

-----------------------------------------------------------------------------
(* /upload: one transaction for a batch.  The unique indexes see no        *)
(* conflict with a row of which a column is NULL, so the ACS table has a   *)
(* column with an empty text in place of a missing barcode; checkins and   *)
(* rejects always have one.                                                *)
(* Mutant: the indexed column is the barcode itself.                       *)
KeyOf_Null(record) == <<record.source, record.time, record.barcode>>
KeyOf(record) == <<record.source, record.time, IF record.barcode = NoBarcode THEN "" ELSE record.barcode>>

RowsOf(key) == IF key \in DOMAIN stored THEN stored[key] ELSE 0
Inserted(batch) ==
  LET keysOf == {KeyOf(batch[i]) : i \in DOMAIN batch} IN
  [key \in DOMAIN stored \cup keysOf |->
     IF key \notin keysOf THEN stored[key]
     ELSE IF key[3] = NoBarcode THEN RowsOf(key) + Cardinality({i \in DOMAIN batch : KeyOf(batch[i]) = key})
     ELSE 1]

(* A row without a time cannot be stored, an upload without rows and one   *)
(* to a branch past its cutover are refused.                               *)
Accepted(batch) == batch # <<>> /\ ~cutover /\ \A i \in DOMAIN batch : batch[i].dated

-----------------------------------------------------------------------------
(* A run's requests.                                                       *)
FirstOf(records) == SubSeq(records, 1, IF Len(records) < MaxBatch THEN Len(records) ELSE MaxBatch)
Batch(records) == FirstOf(records[Order[1]]) \o FirstOf(records[Order[2]])
After(records) == [s \in Source |-> SubSeq(records[s], MaxBatch + 1, Len(records[s]))]
NoneLeft(records) == \A s \in Source : records[s] = <<>>

At(pc, todo, read, records) == [pc |-> pc, todo |-> todo, read |-> read, records |-> records]
SourceRead(r, read, records) == At(IF Tail(r.todo) = <<>> THEN "send" ELSE "read", Tail(r.todo), read, records)

Step(p, r) == run' = [run EXCEPT ![p] = r]
Quiet == UNCHANGED <<past, files, coming, skipped>>

(* A report is best effort: it may not arrive. *)
Report(status) == (Accept([run |-> status]) /\ UNCHANGED trouble) \/ (Trouble /\ UNCHANGED statusVars)

Failed(p, r) == IF p = Collector THEN [pc |-> "post", status |-> "failed_upload"] ELSE Idle

(* upload_records, upload_checkins_and_rejects: up to the first batch that *)
(* fails.  Of a batch that was stored the answer may be lost; the          *)
(* pipeline's session then sends it again.                                 *)
(* Mutant: the position is saved with what was sent before it. *)
OnFailure_Save(p, r) == At("save", r.todo, r.read, r.records)
OnFailure(p, r) == Failed(p, r)

Send(p) ==
  LET r == run[p]
      batch == Batch(r.records) IN
  /\ r.pc = "send" /\ UNCHANGED <<statusVars, committed>> /\ Quiet
  /\ \/ /\ p = Collector /\ NoneLeft(r.records)
        /\ Step(p, At("save", r.todo, r.read, r.records)) /\ UNCHANGED <<stored, trouble>>
     \/ /\ Accepted(batch) /\ stored' = Inserted(batch)
        /\ \/ /\ UNCHANGED trouble
              /\ Step(p, At(IF NoneLeft(After(r.records)) THEN "save" ELSE "send", r.todo, r.read, After(r.records)))
           \/ /\ Trouble
              /\ Step(p, IF p = Pipeline THEN r ELSE OnFailure(p, r))
     \/ /\ ~(p = Collector /\ NoneLeft(r.records)) /\ UNCHANGED stored
        /\ (Accepted(batch) /\ Trouble) \/ (~Accepted(batch) /\ UNCHANGED trouble)
        /\ Step(p, OnFailure(p, r))

Post(p) ==
  /\ run[p].pc = "post"
  /\ Report(run[p].status)
  /\ Step(p, Idle) /\ Quiet /\ UNCHANGED <<committed, stored>>

-----------------------------------------------------------------------------
(* The Collector: run_once, and the bootstrap before its first run.        *)
ReadAll == At("read", Order, <<>>, None)

Begin ==
  /\ run[Collector] = Idle /\ committed[Collector] # Damaged
  /\ Step(Collector, ReadAll)
  /\ Quiet /\ UNCHANGED <<statusVars, committed, stored, trouble>>

Saved(s) == IF committed[Collector] # NoFile /\ s \in DOMAIN committed[Collector].at
            THEN committed[Collector].at[s] ELSE Nothing

(* A source that is missing keeps its position. *)
Read ==
  LET r == run[Collector]
      s == Head(r.todo) IN
  /\ r.pc = "read"
  /\ Step(Collector,
          IF ~files[s].exists THEN SourceRead(r, r.read, r.records)
          ELSE SourceRead(r, Over([t \in {s} |-> CursorAt(files[s])], r.read),
                          [r.records EXCEPT ![s] = Records(s, NewLines(files[s], Saved(s)))]))
  /\ Quiet /\ UNCHANGED <<statusVars, committed, stored, trouble>>

(* save_state: a whole file or none. *)
Save ==
  LET r == run[Collector]
      old == IF committed[Collector] = NoFile THEN <<>> ELSE committed[Collector].at IN
  /\ r.pc = "save"
  /\ committed' = [committed EXCEPT ![Collector] = StateFile(Over(r.read, old), None)]
  /\ Step(Collector, [pc |-> "post", status |-> "completed"])
  /\ Quiet /\ UNCHANGED <<statusVars, stored, trouble>>

BeginBootstrap ==
  /\ past.bootstrap /\ run[Collector] = Idle /\ committed[Collector] = NoFile /\ stored = <<>>
  /\ past' = [past EXCEPT !.bootstrap = FALSE]
  /\ Step(Collector, [pc |-> "bootstrap", todo |-> Order, read |-> <<>>])
  /\ UNCHANGED <<statusVars, files, coming, committed, stored, skipped, trouble>>

(* The sources one after the other, all of which must be there; then the   *)
(* one state file.                                                         *)
Bootstrap ==
  LET r == run[Collector] IN
  /\ r.pc = "bootstrap" /\ UNCHANGED <<statusVars, stored, trouble, past, files, coming>>
  /\ IF r.todo = <<>>
     THEN /\ committed' = [committed EXCEPT ![Collector] = StateFile(r.read, None)]
          /\ Step(Collector, Idle) /\ UNCHANGED skipped
     ELSE LET s == Head(r.todo) IN
          /\ UNCHANGED committed
          /\ IF ~files[s].exists THEN Step(Collector, Idle) /\ UNCHANGED skipped
             ELSE /\ Step(Collector, [pc |-> "bootstrap", todo |-> Tail(r.todo), read |-> Over([t \in {s} |-> CursorAt(files[s])], r.read)])
                  /\ skipped' = skipped \cup {<<s, files[s].id, i>> : i \in 1..Complete(files[s])}

(* The state file is damaged: every run then stops at once, until an       *)
(* operator sets the file aside and everything is read again.              *)
Damage ==
  /\ past.mayChange /\ Trouble /\ committed[Collector].kind = "saved" /\ run[Collector] = Idle
  /\ committed' = [committed EXCEPT ![Collector] = Damaged]
  /\ Quiet /\ UNCHANGED <<statusVars, run, stored>>

Quarantine ==
  /\ committed[Collector] = Damaged
  /\ committed' = [committed EXCEPT ![Collector] = NoFile]
  /\ Quiet /\ UNCHANGED <<statusVars, run, stored, trouble>>

CollectorStep == Begin \/ Read \/ Send(Collector) \/ Save \/ Post(Collector) \/ Bootstrap

-----------------------------------------------------------------------------
(* The scheduled pipeline.  Its state holds positions without identities,  *)
(* and the time and size each file had when the state was saved.           *)
Stat(s) == IF files[s].exists THEN <<files[s].writes, Size(files[s])>> ELSE <<>>
Offset(s) == IF committed[Pipeline] = NoFile THEN 0 ELSE committed[Pipeline].at[s].at
Unchanged == IF committed[Pipeline] = NoFile THEN \A s \in Source : Stat(s) = <<>>
             ELSE \A s \in Source : Stat(s) = committed[Pipeline].stat[s]

StartPipeline ==
  /\ run[Pipeline] = Idle
  /\ Report("started")
  /\ Step(Pipeline, IF Unchanged THEN [pc |-> "post", status |-> "skipped_no_source_changes"] ELSE ReadAll)
  /\ Quiet /\ UNCHANGED <<committed, stored>>

(* load_..._incremental: from the offset, or from the start if the file is *)
(* shorter, to the end.                                                    *)
ReadPipeline ==
  LET r == run[Pipeline]
      s == Head(r.todo)
      end == [id |-> files[s].id, at |-> IF files[s].exists THEN Size(files[s]) ELSE 0]
      start == IF Offset(s) > Size(files[s]) THEN 0 ELSE Offset(s) IN
  /\ r.pc = "read"
  /\ Step(Pipeline,
          SourceRead(r, Over([t \in {s} |-> end], r.read),
                     [r.records EXCEPT ![s] = IF files[s].exists THEN PipelineRecords(s, files[s], start) ELSE <<>>]))
  /\ Quiet /\ UNCHANGED <<statusVars, committed, stored, trouble>>

SavePipeline ==
  LET r == run[Pipeline] IN
  /\ r.pc = "save"
  /\ committed' = [committed EXCEPT ![Pipeline] = StateFile(r.read, [s \in Source |-> Stat(s)])]
  /\ Step(Pipeline, [pc |-> "post", status |-> "completed"])
  /\ Quiet /\ UNCHANGED <<statusVars, stored, trouble>>

PipelineStep == StartPipeline \/ ReadPipeline \/ Send(Pipeline) \/ SavePipeline \/ Post(Pipeline)

-----------------------------------------------------------------------------
(* A program is killed.  The pipeline writes its state in place: half a    *)
(* file is taken for none.                                                 *)
Crash(p) ==
  /\ run[p] # Idle /\ Trouble
  /\ Step(p, Idle)
  /\ \E torn \in {FALSE, p = Pipeline /\ run[p].pc = "save"} :
       committed' = IF torn THEN [committed EXCEPT ![p] = NoFile] ELSE committed
  /\ Quiet /\ UNCHANGED <<statusVars, stored>>

Reporting ==
  /\ \/ "agent" \in past.reporters /\ (AgentHeartbeat \/ Preflight)
     \/ "keys" \in past.reporters /\ (KeyHeartbeat \/ IssueKey(2) \/ RetireKey)
  /\ UNCHANGED <<past, files, coming, committed, run, stored, skipped, trouble>>

Cutover ==
  /\ past.mayCutOver /\ Trouble /\ MoveCutover
  /\ UNCHANGED <<past, files, coming, committed, run, stored, skipped>>

Next ==
  \/ \E s \in Source : WriteLine(s) \/ FinishLine(s) \/ ReplaceFile(s) \/ EmptyFile(s)
  \/ Collector \in past.programs /\ (CollectorStep \/ BeginBootstrap \/ Damage \/ Quarantine)
  \/ Pipeline \in past.programs /\ PipelineStep
  \/ \E p \in past.programs : Crash(p)
  \/ Reporting \/ Cutover

(* The task scheduler starts the Collector again and again, and what was  *)
(* started takes its steps.                                                *)
Spec == Init /\ [][Next]_vars /\ WF_vars(Collector \in past.programs /\ CollectorStep)

-----------------------------------------------------------------------------
Sent(s, file, i) == <<s, file.id, i>> \in skipped \/ KeyOf(Record(s, file.lines[i])) \in DOMAIN stored

(* Whatever fails, is killed, refused or replaced, and in whatever order:  *)
(* a line that the Collector's saved position has passed is on the server, *)
(* unless it has no usable time or the bootstrap passed it before the      *)
(* first run (read_new_lines, upload_records, run_once's one save).        *)
NothingPassed ==
  committed[Collector].kind = "saved" =>
    \A s \in DOMAIN committed[Collector].at :
      LET cursor == committed[Collector].at[s] IN
      cursor.id = files[s].id =>
        \A i \in 1..(cursor.at \div 2) : i <= Len(files[s].lines) /\ files[s].lines[i].dated => Sent(s, files[s], i)

(* However often a line is sent, by whichever program, and whether or not  *)
(* an answer was lost, there is one row of it (the semantic indexes and    *)
(* what /upload stores for them).                                          *)
StoredOnce == \A key \in DOMAIN stored : stored[key] = 1

(* Both: every line the position has passed is stored, and stored once.    *)
UploadedOnce == NothingPassed /\ StoredOnce

(* Every line that has ended and is still in its file reaches the server,  *)
(* once the branch is before its cutover and the state file is whole: no   *)
(* failure leaves the Collector stuck (the next scheduled run is the       *)
(* retry).                                                                 *)
EverythingArrives ==
  []<>(\/ Collector \notin past.programs \/ cutover \/ committed[Collector] = Damaged
       \/ \A s \in Source : files[s].exists =>
            \A i \in 1..Complete(files[s]) : files[s].lines[i].dated => Sent(s, files[s], i))
=============================================================================
