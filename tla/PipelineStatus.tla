--------------------------- MODULE PipelineStatus ---------------------------
(***************************************************************************)
(* What the customer is told about a branch's collection: the row that the *)
(* programs of the first contract report to, the ingest keys that Contract *)
(* v2 Collectors report on, and how the two become one state.              *)
(*                                                                         *)
(* Instants are left out: of the two stamps of a row, and of the           *)
(* heartbeats of the keys, only the order decides.                         *)
(***************************************************************************)
EXTENDS Naturals, Sequences, SequencesExt

VARIABLES
  row,      \* pipeline_status: its two signals, and those the last report carried
  keys,     \* ingest_key_ids: the active keys, whichever reported last first
  issued,   \* the number of keys issued
  cutover,  \* the branch's cutover is effective
  told      \* history: the last report accepted for the row, and for each key

statusVars == <<row, keys, issued, cutover, told>>

Absent  == "absent"
Unasked == [health |-> Absent, schedule |-> Absent]

StatusInit ==
  /\ row = [run |-> Absent, health |-> Absent, newest |-> {}]
  /\ keys = <<>> /\ issued = 0 /\ cutover = FALSE
  /\ told = [row |-> "unknown", keys |-> <<>>]

-----------------------------------------------------------------------------
(* pipeline_state: the state that each signal reports. *)
StateForRun(status) ==
  CASE status \in {"completed", "skipped_no_source_changes"} -> "ok"
    [] status = "failed_upload" -> "failed"
    [] OTHER -> "unknown"

StateForHealth(status) ==
  CASE status = "healthy" -> "ok"
    [] status = "degraded" -> "degraded"
    [] status \in {"auth_failure", "error"} -> "failed"
    [] OTHER -> "unknown"

Severity == [unknown |-> 0, ok |-> 1, degraded |-> 2, failed |-> 3]
Worse(a, b) == IF Severity[a] >= Severity[b] THEN a ELSE b

StateForCurrent(report) ==
  LET health == StateForHealth(report.health) IN
  CASE report.schedule \in {Absent, "healthy"} -> health
    [] report.schedule = "task_missing" -> Worse(health, "failed")
    [] OTHER -> Worse(health, "degraded")

-----------------------------------------------------------------------------
(* get_pipeline_status: the cutover decides which of the two is read.      *)
CurrentStatus == IF keys = <<>> THEN "unknown" ELSE StateForCurrent(keys[1].report)
LegacyStatus ==
  CASE row.newest = {} -> "unknown"
    [] "health" \in row.newest -> StateForHealth(row.health)
    [] OTHER -> StateForRun(row.run)
Shown == IF cutover THEN CurrentStatus ELSE LegacyStatus

Carried(report) ==
  [run    |-> IF "run" \in DOMAIN report THEN report.run ELSE row.run,
   health |-> IF "health" \in DOMAIN report THEN report.health ELSE row.health,
   newest |-> row.newest]

(* Mutant: a report stamps both signals, whichever it carries. *)
Upserted_Stamps(report) ==
  [Carried(report) EXCEPT !.newest = {"run", "health"}]

(* /upload-pipeline-status: the fields that a report carries, and the      *)
(* stamps of the signals among them.                                       *)
Upserted(report) ==
  [Carried(report) EXCEPT !.newest = IF DOMAIN report = {} THEN row.newest ELSE DOMAIN report]

Accept(report) ==
  /\ row' = Upserted(report)
  /\ told' = [told EXCEPT !.row = IF "health" \in DOMAIN report THEN StateForHealth(report.health)
                                  ELSE StateForRun(report.run)]
  /\ UNCHANGED <<keys, issued, cutover>>

(* The continuous agent's heartbeat; an installer's probe of the route.    *)
AgentHeartbeat == \E health \in {"healthy", "degraded", "auth_failure"} : Accept([health |-> health])
Preflight      == Accept([run |-> "preflight_check"])

(* Mutant: a field that the snapshot lacks keeps its value. *)
Snapshot_Keeps(old, report) == [report EXCEPT !.schedule = IF @ = Absent THEN old.schedule ELSE @]

(* /v2/status: the snapshot of an active key, which reports first now.     *)
Snapshot(old, report) == report

Others(seq, k) ==
  IF \E i \in DOMAIN seq : seq[i].id = k THEN RemoveAt(seq, CHOOSE i \in DOMAIN seq : seq[i].id = k) ELSE seq
KeyHeartbeat ==
  \E i \in DOMAIN keys, health \in {"healthy", "error"}, schedule \in {Absent, "healthy", "task_missing", "query_failed"} :
    LET report == [health |-> health, schedule |-> schedule]
        k == keys[i].id IN
    /\ keys' = <<[id |-> k, report |-> Snapshot(keys[i].report, report)]>> \o Others(keys, k)
    /\ told' = [told EXCEPT !.keys = <<[id |-> k, report |-> report]>> \o Others(@, k)]
    /\ UNCHANGED <<row, issued, cutover>>

(* A key that has never reported sorts last. *)
IssueKey(max) ==
  /\ issued < max
  /\ issued' = issued + 1 /\ keys' = Append(keys, [id |-> issued + 1, report |-> Unasked])
  /\ UNCHANGED <<row, cutover, told>>

RetireKey ==
  /\ \E i \in DOMAIN keys : keys' = Others(keys, keys[i].id)
  /\ UNCHANGED <<row, issued, cutover, told>>

(* The cutover is reached, or taken back by a later row. *)
MoveCutover ==
  /\ cutover' = ~cutover
  /\ UNCHANGED <<row, keys, issued, told>>

-----------------------------------------------------------------------------
(* The state shown is the one of the last report that the server accepted  *)
(* for the branch, among the row's two writers before the cutover, and     *)
(* among the keys that are active after it: never one writer's state in    *)
(* the place of the other's, never a part of an older report, and nothing  *)
(* of a key that was retired (get_pipeline_status, the upsert's stamps and *)
(* the heartbeat's snapshot).                                              *)
WorstOf(report) ==
  LET fault == CASE report.schedule = "task_missing" -> {"failed"}
                 [] report.schedule = "query_failed" -> {"degraded"}
                 [] OTHER -> {}
      states == fault \cup {StateForHealth(report.health)} IN
  CHOOSE state \in states : \A other \in states : Severity[state] >= Severity[other]

ShownIsLastReport ==
  IF cutover
  THEN LET live == {n \in DOMAIN told.keys : \E i \in DOMAIN keys : keys[i].id = told.keys[n].id} IN
       Shown = IF live = {} THEN "unknown" ELSE WorstOf(told.keys[CHOOSE n \in live : \A m \in live : n <= m].report)
  ELSE Shown = told.row
=============================================================================
