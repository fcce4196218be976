----------------------------- MODULE HoldLedger -----------------------------
(***************************************************************************)
(* The ACS stream of the Contract v2 Collector: item records become safe   *)
(* events, patron records become local profiles, and a small ledger of the *)
(* holds already sent lets a profile that arrives after a hold correct it. *)
(*                                                                         *)
(* The server keeps every event once, by its key, and numbers them as they *)
(* come; the report takes the record of an item with the greatest          *)
(* (event_time, id).  The reference is the dashboard, which reads the      *)
(* whole log at once: the latest record of the item by time, then by place *)
(* in the log, under the latest profile of its patron.                     *)
(*                                                                         *)
(* Patron records are taken to be logged in the order of their times.  The *)
(* flags of a hold are the union of what its own message says and what the *)
(* patron's profile says; without a profile that is nothing.  Destinations *)
(* are left out, and so is the guard against scanned patron cards: an item *)
(* of the model is no patron's card.                                       *)
(***************************************************************************)
EXTENDS Naturals, Sequences, FiniteSets, TLC

CONSTANTS
  Item, Patron,
  NoPatron,      \* a hold record without a patron identifier
  Outcome,       \* what a profile can say: sets of flags
  Static,        \* what a hold's own message can say: sets of flags
  ChunkLines,    \* v2.chunk_lines
  BatchSize,     \* v2.max_events_per_request
  CursorIsLost,  \* may the state file disappear?
  Regrowth,      \* may the log grow before an interrupted chunk is read again?
  MaxLines,      \* bound: lines in the log
  MaxTime,       \* bound: event times
  MaxFaults,     \* bound: failed runs and lost cursors
  MaxBoth        \* bound: lines and faults together

Time == 1..MaxTime

ASSUME LedgerAssumption ==
  /\ NoPatron \notin Patron /\ IsFiniteSet(Item)
  /\ {} \in Outcome
  /\ {ChunkLines, BatchSize} \subseteq Nat \ {0}
  /\ {MaxLines, MaxTime, MaxFaults, MaxBoth} \subseteq Nat
  /\ {Regrowth, CursorIsLost} \subseteq BOOLEAN

VARIABLES
  log,       \* the ACS file
  off,       \* the saved cursor
  ledger,    \* the holds table: the latest hold of each item that has a patron
  profile,   \* the patrons table: what each patron's profile says
  rows,      \* the server's acs_item_events, in the order of their ids
  pc,        \* the run: idle, send, holds, patrons, save
  chunk,     \* the transformed chunk and its staged changes
  sent,      \* how many events of the chunk were delivered
  unsaved,   \* the end of the furthest chunk read that no saved cursor covers yet, or 0
  reread,    \* history: was the cursor ever lost, and with a chunk half done: never, once, torn
  faults

vars == <<log, off, ledger, profile, rows, pc, chunk, sent, unsaved, reread, faults>>

NoRow == [time |-> 0, patron |-> NoPatron, static |-> {}, flags |-> {}, rev |-> 0]
NoChunk == [to |-> 0, events |-> <<>>, ledger |-> <<>>, profile |-> <<>>]

(* An event, which is its own event_key: every safe field takes part.      *)
Event(state, item, time, flags, rev) ==
  [state |-> state, item |-> item, time |-> time, flags |-> flags, rev |-> rev]

Record ==
       [kind : {"profile"}, patron : Patron, outcome : Outcome]
  \cup [kind : {"hold"}, item : Item, patron : Patron \cup {NoPatron}, time : Time, static : Static]
  \cup [kind : {"non_hold_101", "other_code10"}, item : Item, time : Time]

Init ==
  /\ log = <<>> /\ off = 0
  /\ ledger = [i \in Item |-> NoRow] /\ profile = [p \in Patron |-> {}]
  /\ rows = <<>>
  /\ pc = "idle" /\ chunk = NoChunk /\ sent = 0
  /\ unsaved = 0 /\ reread = "never" /\ faults = 0

Fault == faults < MaxFaults /\ Len(log) + faults < MaxBoth /\ faults' = faults + 1

AppendRecord ==
  /\ Len(log) < MaxLines /\ Len(log) + faults < MaxBoth /\ (Regrowth \/ unsaved = 0)
  /\ \E r \in Record : log' = Append(log, r)
  /\ UNCHANGED <<off, ledger, profile, rows, pc, chunk, sent, unsaved, reread, faults>>

-----------------------------------------------------------------------------
(* _transform_acs: one chunk, against the ledger and the profiles on disk. *)

(* Pass 1: the last profile record of each patron in the chunk. *)
Profiles(lines) ==
  [p \in Patron |->
     LET of == {k \in DOMAIN lines : lines[k].kind = "profile" /\ lines[k].patron = p}
     IN IF of = {} THEN profile[p]
        ELSE lines[CHOOSE k \in of : \A j \in of : j <= k].outcome]

(* _corrections: the ledger holds of the patrons whose profile changed, if *)
(* their flags change with it.                                             *)
Combine(static, outcome) == static \cup outcome

Corrected(i, new) ==
  /\ ledger[i] # NoRow
  /\ LET row == ledger[i] IN
       /\ new[row.patron] # profile[row.patron]
       /\ Combine(row.static, new[row.patron]) # row.flags

(* Mutant: a correction keeps the revision of what it corrects. *)
CorrectedRow_SameRevision(row, new) ==
  [row EXCEPT !.flags = Combine(row.static, new[row.patron])]

CorrectedRow(row, new) ==
  [row EXCEPT !.flags = Combine(row.static, new[row.patron]), !.rev = @ + 1]

HoldEvent(i, row) == Event("hold", i, row.time, row.flags, row.rev)

(* Mutant: a correction is sent and the ledger row left as it was. *)
Pass1_LedgerUnchanged(new) ==
  LET items == {i \in Item : Corrected(i, new)}
      order == CHOOSE f \in [1..Cardinality(items) -> items] : \A i \in items : \E k \in DOMAIN f : f[k] = i
  IN [ledger |-> ledger,
      events |-> [k \in DOMAIN order |-> HoldEvent(order[k], CorrectedRow(ledger[order[k]], new))]]

Pass1(new) ==
  LET items == {i \in Item : Corrected(i, new)}
      order == CHOOSE f \in [1..Cardinality(items) -> items] : \A i \in items : \E k \in DOMAIN f : f[k] = i
  IN [ledger |-> [i \in Item |-> IF i \in items THEN CorrectedRow(ledger[i], new) ELSE ledger[i]],
      events |-> [k \in DOMAIN order |-> HoldEvent(order[k], CorrectedRow(ledger[order[k]], new))]]

(* Mutant: a hold is read under the profile on disk, not the chunk's. *)
HoldRow_OldProfile(old, r, new) ==
  LET flags == Combine(r.static, IF r.patron = NoPatron THEN {} ELSE profile[r.patron])
  IN [time |-> r.time, patron |-> r.patron, static |-> r.static, flags |-> flags,
      rev  |-> IF old # NoRow /\ old.time = r.time
               THEN (IF old.flags = flags THEN old.rev ELSE old.rev + 1) ELSE 0]

(* Pass 2, one item record.  The same hold read again keeps its identity,  *)
(* or moves it on if its flags did; the ledger keeps the newest hold that  *)
(* has a patron.                                                           *)
HoldRow(old, r, new) ==
  LET flags == Combine(r.static, IF r.patron = NoPatron THEN {} ELSE new[r.patron])
  IN [time |-> r.time, patron |-> r.patron, static |-> r.static, flags |-> flags,
      rev  |-> IF old # NoRow /\ old.time = r.time
               THEN (IF old.flags = flags THEN old.rev ELSE old.rev + 1) ELSE 0]

(* Mutant: only 101 records retract. *)
Retracts_Only101(old, r) == old # NoRow /\ r.kind = "non_hold_101" /\ r.time >= old.time

(* A non-hold record of the item takes the hold out of the ledger: a 101   *)
(* record from its second on, another code-10 record only in that second.  *)
Retracts(old, r) ==
  /\ old # NoRow
  /\ \/ r.kind = "non_hold_101" /\ r.time >= old.time
     \/ r.kind = "other_code10" /\ r.time = old.time

Kept(old, r, new) ==
  CASE r.kind # "hold"           -> IF Retracts(old, r) THEN NoRow ELSE old
    [] r.kind = "hold" /\ r.time >= old.time
                                 -> IF r.patron = NoPatron THEN NoRow ELSE HoldRow(old, r, new)
    [] OTHER                     -> old

Pass2(acc, r, new) ==
  IF r.kind = "profile" THEN acc
  ELSE [ledger |-> [acc.ledger EXCEPT ![r.item] = Kept(@, r, new)],
        events |-> Append(acc.events,
          IF r.kind = "hold" THEN HoldEvent(r.item, HoldRow(acc.ledger[r.item], r, new))
                             ELSE Event(r.kind, r.item, r.time, {}, 0))]

(* What is staged after each line of a chunk; the chunk. *)
Staged(lines, new) ==
  LET after[k \in 0..Len(lines)] ==
        IF k = 0 THEN Pass1(new) ELSE Pass2(after[k - 1], lines[k], new)
  IN after

Transform(lines) ==
  LET new  == Profiles(lines)
      done == Staged(lines, new)[Len(lines)]
  IN [ledger |-> done.ledger, events |-> done.events, profile |-> new]

-----------------------------------------------------------------------------
ChunkEnd == IF Len(log) < off + ChunkLines THEN Len(log) ELSE off + ChunkLines

ReadChunk ==
  /\ pc = "idle" /\ off < Len(log)
  /\ LET done == Transform(SubSeq(log, off + 1, ChunkEnd))
     IN chunk' = [to |-> ChunkEnd, events |-> done.events, ledger |-> done.ledger, profile |-> done.profile]
  /\ sent' = 0 /\ unsaved' = IF unsaved > ChunkEnd THEN unsaved ELSE ChunkEnd
  /\ pc' = IF chunk'.events = <<>> THEN "holds" ELSE "send"
  /\ UNCHANGED <<log, off, ledger, profile, rows, reread, faults>>

(* A run that finds no new line changes nothing. *)
ReadNothing == pc = "idle" /\ off = Len(log) /\ UNCHANGED vars

Stored(e) == \E k \in DOMAIN rows : rows[k] = e

(* One request, one transaction: events whose key is new become rows, in   *)
(* their order.                                                            *)
BatchEnd == IF Len(chunk.events) < sent + BatchSize THEN Len(chunk.events) ELSE sent + BatchSize

NewRows ==
  LET batch == SubSeq(chunk.events, sent + 1, BatchEnd)
      first == {k \in DOMAIN batch : ~Stored(batch[k]) /\ \A j \in 1..(k - 1) : batch[j] # batch[k]}
      upTo[k \in 0..Len(batch)] ==
        IF k = 0 THEN <<>> ELSE IF k \in first THEN Append(upTo[k - 1], batch[k]) ELSE upTo[k - 1]
  IN upTo[Len(batch)]

Send ==
  /\ pc = "send"
  /\ rows' = rows \o NewRows
  /\ sent' = BatchEnd
  /\ pc' = IF BatchEnd = Len(chunk.events) THEN "holds" ELSE "send"
  /\ UNCHANGED <<log, off, ledger, profile, chunk, unsaved, reread, faults>>

(* cache.commit(): the ledger in one transaction, the patrons in the next. *)
CommitHolds ==
  /\ pc = "holds" /\ pc' = "patrons" /\ ledger' = chunk.ledger
  /\ UNCHANGED <<log, off, profile, rows, chunk, sent, unsaved, reread, faults>>

CommitPatrons ==
  /\ pc = "patrons" /\ pc' = "save" /\ profile' = chunk.profile
  /\ UNCHANGED <<log, off, ledger, rows, chunk, sent, unsaved, reread, faults>>

SaveCursor ==
  /\ pc = "save" /\ pc' = "idle" /\ off' = chunk.to
  /\ chunk' = NoChunk /\ sent' = 0
  /\ unsaved' = IF unsaved > chunk.to THEN unsaved ELSE 0
  /\ UNCHANGED <<log, ledger, profile, rows, reread, faults>>

(* A failure or a crash: what was staged is gone. *)
Interrupt ==
  /\ pc # "idle" /\ Fault
  /\ pc' = "idle" /\ chunk' = NoChunk /\ sent' = 0
  /\ UNCHANGED <<log, off, ledger, profile, rows, unsaved, reread>>

(* The state file is gone: the next run reads the log from its beginning,  *)
(* against the cache it has.                                               *)
LoseCursor ==
  /\ CursorIsLost /\ pc = "idle" /\ off > 0 /\ Fault
  /\ off' = 0 /\ reread' = IF unsaved = 0 /\ reread # "torn" THEN "once" ELSE "torn"
  /\ UNCHANGED <<log, ledger, profile, rows, pc, chunk, sent, unsaved>>

Next == AppendRecord \/ ReadChunk \/ ReadNothing \/ Send \/ CommitHolds \/ CommitPatrons \/ SaveCursor
        \/ Interrupt \/ LoseCursor

Spec == Init /\ [][Next]_vars

-----------------------------------------------------------------------------
(* The record of an item that counts, among those of the given kinds: the  *)
(* greatest (time, position).                                              *)
Latest(seq, KindOf(_), i, kinds) ==
  LET of == {k \in DOMAIN seq : KindOf(seq[k]) \in kinds /\ seq[k].item = i}
  IN {k \in of : \A j \in of :
        seq[j].time < seq[k].time \/ (seq[j].time = seq[k].time /\ j <= k)}

(* What the report says of an item: the flags of its hold, or nothing if   *)
(* its latest record is none.                                              *)
Answer(i, kinds) ==
  {rows[k].flags : k \in {n \in Latest(rows, LAMBDA e : e.state, i, kinds) : rows[n].state = "hold"}}

(* What the dashboard says, reading the whole log at once. *)
LatestProfile(p) ==
  LET of == {k \in DOMAIN log : log[k].kind = "profile" /\ log[k].patron = p}
  IN IF of = {} THEN {} ELSE log[CHOOSE k \in of : \A j \in of : j <= k].outcome

Dashboard(i, kinds) ==
  {Combine(log[k].static, LatestProfile(log[k].patron)) :
     k \in {n \in Latest(log, LAMBDA r : r.kind, i, kinds) : log[n].kind = "hold"}}

(* Overview looks at 101 records, Live Today at all code-10 records. *)
Overview  == {"hold", "non_hold_101"}
LiveToday == {"hold", "non_hold_101", "other_code10"}

(* A hold followed by another code-10 record in its own second leaves the  *)
(* ledger: a correction would wrongly outrank that record in Live Today.   *)
Shadowed(i) ==
  \E j, k \in DOMAIN log :
    /\ j < k /\ log[j].kind = "hold" /\ log[k].kind = "other_code10"
    /\ log[j].item = i /\ log[k].item = i /\ log[j].time = log[k].time

(* More than two records of the item in one second, or two holds of it for *)
(* different patrons: an identity has the resolution of a second, so a     *)
(* record that repeats an earlier one after a different one is kept once,  *)
(* under the id of the first.                                              *)
Crowded(i) ==
  \E t \in Time :
    LET of == {k \in DOMAIN log : log[k].kind # "profile" /\ log[k].item = i /\ log[k].time = t}
    IN \/ Cardinality(of) > 2
       \/ \E j, k \in of : log[j].kind = "hold" /\ log[k].kind = "hold" /\ log[j].patron # log[k].patron

CaughtUp == pc = "idle" /\ off = Len(log)

(* Once the log is delivered, the stream says of every item what the       *)
(* dashboard would: whichever came first, the hold or the profile, and     *)
(* however often the profile changed and changed back (Overview).  A lost  *)
(* cursor is RereadMatches' business: a row whose flags changed meanwhile  *)
(* is stored again, above the retractions of its own second.               *)
ReportMatches ==
  CaughtUp /\ reread = "never" => \A i \in Item :
    Shadowed(i) \/ Crowded(i) \/ Answer(i, Overview) = Dashboard(i, Overview)

(* The same of Live Today, where any later code-10 record of the item, in  *)
(* the hold's own second too, still outranks a correction sent after it.   *)
LiveMatches ==
  CaughtUp /\ reread = "never" => \A i \in Item : Crowded(i) \/ Answer(i, LiveToday) = Dashboard(i, LiveToday)

(* Both: the stream tells the two reports what the dashboard would.        *)
StreamMatches == ReportMatches /\ LiveMatches

(* After the state file was lost, the whole log is sent again under the    *)
(* profiles known by then.  An item that has no two records in one second  *)
(* still gets the dashboard's answer (docs/collector-v2.md, "the reduced   *)
(* stream still equals the dashboard's").                                  *)
Alone(i) ==
  \A j, k \in DOMAIN log :
    /\ log[j].kind # "profile" /\ log[j].item = i
    /\ log[k].kind # "profile" /\ log[k].item = i
    => j = k \/ log[j].time # log[k].time

RereadMatches ==
  CaughtUp /\ reread # "torn" => \A i \in Item : Alone(i) =>
    /\ Answer(i, Overview) = Dashboard(i, Overview)
    /\ Answer(i, LiveToday) = Dashboard(i, LiveToday)

(* Between chunks the ledger holds what was last sent: the server's newest *)
(* row of that hold carries the ledger's flags and revision, so that the   *)
(* next correction can neither collide with it nor be lost.  (A later      *)
(* hold without a patron leaves the ledger, and an older hold logged again *)
(* after it may come in: that one no report asks for any more.)  A log in  *)
(* the middle of being sent again has rows beyond the ledger.              *)
LedgerIsLastSent ==
  pc = "idle" /\ unsaved = 0 /\ reread = "never" =>
    \A i \in Item : ledger[i] = NoRow \/ Crowded(i) \/
      LET of == {k \in DOMAIN rows : rows[k].item = i /\ rows[k].state \in Overview}
      IN \/ \E k \in of : rows[k].time > ledger[i].time
         \/ \E k \in of : /\ rows[k] = HoldEvent(i, ledger[i])
                          /\ \A n \in of : rows[n].state = "hold" /\ rows[n].time = rows[k].time => n <= k

(* Between chunks the two tables of the cache agree, although they are     *)
(* committed in two transactions: a ledger row has the flags its patron's  *)
(* profile gives it.  The one exception takes two failures: a run that     *)
(* ended between the two transactions, and a cursor lost before the next   *)
(* one.  Then the row's own hold is still to be read again, and a log read *)
(* to its end has no exception left.                                       *)
Follows(row, outcomes) == row = NoRow \/ row.flags = Combine(row.static, outcomes[row.patron])
IsHold(r, i, time)     == r.kind = "hold" /\ r.item = i /\ r.time = time
Awaited(i, row, from)  == reread # "never" /\ \E k \in (from + 1)..Len(log) : IsHold(log[k], i, row.time)

LedgerFollowsProfiles ==
  pc = "idle" /\ unsaved = 0 =>
    \A i \in Item : Follows(ledger[i], profile) \/ Awaited(i, ledger[i], off)
=============================================================================
