---------------------------- MODULE RangeReports ----------------------------
(***************************************************************************)
(* The reports of a sorter site and of an organization: how many rows each *)
(* local day and wall-clock hour has, across the cutover between the two   *)
(* eras of a site and across the days on which the clocks change, while    *)
(* rows keep arriving and the operator moves the cutover.                  *)
(*                                                                         *)
(* Legacy rows (era 1) carry the reading of the local clock, current rows  *)
(* (era 2) the instant.  An instant is a number of ticks, and so is a      *)
(* reading.  A zone changes its clocks once.                               *)
(***************************************************************************)
EXTENDS Integers, Sequences, FiniteSets, FiniteSetsExt, Functions

CONSTANTS
  Pasts,          \* what there is to begin with: see Init
  HourTicks,      \* the ticks of an hour
  HoursPerDay,    \* WALL_CLOCK_HOURS_PER_DAY
  StretchDays,    \* _HOUR_BUCKET_DAYS_PER_STATEMENT
  From, To,       \* the days reported on
  Listed,         \* the organization's sorter sites, in the order they are listed
  MaxCuts,        \* bound: cutover records
  CutAt           \* bound: the cutovers recorded meanwhile

VARIABLES
  zone,           \* the product's zone: its offset before and after an instant
  events,         \* what the sorters did
  stored,         \* the rows of each era
  cuts,           \* v2_cutovers of each site, by set_at
  mapped,         \* the sites that have an operational id
  report,         \* the report being made
  begun           \* history: rows, cutovers and sites when the report began

vars == <<zone, events, stored, cuts, mapped, report, begun>>

Era      == {1, 2}
DayTicks == HourTicks * HoursPerDay
Days     == From..To
Hours    == 0..(HoursPerDay - 1)
None     == -1     \* no cutover, or a recorded rollback
Lesser(a, b)  == IF a < b THEN a ELSE b
Greater(a, b) == IF a > b THEN a ELSE b

Sites == {Listed[n] : n \in DOMAIN Listed}
NoReport == [kind |-> "none", organization |-> FALSE, cells |-> <<>>, todo |-> <<>>, sites |-> <<>>, read |-> {}, missed |-> FALSE]

Init ==
  /\ \E past \in Pasts :
       /\ zone \in past.zones /\ events \in past.events
       /\ cuts \in past.cuts /\ mapped \in past.mapped
       /\ \E eras \in past.eras : stored = [era \in Era |-> IF era \in eras THEN events ELSE {}]
  /\ report = NoReport /\ begun = <<>>

-----------------------------------------------------------------------------
(* Time.  The local clock; and the instant a reading names with fold = 0:  *)
(* of two the first, and of a skipped reading the one the old offset gives.*)
Wall(i) == i + (IF i < zone.at THEN zone.before ELSE zone.after)
Instant(r) ==
  IF r - zone.before < zone.at \/ r - zone.after < zone.at THEN r - zone.before ELSE r - zone.after

(* The bounds of a day, in each era's terms; and of its hours, held inside *)
(* the day and in order.                                                   *)
DayStart(era, d) == IF era = 1 THEN d * DayTicks ELSE Instant(d * DayTicks)
HourStart(era, d, h) ==
  LET v2[k \in 0..HoursPerDay] ==
        CASE k = 0           -> DayStart(2, d)
          [] k = HoursPerDay -> DayStart(2, d + 1)
          [] OTHER -> Lesser(Greater(Instant(d * DayTicks + k * HourTicks), v2[k - 1]), DayStart(2, d + 1))
  IN IF era = 1 THEN d * DayTicks + h * HourTicks ELSE v2[h]

(* A cutover in the terms of each era; the one in force at a site. *)
(* Mutant: the instant's own number, as if it were a reading. *)
Boundary_Unlabelled(era, cut) == cut
Boundary(era, cut) == IF era = 1 THEN Wall(cut) ELSE cut
EffectiveCutover(site) == IF cuts[site] = <<>> THEN None ELSE cuts[site][Len(cuts[site])]

(* The part of the days from d to e an era owns, as an interval: with no   *)
(* cutover, era 1 owns everything.                                         *)
Span(era, d, e, cut) ==
  LET start == DayStart(era, d)
      end   == DayStart(era, e + 1)
  IN CASE cut = None -> IF era = 1 THEN <<start, end>> ELSE <<end, end>>
       [] era = 1    -> <<start, Lesser(end, Boundary(1, cut))>>
       [] OTHER      -> <<Greater(start, Boundary(2, cut)), end>>
Owns(span) == span[1] < span[2]

-----------------------------------------------------------------------------
(* Statements.  A figure is counted for every day, or every hour of every  *)
(* day, and by a key: where a check-in went, why an item was rejected, or  *)
(* its bin, the same key whichever era stored it.                          *)
ByHour(figure) == figure \in {"hours", "bins"}
TableOf(figure) == IF figure \in {"rejects", "reasons"} THEN "reject" ELSE "checkin"
TimeOf(era, e) == IF era = 1 THEN Wall(e.at) ELSE e.at
RoutingConfig == {"home", "annex"}
DestinationOf(e) == IF e.what \in RoutingConfig THEN e.what ELSE "other"
ReasonOf(e)      == IF e.what = "unlisted" THEN "other" ELSE e.what
BinOf(e)         == IF e.what = "unlisted" THEN "unknown" ELSE e.what
Key(figure, e) ==
  CASE figure = "destination" -> DestinationOf(e)
    [] figure = "reasons"     -> ReasonOf(e)
    [] figure = "bins"        -> BinOf(e)
    [] OTHER                  -> "all"

(* The boundaries of the days from d to e, or of their hours: each day's,  *)
(* then the last one's end.  width_bucket: how many are at or before.      *)
Boundaries(figure, era, d, e) ==
  IF ByHour(figure)
  THEN [n \in 1..((e - d + 1) * HoursPerDay + 1) |->
          IF n = (e - d + 1) * HoursPerDay + 1 THEN HourStart(era, e, HoursPerDay)
          ELSE HourStart(era, d + (n - 1) \div HoursPerDay, (n - 1) % HoursPerDay)]
  ELSE [n \in 1..(e - d + 2) |-> DayStart(era, d + n - 1)]
(* Mutant: a row on a boundary is left in the bucket before. *)
width_bucket_Below(t, boundaries) == Cardinality({n \in DOMAIN boundaries : boundaries[n] < t})
width_bucket(t, boundaries) == Cardinality({n \in DOMAIN boundaries : boundaries[n] <= t})

Statement(figure, site, era, d, e, cut) ==
  LET boundaries == Boundaries(figure, era, d, e)
      span == Span(era, From, To, cut)
  IN [figure |-> figure, site |-> site, era |-> era, first |-> d, boundaries |-> boundaries,
      span |-> <<Greater(span[1], boundaries[1]), Lesser(span[2], boundaries[Len(boundaries)])>>]

Found(s) ==
  {e \in stored[s.era] :
     /\ e.site = s.site /\ e.table = TableOf(s.figure)
     /\ s.span[1] <= TimeOf(s.era, e) /\ TimeOf(s.era, e) < s.span[2]}

(* The cell of the report a row is counted in. *)
CellOf(s, e) ==
  LET bucket == width_bucket(TimeOf(s.era, e), s.boundaries) - 1 IN
  [figure |-> s.figure, key |-> Key(s.figure, e),
   day  |-> s.first + (IF ByHour(s.figure) THEN bucket \div HoursPerDay ELSE bucket),
   hour |-> IF ByHour(s.figure) THEN bucket % HoursPerDay ELSE 0]

(* Era 1 first, and only an era that owns some of the time is read: all   *)
(* the days at once, or their hours stretch after stretch.                 *)
BothEras(figure, site, d, e, cut) ==
  SelectSeq(<<Statement(figure, site, 1, d, e, cut), Statement(figure, site, 2, d, e, cut)>>, LAMBDA s : Owns(s.span))
CountsByDay(figure, site, cut) == BothEras(figure, site, From, To, cut)
CountsByHour(figure, site, cut) ==
  LET after[d \in From..(To + StretchDays)] ==
        IF d > To THEN <<>>
        ELSE BothEras(figure, site, d, Lesser(To, d + StretchDays - 1), cut) \o after[d + StretchDays]
  IN after[From]

DestinationCounts(site, cut)  == CountsByDay("destination", site, cut)
RejectReasonCounts(site, cut) == CountsByDay("reasons", site, cut)
BinVolume(site, cut)          == CountsByHour("bins", site, cut)

(* What a report reads, in order: of a site, or of each of several. *)
SiteReport(kind, site, cut) ==
  CASE kind = "overview"    -> DestinationCounts(site, cut) \o CountsByDay("rejects", site, cut)
    [] kind = "routing"     -> DestinationCounts(site, cut)
    [] kind = "volume"      -> CountsByHour("hours", site, cut)
    [] kind = "bins"        -> BinVolume(site, cut)
    [] kind = "reliability" -> CountsByDay("checkins", site, cut) \o RejectReasonCounts(site, cut)
SiteKinds         == {"overview", "routing", "volume", "bins", "reliability"}
OrganizationKinds == {"overview", "routing", "reliability"}

Keys == {"home", "annex", "other", "unknown", "all"}
Figures(kind) == {s.figure : s \in Range(SiteReport(kind, Listed[1], DayStart(2, To)) \o SiteReport(kind, Listed[1], None))}
Cells(kind) == [figure : Figures(kind), key : Keys, day : Days, hour : Hours]

-----------------------------------------------------------------------------
(* Making a report.  Of a site: its cutover is looked up once, and its     *)
(* statements run one after the other, each with what is stored by then.   *)
(* Of an organization: its sites one by one; one that does not resolve is  *)
(* unavailable if an operational id is missing, and else ends the report.  *)
Begin(kind, organization, sites) ==
  /\ report = NoReport /\ begun = <<>>
  /\ report' = [NoReport EXCEPT !.kind = kind, !.organization = organization, !.sites = sites,
                                !.cells = [c \in Cells(kind) |-> 0]]
  /\ begun' = [stored |-> stored, cuts |-> cuts, mapped |-> mapped]
  /\ UNCHANGED <<zone, events, stored, cuts, mapped>>
BeginSite == \E kind \in SiteKinds, site \in mapped : Begin(kind, FALSE, <<site>>)
BeginOrganization == \E kind \in OrganizationKinds : Begin(kind, TRUE, Listed)

(* report_window, and the statements that follow. *)
Open ==
  /\ report.todo = <<>> /\ report.sites # <<>> /\ ~report.missed
  /\ LET site == Head(report.sites)
         cut == EffectiveCutover(site)
     IN /\ site \in mapped
        /\ report' = [report EXCEPT !.sites = Tail(@), !.read = @ \cup {<<site, cut>>},
                                    !.todo = SiteReport(report.kind, site, cut)]
  /\ UNCHANGED <<zone, events, stored, cuts, mapped, begun>>

(* A listed site that does not resolve; looked at once more. *)
Unresolved ==
  /\ report.todo = <<>> /\ report.sites # <<>> /\ ~report.missed /\ Head(report.sites) \notin mapped
  /\ report' = [report EXCEPT !.missed = TRUE]
  /\ UNCHANGED <<zone, events, stored, cuts, mapped, begun>>
LookAgain ==
  /\ report.missed
  /\ report' = IF Head(report.sites) \in mapped THEN [NoReport EXCEPT !.kind = "failed"]
               ELSE [report EXCEPT !.sites = Tail(@), !.missed = FALSE]
  /\ UNCHANGED <<zone, events, stored, cuts, mapped, begun>>

Execute ==
  /\ report.todo # <<>>
  /\ LET s == Head(report.todo) IN
       report' = [report EXCEPT !.todo = Tail(@),
         !.cells = [c \in DOMAIN @ |-> @[c] + Cardinality({e \in Found(s) : CellOf(s, e) = c})]]
  /\ UNCHANGED <<zone, events, stored, cuts, mapped, begun>>

Finished == report.kind \notin {"none", "failed"} /\ report.todo = <<>> /\ report.sites = <<>>

(* Meanwhile: a row arrives, once; the operator records a cutover or a     *)
(* rollback; a site gets its operational id.  An upload of era 1 that is   *)
(* still queued when a cutover takes effect is refused (it does not arrive *)
(* any more), and what era 2 has for that time is not counted.             *)
Arrive(era, e) ==
  /\ ~Finished /\ e \notin stored[era]
  /\ stored' = [stored EXCEPT ![era] = @ \cup {e}]
  /\ UNCHANGED <<zone, events, cuts, mapped, report, begun>>
RecordCutover(site, cut) ==
  /\ ~Finished /\ Len(cuts[site]) < MaxCuts
  /\ cuts' = [cuts EXCEPT ![site] = Append(@, cut)]
  /\ UNCHANGED <<zone, events, stored, mapped, report, begun>>
AssignIdentity(site) ==
  /\ ~Finished /\ site \notin mapped /\ mapped' = mapped \cup {site}
  /\ UNCHANGED <<zone, events, stored, cuts, report, begun>>

Next ==
  \/ BeginSite \/ BeginOrganization \/ Open \/ Unresolved \/ LookAgain \/ Execute
  \/ \E e \in events, era \in Era : Arrive(era, e)
  \/ \E site \in Sites : AssignIdentity(site) \/ \E cut \in CutAt : RecordCutover(site, cut)

Spec == Init /\ [][Next]_vars

-----------------------------------------------------------------------------
(* The reads of a single day: the rows of each era that are its own, an    *)
(* hour being a column of its own.                                         *)
OfDay(table, site, d) ==
  {<<era, e>> \in Era \X (stored[1] \cup stored[2]) :
     LET span == Span(era, d, d, EffectiveCutover(site)) IN
     /\ e \in stored[era] /\ e.site = site /\ e.table = table
     /\ span[1] <= TimeOf(era, e) /\ TimeOf(era, e) < span[2]}
CheckinCount(site, d) == Cardinality(OfDay("checkin", site, d))
HourColumn(site, d, hour, bin) ==
  Cardinality({r \in OfDay("checkin", site, d) :
    /\ HourStart(r[1], d, hour) <= TimeOf(r[1], r[2]) /\ TimeOf(r[1], r[2]) < HourStart(r[1], d, hour + 1)
    /\ bin \in {"all", BinOf(r[2])}})
RejectCount(site, d) == Cardinality(OfDay("reject", site, d))
RejectsByReason(site, d, reason) == Cardinality({r \in OfDay("reject", site, d) : ReasonOf(r[2]) = reason})
CheckinsByDestination(site, d, key) == Cardinality({r \in OfDay("checkin", site, d) : DestinationOf(r[2]) = key})

(* "Every day of a range has exactly the counts the single-day reads give  *)
(* for that day", hour by hour and key by key, whatever the clocks do.     *)
DaysMatch ==
  report = NoReport =>
    \A site \in Sites, d \in Days :
      LET cut == EffectiveCutover(site)
          In(statements, key, hour) ==
            MapThenSumSet(LAMBDA n :
              Cardinality({e \in Found(statements[n]) :
                CellOf(statements[n], e) = [figure |-> statements[n].figure, key |-> key, day |-> d, hour |-> hour]}),
              DOMAIN statements)
      IN /\ CheckinCount(site, d) = In(CountsByDay("checkins", site, cut), "all", 0)
         /\ RejectCount(site, d) = In(CountsByDay("rejects", site, cut), "all", 0)
         /\ \A hour \in Hours :
              /\ HourColumn(site, d, hour, "all") = In(CountsByHour("hours", site, cut), "all", hour)
              /\ \A bin \in Keys \ {"all"} :
                   HourColumn(site, d, hour, bin) = In(BinVolume(site, cut), bin, hour)
         /\ \A key \in Keys :
              /\ RejectsByReason(site, d, key) = In(RejectReasonCounts(site, cut), key, 0)
              /\ CheckinsByDestination(site, d, key) = In(DestinationCounts(site, cut), key, 0)

(* What a report says: every row stored before it began is counted exactly *)
(* once, on the day and in the hour the library's own clock showed, in the *)
(* era that owns it by the cutover the report went by; a row that arrived  *)
(* meanwhile at most once; and nothing else.  A site without figures had   *)
(* no operational id when it was read.  Only where the cutover itself is   *)
(* in an hour that happens twice, the rows of that hour may be on either   *)
(* side of it.                                                             *)
Owner(e, cut) == IF cut # None /\ e.at >= cut THEN 2 ELSE 1
Twice(i) == \E k \in (i - DayTicks)..(i + DayTicks) : k # i /\ Wall(k) = Wall(i)
Unclear(e, cut) == cut # None /\ Twice(cut) /\ Twice(e.at)
CellOnTheClock(figure, e) ==
  [figure |-> figure, key |-> Key(figure, e), day |-> Wall(e.at) \div DayTicks,
   hour |-> IF ByHour(figure) THEN (Wall(e.at) % DayTicks) \div HourTicks ELSE 0]
CountedOnce ==
  Finished =>
    /\ report.organization => begun.mapped \subseteq {s[1] : s \in report.read}
    /\ \A c \in DOMAIN report.cells :
         LET Here(rows, certain) ==
               Cardinality({<<era, e>> \in Era \X events :
                 /\ e \in rows[era] /\ e.table = TableOf(c.figure) /\ CellOnTheClock(c.figure, e) = c
                 /\ \E s \in report.read : s[1] = e.site /\
                      IF Unclear(e, s[2]) THEN ~certain ELSE Owner(e, s[2]) = era})
         IN Here(begun.stored, TRUE) <= report.cells[c] /\ report.cells[c] <= Here(stored, FALSE)
=============================================================================
