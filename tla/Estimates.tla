----------------------------- MODULE Estimates -----------------------------
(***************************************************************************)
(* The two reports that put a price on a library's work: Efficiency, for a *)
(* sorter over some days, and SortView Value, for an organization.  What   *)
(* was entered for them, which of it applies, and the arithmetic.          *)
(*                                                                         *)
(* A decimal is written as a text, here its digits without the point and   *)
(* how many of them follow it, and is a whole number of the smallest unit  *)
(* of its field: cents, tenths.  An optional value is a set of at most one *)
(* element; a field that is absent from a block is unknown.                *)
(***************************************************************************)
EXTENDS Integers, Sequences, FiniteSets, FiniteSetsExt

Text(digits, places) == [digits |-> digits, places |-> places]

DecimalField(places, minimum, maximum, above) ==
  [places |-> places, minimum |-> minimum, maximum |-> maximum, above |-> above]

EfficiencyFields ==
  [labor_rate            |-> DecimalField(2, 0, 1000, TRUE),
   manual_items_per_hour |-> DecimalField(1, 1, 1000, FALSE),
   one_time_cost         |-> DecimalField(2, 0, 100000000, FALSE),
   recurring_annual_cost |-> DecimalField(2, 0, 10000000, FALSE)]
OrganizationFields == {"labor_rate", "manual_items_per_hour"}
SorterFields       == DOMAIN EfficiencyFields \cup {"in_service_date"}

PerMonth == DecimalField(1, 0, 100000, FALSE)
Minutes  == DecimalField(1, 0, 10000, FALSE)
ValueFields ==
  [labor_rate                |-> DecimalField(2, 0, 10000, TRUE),
   subscription_annual_cost  |-> DecimalField(2, 0, 10000000, FALSE),
   tasks_per_month           |-> PerMonth,
   baseline_minutes_per_task |-> Minutes,
   current_minutes_per_task  |-> Minutes,
   incidents_per_month       |-> PerMonth,
   staff_per_incident        |-> DecimalField(1, 0, 1000, TRUE),
   baseline_minutes          |-> Minutes,
   current_minutes           |-> Minutes]
OwnFields     == {"labor_rate", "subscription_annual_cost"}
Reporting     == {"tasks_per_month", "baseline_minutes_per_task", "current_minutes_per_task"}
Troubleshooting == {"incidents_per_month", "staff_per_incident", "baseline_minutes", "current_minutes"}
Described     == {"basis", "as_of"}
Bases         == {"estimate", "measured"}

-----------------------------------------------------------------------------
(* Reading and writing a block.                                            *)
ParseDecimalText(text, field) ==
  LET whole == text.digits \div 10^text.places
      part  == text.digits % 10^text.places
      low   == field.minimum
  IN IF \/ text.places > field.places
        \/ whole < low \/ (field.above /\ whole = low /\ part = 0)
        \/ whole > field.maximum \/ (whole = field.maximum /\ part > 0)
     THEN {} ELSE {text.digits * 10^(field.places - text.places)}

ParseDate(day, notAfter) == IF \A d \in notAfter : day <= d THEN {day} ELSE {}

Parse(name, value, fields, notAfter) ==
  CASE name \in {"in_service_date", "as_of"} -> ParseDate(value, notAfter)
    [] name = "basis"                        -> {value} \cap Bases
    [] OTHER                                 -> ParseDecimalText(value, fields[name])

Malformed(block, fields, owned, notAfter) ==
  {n \in owned \cap DOMAIN block : Parse(n, block[n], fields, notAfter) = {}}
Values(block, fields, owned) ==
  [n \in owned |-> IF n \in DOMAIN block THEN Parse(n, block[n], fields, {}) ELSE {}]

(* What may be stored: nothing unknown, nothing malformed, no date to come. *)
Acceptable(block, fields, owned, today) ==
  DOMAIN block \subseteq owned /\ Malformed(block, fields, owned, {today}) = {}

(* What is stored: the fields that are set, with all their places. *)
Written(values, fields) ==
  [n \in {m \in DOMAIN values : values[m] # {}} |->
     LET v == CHOOSE v \in values[n] : TRUE
     IN IF n \in DOMAIN fields THEN Text(v, fields[n].places) ELSE v]

(* A document's own block, or a part of a block, that may not be there. *)
Part(block, name) == IF name \in DOMAIN block THEN block[name] ELSE <<>>

OrganizationReadable(block) == Malformed(block, EfficiencyFields, OrganizationFields, {}) = {}
OrganizationEfficiency(block) == Values(block, EfficiencyFields, OrganizationFields)
SorterEfficiency(block)       == Values(block, EfficiencyFields, SorterFields)

ValueAcceptable(block, today) ==
  /\ DOMAIN block \subseteq OwnFields \cup {"reporting", "troubleshooting"}
  /\ Malformed(block, ValueFields, OwnFields, {}) = {}
  /\ Acceptable(Part(block, "reporting"), ValueFields, Reporting \cup Described, today)
  /\ Acceptable(Part(block, "troubleshooting"), ValueFields, Troubleshooting \cup Described, today)
ValueSettings(block) ==
  [own             |-> Values(block, ValueFields, OwnFields),
   reporting       |-> Values(Part(block, "reporting"), ValueFields, Reporting \cup Described),
   troubleshooting |-> Values(Part(block, "troubleshooting"), ValueFields, Troubleshooting \cup Described)]
(* A kind of work with nothing set is left out. *)
ValueWritten(settings) ==
  LET own  == Written(settings.own, ValueFields)
      kind == [k \in {"reporting", "troubleshooting"} |-> Written(settings[k], ValueFields)]
      set  == {k \in DOMAIN kind : DOMAIN kind[k] # {}}
  IN [n \in DOMAIN own \cup set |-> IF n \in set THEN kind[n] ELSE own[n]]

-----------------------------------------------------------------------------
(* Efficiency.                                                             *)
Else(first, second) == IF first # {} THEN first ELSE second
Round(n, d) == IF n >= 0 THEN (2 * n + d) \div (2 * d) ELSE -((d - 2 * n) \div (2 * d))

(* Mutant: the two blocks are merged like any other setting. *)
Resolve_Merged(organization, sorter) ==
  [n \in SorterFields |-> Else(SorterEfficiency(sorter)[n], SorterEfficiency(organization)[n])]

(* resolve_efficiency_settings, of the two documents' blocks. *)
Resolve(organization, sorter) ==
  [n \in SorterFields |->
     IF n \in OrganizationFields
     THEN Else(SorterEfficiency(sorter)[n], OrganizationEfficiency(organization)[n])
     ELSE SorterEfficiency(sorter)[n]]

(* Mutant: the cost is charged for the whole range. *)
Charged_AllDays(days, settings) == days

InService(days, settings) == {d \in days : \A s \in settings.in_service_date : d >= s}
Charged(days, settings)   == InService(days, settings)

(* calculate_efficiency: `counts` has the check-ins of each day.  Hours    *)
(* and money are in hundredths, the cost of an item in ten-thousandths.    *)
EfficiencyReport(counts, settings) ==
  LET days     == InService(DOMAIN counts, settings)
      checkins == MapThenSumSet(LAMBDA d : counts[d], days)
      charged  == Cardinality(Charged(DOMAIN counts, settings))
      manual   == settings.manual_items_per_hour
      rate     == settings.labor_rate
      annual   == settings.recurring_annual_cost
      value    == {Round(10 * checkins * r, m) : r \in rate, m \in manual}
      cost     == {Round(a * charged, 365) : a \in annual}
  IN [checkins       |-> MapThenSumSet(LAMBDA d : counts[d], DOMAIN counts),
      inServiceDays  |-> Cardinality(days),
      inService      |-> checkins,
      hours          |-> {Round(1000 * checkins, m) : m \in manual},
      value          |-> value,
      cost           |-> cost,
      net            |-> {v - c : v \in value, c \in cost},
      costPerItem    |-> {Round(100 * a * charged, 365 * checkins) : a \in {x \in annual : checkins # 0}},
      missing        |-> {n \in SorterFields \ {"one_time_cost"} : settings[n] = {}}]

-----------------------------------------------------------------------------
(* SortView Value.  Hours are in sixty-thousandths until they are rounded. *)
(* resolve_labor_rate, with stored_sortview_value: an Efficiency block     *)
(* that cannot be read has no rate to fall back on.                        *)
LaborRate(value, organization) ==
  Else(value.own.labor_rate,
       IF OrganizationReadable(organization) THEN OrganizationEfficiency(organization).labor_rate ELSE {})

Recovered(volume, baseline, current) == {v * (b - c) : v \in volume, b \in baseline, c \in current}
ReportingHours(r)       == {10 * h : h \in Recovered(r.tasks_per_month, r.baseline_minutes_per_task, r.current_minutes_per_task)}
TroubleshootingHours(s) ==
  Recovered({i * p : i \in s.incidents_per_month, p \in s.staff_per_incident}, s.baseline_minutes, s.current_minutes)

Worth(hours, rate) ==
  LET monthly == {h * r : h \in hours, r \in rate}
  IN [hours |-> {Round(h, 600) : h \in hours}, monthly |-> {Round(m, 60000) : m \in monthly},
      annual |-> {Round(m, 5000) : m \in monthly}]

(* Mutant: a kind of work nobody described counts as nothing. *)
Both_OrNone(first, second) == {f + s : f \in Else(first, {0}), s \in Else(second, {0})}

Both(first, second) == {f + s : f \in first, s \in second}

(* Mutant: a payback whatever the value comes to. *)
Payback_Always(monthly, cost) == {Round(600000 * c, m) : m \in {x \in monthly : x # 0}, c \in cost}

(* In tenths of a month, of a cost in cents and a month's exact value. *)
Payback(monthly, cost) == {Round(600000 * c, m) : m \in {x \in monthly : x > 0}, c \in cost}

(* calculate_sortview_value.  The return is in tenths of a per cent. *)
ValueReport(settings, rate) ==
  LET reporting == ReportingHours(settings.reporting)
      trouble   == TroubleshootingHours(settings.troubleshooting)
      hours     == Both(reporting, trouble)
      monthly   == {h * r : h \in hours, r \in rate}
      cost      == settings.own.subscription_annual_cost
  IN [reporting       |-> Worth(reporting, rate),
      troubleshooting |-> Worth(trouble, rate),
      total           |-> Worth(hours, rate),
      net     |-> {Round(m - 5000 * c, 5000) : m \in monthly, c \in cost},
      roi     |-> {Round(m - 5000 * c, 5 * c) : m \in monthly, c \in cost \ {0}},
      payback |-> Payback(monthly, cost),
      missing |-> UNION {{n \in DOMAIN ValueFields \cap DOMAIN settings[k] : settings[k][n] = {}}
                            \X {k} : k \in DOMAIN settings}]
=============================================================================
