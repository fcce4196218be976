--------------------------- MODULE MCRangeReports ---------------------------
(* Small instances of RangeReports: days of three hours, hours of two ticks. *)
EXTENDS RangeReports

Event(at, site, table, what) == [at |-> at, site |-> site, table |-> table, what |-> what]
Zone(at, before, after) == [at |-> at, before |-> before, after |-> after]

(* Clocks that stay, go forward and back in the middle of a day, by an     *)
(* hour or by half, at midnight, and by a whole day.              *)
Clocks ==
  {Zone(99, 2, 2), Zone(8, 2, 4), Zone(8, 4, 2), Zone(9, 3, 4), Zone(9, 4, 3),
   Zone(10, 2, 4), Zone(10, 4, 2), Zone(4, 2, 8)}

(* An item at any instant, which both eras have, across a cutover at any   *)
(* instant, or a cutover that was taken back.                              *)
Settled ==
  [zones |-> Clocks,
   events |-> {{Event(i, 1, "checkin", "annex"), Event(i, 1, "reject", "unlisted")} : i \in 3..17},
   cuts |-> {<<<<5, c>>, <<None, None>>>> : c \in (2..17) \cup {None}},
   mapped |-> {{1, 2}},
   eras |-> {Era}]

(* Rows that arrive, cutovers recorded and a site that gets its id while a *)
(* report is being made.                                                   *)
Moving ==
  [zones |-> {Zone(8, 4, 2)},
   events |-> {{Event(9, 1, "reject", "unlisted"), Event(9, 2, "checkin", "unlisted")}},
   cuts |-> {<<<<9>>, <<5, 8>>>>},
   mapped |-> {{1}},
   eras |-> {{}}]

(* The same before any cutover was recorded. *)
Fresh ==
  [Moving EXCEPT !.events = {{Event(9, 1, "checkin", "home")}}, !.cuts = {<<<<>>, <<5, 8>>>>}, !.mapped = {{1, 2}}]

All == {Settled, Moving, Fresh}
OneThenTwo == <<1, 2>>
Cuts == {8, -1}
=============================================================================
