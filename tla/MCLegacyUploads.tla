-------------------------- MODULE MCLegacyUploads --------------------------
(* Small instances of LegacyUploads. *)
EXTENDS LegacyUploads

Bare ==
  [programs |-> {}, old |-> None, lines |-> None, halves |-> FALSE, trouble |-> 0, bootstrap |-> FALSE,
   mayChange |-> FALSE, mayCutOver |-> FALSE, reporters |-> {}]

(* The Collector alone, from its bootstrap on, through every kind of       *)
(* trouble.                                                                *)
Alone ==
  [Bare EXCEPT
   !.programs = {Collector}, !.bootstrap = TRUE, !.mayChange = TRUE, !.trouble = 2,
   !.old = [checkins |-> <<Line(1, "b", TRUE)>>, acs |-> <<>>],
   !.lines = [checkins |-> <<Line(2, "b", FALSE), Line(3, "b", TRUE)>>, acs |-> <<Line(2, NoBarcode, TRUE)>>]]

(* With a line that is written in two parts, and a cutover. *)
CutOver ==
  [Bare EXCEPT
   !.programs = {Collector}, !.mayCutOver = TRUE, !.halves = TRUE, !.trouble = 2,
   !.lines = [checkins |-> <<Line(1, "b", TRUE), Line(2, "b", TRUE)>>, acs |-> <<Line(1, NoBarcode, TRUE)>>]]

(* Beside the pipeline, as while it was being replaced. *)
Beside ==
  [Bare EXCEPT
   !.programs = {Collector, Pipeline}, !.halves = TRUE, !.trouble = 1,
   !.lines = [checkins |-> <<Line(1, "b", FALSE)>>, acs |-> <<Line(1, NoBarcode, TRUE)>>]]

(* Who reports, around a cutover. *)
Reports == [Bare EXCEPT !.programs = {Pipeline}, !.reporters = {"agent", "keys"}, !.mayCutOver = TRUE, !.trouble = 2]

All == {Alone, CutOver, Beside, Reports}
=============================================================================
