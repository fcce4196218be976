------------------------- MODULE MCLibrarySettings -------------------------
(* Libraries to configure: some whose people are at work, and many that    *)
(* are configured one way or another and nobody is working on.             *)
EXTENDS LibrarySettings

Separators == {" ", "-", "_", "!", "?", "#"}
Aliases    == {<<"1">>, <<"local">>, <<"main">>}
Own        == <<<<"west", "side">>, <<"library", " ", "express">>, <<"no", " ", "agency", " ", "destination">>>>
Central    == <<"central">>
North      == <<"north">>
NorthEast  == <<"north", " ", "east">>
Annex      == <<"west", "side", " ", "annex">>
Long       == <<"north", " ", "east", " ", "side", " ", "depot">>
Strange    == <<"?", "?">>
Local      == <<"local", "!">>
Number     == <<"#", "1">>
Everywhere == [d \in 1..4 |-> 10 * d + 3]

(* Labels that contain each other, that differ in a separator only, with   *)
(* blanks around them, cut, of digits, of nothing a key can hold, and with *)
(* keys that mean home when keyed again.                                   *)
Overlapping == {North, NorthEast, <<"north", "-", "east">>, Annex, Strange, Local}
Labels      == Overlapping \cup {Central, Long, Number, <<" ", "north", " ">>, <<"library", "-", "express">>, <<"main">>}
Otherwise   == {<<"north", " ", " ", "east">>, <<"north", "east">>, <<"north", "_", "east">>, <<"library", " ", "express">>,
                <<"west", "-", "side">>, <<"west", "side", "annex">>, <<"unknown">>}
Dest(l, on)   == [label |-> l, on |-> on]
Block(h, s)   == [home |-> h, dests |-> s]
Bodies ==
  {Block(h, <<Dest(l, TRUE)>>) : h \in {Blank, Central, <<"main">>}, l \in Labels \cup {Blank}}
  \cup {Block(Blank, <<Dest(l, a), Dest(m, TRUE)>>) : l \in Overlapping, m \in Overlapping, a \in BOOLEAN}
Saved(body)  == Over(One("by", "api"), Serialized(body))
Good         == {b \in Bodies : Valid(b)}

(* Of an organization, a sorter and SortView Value, all that can be said   *)
(* and some that cannot.                                                   *)
Rates == {<<>>, [labor_rate |-> Text(175, 1)], [manual_items_per_hour |-> Text(250, 0)],
          [labor_rate |-> Text(20, 0), manual_items_per_hour |-> Text(605, 1)]}
Broken    == [labor_rate |-> Text(1750, 3)]
SorterOwn == {Over(r, c) : r \in Rates,
                c \in {<<>>, [recurring_annual_cost |-> Text(0, 0)], [in_service_date |-> 3],
                       [recurring_annual_cost |-> Text(120005, 2), in_service_date |-> 2, one_time_cost |-> Text(5, 0)]}}
Work(n, b, c) ==
  [tasks_per_month |-> Text(n, 0), baseline_minutes_per_task |-> Text(b, 1), current_minutes_per_task |-> Text(c, 1)]
Trouble(n, b, c) ==
  [incidents_per_month |-> Text(n, 0), staff_per_incident |-> Text(2, 0), baseline_minutes |-> Text(b, 1),
   current_minutes |-> Text(c, 1)]
Money(c) == [labor_rate |-> Text(2, 0), subscription_annual_cost |-> Text(c, 2)]
Estimated ==
  {Over(m, Over(r, s)) :
     m \in {<<>>, Money(0), Money(7), Money(1500), [subscription_annual_cost |-> Text(12, 0)]},
     r \in {<<>>, [reporting |-> Work(2, 75, 20)], [reporting |-> Work(2, 20, 75)],
            [reporting |-> [tasks_per_month |-> Text(2, 0), basis |-> "estimate", as_of |-> 1]]},
     s \in {<<>>, [troubleshooting |-> Trouble(1, 55, 5)], [troubleshooting |-> Trouble(0, 55, 5)],
            [troubleshooting |-> Trouble(1, 5, 40)]}}

RECURSIVE Join(_)
Join(seq) == IF seq = <<>> THEN <<>> ELSE Over(Head(seq), Join(Tail(seq)))
Library(i, slug, customer) ==
  Join(<<One(Org(i), [slug |-> slug, status |-> "active", customer |-> customer]), One(Slug_(slug), i),
         One(Branch(i), IF customer = 0 THEN 0 ELSE i),
         IF customer = 0 THEN <<>> ELSE One(Customer(customer), "a customer")>>)
Staff(i)       == Over(One(Member(i), TRUE), One(Sorter(i), TRUE))
Reviewed(doc)  == Join(<<One("zone", "a zone"), One("review", "a review"), doc>>)
At0(database)  == [db |-> database, over |-> 0]
Over0(database) == [db |-> database, over |-> MaxTx]

(* A library nobody has configured, and one that is; another beside it. *)
FirstBody == CHOOSE b \in Good : b.dests[1].label = North
Plain     == Join(<<Staff(1), Library(1, "a", 0)>>)
Furnished ==
  Join(<<One(Site(1), [efficiency |-> [labor_rate |-> Text(1900, 2)]]),
         One(Doc(1), Reviewed([transit |-> Saved(FirstBody), internal |-> [names |-> <<North>>],
                               efficiency |-> Broken, value |-> Money(7)])),
         Staff(1), Library(1, "a", 1)>>)
Beside    == Join(<<Library(1, "a", 1), Library(2, "b", 0)>>)

Configured ==
  {Join(<<One(Doc(1), [transit |-> Saved(n)]), One(Handed(1), HandOut([transit |-> Saved(b)])), Library(1, "a", 1)>>)
     : n \in Good, b \in Good}
Priced ==
  {Join(<<One(Doc(1), [efficiency |-> o]), One(Site(1), [efficiency |-> s]), Library(1, "a", 1)>>)
     : o \in Rates \cup {Broken}, s \in SorterOwn}
Valued ==
  {Join(<<One(Doc(1), [efficiency |-> o, value |-> v]), Library(1, "a", 1)>>) : o \in Rates \cup {Broken}, v \in Estimated}

AllPasts == {At0(Plain), At0(Furnished), At0(Beside)}
            \cup {Over0(d) : d \in Configured} \cup {Over0(d) : d \in Priced} \cup {Over0(d) : d \in Valued}

SomeTransit    == {Block(Blank, <<Dest(North, TRUE), Dest(NorthEast, TRUE)>>),
                   Block(Central, <<Dest(Central, TRUE)>>), Block(Central, <<Dest(Annex, FALSE)>>)}
AllTexts       == Labels \cup Otherwise \cup Aliases \cup {Blank}
SomeEfficiency == {<<>>, [labor_rate |-> Text(20, 0)], [one_time_cost |-> Text(5, 0)]}
SomeSorter     == {[in_service_date |-> 3], [in_service_date |-> 9]}
SomeValue      == {<<>>, Over(Money(7), [reporting |-> Work(2, 75, 20)])}
SomeLists      == {[names |-> <<NorthEast, Blank, North, NorthEast>>]}
=============================================================================
