--------------------------- MODULE MCTenantPurge ---------------------------
(* Two libraries, the first of them on its way out.                        *)
EXTENDS TenantPurge

RECURSIVE Join(_)
Join(seq) == IF seq = <<>> THEN <<>> ELSE Over(Head(seq), Join(Tail(seq)))

(* A library with its structure, an installation, its token, and a row of  *)
(* the table that has no foreign keys.                                     *)
Library(o, live) ==
  Join(<<One(Customer(Cust(o)), Row(0, 0, 0, 0, FALSE)), One(Org(o), Row(Cust(o), 0, 0, 0, live)),
         One(Branch(o), Row(0, 0, o, 0, FALSE)), One(<<"account", o>>, Row(0, 0, o, 0, FALSE)),
         One(<<"inst", o>>, Row(0, o, o, 0, live)), One(<<"token", o>>, Row(Cust(o), o, 0, o, live)),
         One(<<"acs", o>>, Row(Cust(o), o, 0, 0, FALSE))>>)
CutOff == One(<<"evid", 1>>, [o |-> 1, event |-> "cutoff"])
Ended  == Join(<<CutOff, Library(1, FALSE), Library(2, TRUE)>>)
V1Rows == Join(<<One(<<"v1", 1>>, Row(2, 1, 0, 0, FALSE)), One(<<"clean", 1>>, Row(2, 1, 0, 0, FALSE)),
                 One(<<"token", 3>>, Row(2, 1, 0, 0, TRUE))>>)
V2Rows(live) ==
  Join(<<One(<<"v2", 1>>, Row(2, 1, 0, 0, FALSE)), One(<<"key", 1>>, Row(2, 1, 0, 1, live)),
         One(<<"cut", 1>>, Row(2, 1, 0, 0, FALSE)), One(<<"code", 1>>, Row(0, 0, 0, 1, live)),
         One(<<"status", 1>>, Row(2, 1, 0, 0, FALSE)), One(<<"bset", 1>>, Row(0, 1, 0, 0, FALSE))>>)

(* In service, on either contract; cut off; and cut off with rows that     *)
(* cannot be told whose they are, or with a credential alive again.        *)
ServingV1 == Over(V1Rows, Over(Library(1, TRUE), Library(2, TRUE)))
ServingV2 == Over(V2Rows(TRUE), Over(Library(1, TRUE), Library(2, TRUE)))
Odd ==
  {One(<<"acs", 3>>, Row(c, b, 0, 0, FALSE)) : c \in {0, 1, 2}, b \in {0, 1, 2}}
  \cup {One(<<"token", 3>>, Row(2, 1, 0, 0, TRUE)), One(Org(1), Row(0, 0, 0, 0, FALSE))}
All == {ServingV1, ServingV2, Over(V2Rows(FALSE), Ended)} \cup {Over(x, Ended) : x \in Odd}
=============================================================================
