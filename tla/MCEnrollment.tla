---------------------------- MODULE MCEnrollment ----------------------------
(* Small instances of Enrollment: a library with two installations.        *)
EXTENDS KeyInventory

Base(s1, c1, s2, c2) ==
  Over(One(Org, "active"), Over(One(Branch, "pending"),
    Over(One(Inst(1), [status |-> s1, contract |-> c1, heard |-> 0]), One(Inst(2), [status |-> s2, contract |-> c2, heard |-> 0]))))
CodeRow(i, c, s)     == One(<<"code", i>>, [inst |-> i, contract |-> c, state |-> s, at |-> IF s = "used" THEN i ELSE 0])
TokenRow(k, i, from) == One(<<"token", k>>, [inst |-> i, active |-> TRUE, from |-> from])
KeyRow(k, i)         == One(<<"key", k>>, [owner |-> i, active |-> TRUE, heard |-> 0])
CutRow               == One(<<"cut", 1>>, [by |-> "enrollment", code |-> 1, inst |-> 1])

(* Two codes were issued for one branch. *)
Invited == Over(CodeRow(1, 2, "unused"), Over(CodeRow(2, 2, "unused"), Base("provisioning", 2, "provisioning", 2)))

(* Installation 1 enrolled on contract 2, installation 2 on contract 1. *)
Served ==
  Over(CodeRow(1, 2, "used"), Over(TokenRow(1, 1, 1), Over(KeyRow(1, 1), Over(CutRow,
    Over(CodeRow(2, 1, "used"), Over(TokenRow(2, 2, 2), Base("active", 2, "active", 1)))))))

(* An operator's unbound token and unowned key, and a code issued before   *)
(* the key; a legacy installation with a code of its own.                  *)
Legacy ==
  Over(TokenRow(3, 0, 0), Over(KeyRow(3, 0), Over(CodeRow(1, 2, "unused"), Over(CodeRow(2, 1, "unused"),
    Base("provisioning", 2, "inactive", 1)))))

(* Suspended; the owner of the key is out of service, the other            *)
(* installation has a code for contract 1 that was never redeemed.         *)
Suspended ==
  Over(One(Org, "suspended"), Over(CodeRow(1, 2, "used"), Over(TokenRow(1, 1, 1), Over(KeyRow(1, 1),
    Over(CutRow, Over(CodeRow(2, 1, "unused"), Base("inactive", 2, "provisioning", 1)))))))

(* Enrolled when a key had no owner, beside an installation that never     *)
(* was; and the same with a record that names the other installation.      *)
Unowned ==
  Over(CodeRow(1, 2, "used"), Over(TokenRow(1, 1, 1), Over(KeyRow(1, 0), Over(CutRow,
    Base("active", 2, "provisioning", 1)))))
Doubtful == Over(One(<<"cut", 1>>, [by |-> "enrollment", code |-> 1, inst |-> 2]), Unowned)

All == {Invited, Served, Legacy, Suspended, Unowned, Doubtful}
=============================================================================
