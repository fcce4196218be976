----------------------------- MODULE MCAccounts -----------------------------
(* Small instances of Accounts: which operations overlap, on which data.   *)
EXTENDS Accounts

AccountRow(u, active) == One(Account(u), [NewAccount EXCEPT !.active = active])
MemberRow(o, u, role) == One(Member(o, u), role)
SessionRow(k, u) == One(<<"session", k>>, [user |-> u, proof |-> 0, by |-> 0, revoked |-> FALSE])
TokenRow(k, u)   == One(<<"token", k>>, [user |-> u, state |-> "unused", spent |-> {}])

(* One organization, its owner and its administrator; nobody has made the  *)
(* third account.                                                          *)
Small ==
  [kinds |-> {"add", "role", "remove", "off"},
   db |-> Over(One(Org(1), "active"), Over(AccountRow(1, TRUE), Over(AccountRow(2, TRUE),
            Over(MemberRow(1, 1, "owner"), MemberRow(1, 2, "admin")))))]

(* Two owners of two organizations, switched off and on, removed and       *)
(* demoted. *)
Shared ==
  [kinds |-> {"role", "remove", "off", "on"},
   db |-> Over(One(Org(1), "active"), Over(One(Org(2), "trial"), Over(AccountRow(1, TRUE), Over(AccountRow(2, TRUE),
            Over(MemberRow(1, 1, "owner"), Over(MemberRow(1, 2, "owner"),
            Over(MemberRow(2, 1, "owner"), MemberRow(2, 2, "owner"))))))))]

(* Two organizations without an owner, one of them with an owner whose     *)
(* account is off and a member who was removed.                            *)
Empty ==
  [kinds |-> {"first", "on", "add"},
   db |-> Over(One(Org(1), "active"), Over(One(Org(2), "active"), Over(AccountRow(1, FALSE), Over(AccountRow(2, TRUE),
            Over(MemberRow(1, 1, "owner"), MemberRow(1, 2, "removed"))))))]

(* One person with a session and two tokens, who signs in, changes and     *)
(* resets the password and is switched off.                                *)
Person ==
  [kinds |-> {"login", "changing", "request", "reset", "logout", "off", "on"},
   db |-> Over(AccountRow(1, TRUE), Over(SessionRow(1, 1), Over(TokenRow(1, 1), TokenRow(2, 1))))]

All == {Small, Shared, Empty, Person}
=============================================================================
