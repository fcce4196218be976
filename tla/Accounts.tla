------------------------------ MODULE Accounts ------------------------------
(***************************************************************************)
(* Accounts and their sessions, and who belongs to which organization: the *)
(* transactions of signing in, of changing and resetting passwords, of     *)
(* administering members, and of switching an account off and on.          *)
(*                                                                         *)
(* Of the roles, a manager has a viewer's authority here: none.  Platform  *)
(* administrators act from outside.  A password is a number; whoever signs *)
(* in knows one or guesses wrong.                                          *)
(***************************************************************************)
EXTENDS Transactions, FiniteSets

CONSTANTS
  Pasts,          \* pairs of a database to begin with and the kinds of operation that overlap
  User,           \* the people, numbered
  MaxAttempts,    \* MAX_FAILED_ATTEMPTS
  GivenRoles      \* bound: the roles given

VARIABLES
  kinds,          \* the kinds of operation that overlap
  before,         \* history: the transactions that had ended when t began
  unseen          \* history: organizations an account came to own while it was being switched off

accountVars == <<vars, kinds, before, unseen>>

Past   == 2                 \* ids of the sessions and tokens there are to begin with
New(t) == Past + t

Org(o)       == <<"org", o>>
Account(u)   == <<"user", u>>
Member(o, u) == <<"member", u, o>>

(* The rows there are to begin with: an account by its number, a session   *)
(* and a token by theirs, each of an account that is there; the histories  *)
(* are empty, the password is the one of before, an organization's row is  *)
(* named by its number.                                                    *)
Fits(r, v) ==
  CASE r[1] = "user"    -> r = Account(r[2]) /\ v = [active |-> v.active, password |-> v.password, fails |-> v.fails,
                                                     locked |-> v.locked, off |-> v.off]
    [] r[1] = "session" -> /\ r = <<"session", r[2]>> /\ r[2] \in Nat /\ v.revoked \in BOOLEAN
                           /\ v = [user |-> v.user, proof |-> v.proof, by |-> v.by, revoked |-> v.revoked]
    [] r[1] = "token"   -> /\ r = <<"token", r[2]>> /\ r[2] \in Nat /\ v.state \in {"unused", "expired", "used"}
                           /\ v = [user |-> v.user, state |-> v.state, spent |-> v.spent]
    [] OTHER            -> TRUE
Typed(d) ==
  /\ d = [r \in DOMAIN d |-> d[r]]
  /\ \A r \in DOMAIN d : Fits(r, d[r]) /\ (r[1] \in {"session", "token"} => Account(d[r].user) \in DOMAIN d)
Begins(r, v) ==
  CASE r[1] = "user"    -> v.password = 0 /\ v.off = 0
    [] r[1] = "session" -> r[2] <= Past /\ v.proof = 0 /\ v.by = 0
    [] r[1] = "token"   -> r[2] <= Past /\ v.spent = {}
    [] r[1] = "org"     -> r = Org(r[2]) /\ r[2] \in Nat
    [] OTHER            -> TRUE

ASSUME AccountsAssumption ==
  /\ MaxTx \in Nat
  /\ \A past \in Pasts : Typed(past.db) /\ \A r \in DOMAIN past.db : Begins(r, past.db[r])

Init ==
  /\ \E past \in Pasts : kinds = past.kinds /\ Idle({past.db})
  /\ before = [t \in Tx |-> {}] /\ unseen = {}

-----------------------------------------------------------------------------
(* Questions to a database.                                                *)
Table(d, name) == {r \in DOMAIN d : r[1] = name}
Exists(d, u)   == Account(u) \in DOMAIN d
IsActive(d, u) == Exists(d, u) /\ d[Account(u)].active
Editable(d, o) == d[Org(o)] \in {"active", "trial"}

(* The role a membership gives now: none if there is none or it was        *)
(* removed; and of an actor whose account is off, none.                    *)
RoleOf(d, o, u)    == IF Member(o, u) \notin DOMAIN d \/ d[Member(o, u)] = "removed" THEN "none" ELSE d[Member(o, u)]
ActorRole(d, o, u) == IF IsActive(d, u) THEN RoleOf(d, o, u) ELSE "none"
ActiveOwners(d, o) == {u \in User : RoleOf(d, o, u) = "owner" /\ IsActive(d, u)}
Owned(d, u)        == {r \in Table(d, "org") : d[r] # "cancelled" /\ u \in ActiveOwners(d, r[2])}

(* membership_policy: who may give a role, and act on one who holds one.   *)
MayAssign(actor, role)  == actor \in {"owner", "admin"} /\ (role = "owner" => actor = "owner")
MayManage(actor, theirs) == actor \in {"owner", "admin"} /\ (theirs = "owner" => actor = "owner")

LiveSessions(d, u) == {r \in Table(d, "session") : d[r].user = u /\ ~d[r].revoked}
Unused(d, u)       == {r \in Table(d, "token") : d[r].user = u /\ d[r].state # "used"}
Gone(row)          == IF "revoked" \in DOMAIN row THEN [row EXCEPT !.revoked = TRUE]
                      ELSE [row EXCEPT !.state = "used"]
Open(d, r) == r \in Unused(d, d[r].user) \cup LiveSessions(d, d[r].user)

-----------------------------------------------------------------------------
(* Locks: what the next statement of t has to wait for.  An INSERT of an   *)
(* account waits for another of the same address.                          *)
MemberKinds == {"add", "role", "remove", "first"}
Target(t)   == Account(op[t].user)

(* Mutant: the token is read without FOR UPDATE. *)
TokenLock_None(t)   == {}
TokenLock(t)   == {<<op[t].token, Update>>}
AccountLock(t) == {<<Target(t), NoKeyUpdate>>}

(* Mutant: the owned organizations are locked in no common order. *)
NextOwned_AsFound(t) ==
  IF op[t].user = 1 THEN First(todo[t]) ELSE CHOOSE r \in todo[t] : \A s \in todo[t] : r[2] >= s[2]
NextOwned(t) == First(todo[t])

Wants(t) ==
  CASE pc[t] = "org"      -> {<<Org(op[t].org), Update>>}
    [] pc[t] = "orgs"     -> {<<NextOwned(t), Update>>}
    [] pc[t] = "account"  -> {<<Target(t), Update>>}
    [] pc[t] = "member"   -> {<<Org(op[t].org), KeyShare>>, <<Target(t), KeyShare>>}
    [] pc[t] \in {"restore", "change"} -> {<<Member(op[t].org, op[t].user), NoKeyUpdate>>}
    [] pc[t] \in {"switch", "password", "failed", "success"} -> AccountLock(t)
    [] pc[t] = "token"    -> TokenLock(t)
    [] pc[t] = "holder"   -> {<<Target(t), Update>>}
    [] pc[t] = "sweep"    -> IF todo[t] = {} THEN {} ELSE {<<First(todo[t]), NoKeyUpdate>>}
    [] pc[t] = "insert"   -> {<<Target(t), KeyShare>>}
    [] pc[t] = "revoke"   -> {<<op[t].session, NoKeyUpdate>>}
    [] OTHER              -> {}

Blocks(u, t) == HoldsUp(u, t, Wants(t))
At(t, some, where) == op[t].kind \in some /\ pc[t] = where /\ Free(t, Wants(t)) /\ UNCHANGED <<kinds, before, unseen>>
Go(t, where, written) == GoOn(t, Wants(t), where, written)
Sweep(t, rows, written) == Find(t, Wants(t), "sweep", rows, written) /\ UNCHANGED seen
(* A transaction of this one statement, committed at once. *)
Now(t, where, written) ==
  /\ db' = Over(written, db) /\ pc' = [pc EXCEPT ![t] = where]
  /\ UNCHANGED <<op, seen, todo, put, lock>>

-----------------------------------------------------------------------------
(* The operations.  Whoever signs in gives the password as it is when they *)
(* begin, or a wrong one; a password is named by the transaction that set  *)
(* it.  A change takes a valid session, a reset a token.                   *)
People == {u \in User : Exists(db, u)}
Orgs   == {r[2] : r \in Table(db, "org")}
Wrong  == MaxTx + 1
MemberOps ==
  [kind : {"add"}, org : Orgs, actor : People, user : User, role : GivenRoles]
  \cup [kind : {"role"}, org : Orgs, actor : People, user : People, role : GivenRoles]
  \cup [kind : {"remove"}, org : Orgs, actor : People, user : People]
  \cup [kind : {"first"}, org : Orgs, user : User, role : {"owner"}]
SwitchOps == [kind : {"off", "on"}, user : People]
Given(u) == {db[Account(u)].password, Wrong}
ValidSessions == {r \in Table(db, "session") : ~db[r].revoked /\ IsActive(db, db[r].user)}
SignOps ==
  (UNION {[kind : {"login"}, user : {u}, password : Given(u)] : u \in People})
  \cup (UNION {[kind : {"changing"}, user : {db[r].user}, password : Given(db[r].user)] : r \in ValidSessions})
  \cup [kind : {"request"}, user : People]
  \cup {[kind |-> "reset", user |-> db[r].user, token |-> r] : r \in Table(db, "token")}
  \cup {[kind |-> "logout", user |-> db[r].user, session |-> r] : r \in Table(db, "session")}

FirstStatement(kind) ==
  CASE kind \in MemberKinds -> "org" [] kind = "reset" -> "token" [] kind = "logout" -> "revoke"
    [] kind = "on" -> "switch" [] OTHER -> "read"

Begin(t) ==
  /\ Waiting(t)
  /\ \E o \in MemberOps \cup SwitchOps \cup SignOps :
       /\ o.kind \in kinds
       /\ op' = [op EXCEPT ![t] = o] /\ pc' = [pc EXCEPT ![t] = FirstStatement(o.kind)]
  /\ before' = [before EXCEPT ![t] = {u \in Tx : pc[u] = "done"}]
  /\ UNCHANGED <<db, seen, todo, put, lock, kinds, unseen>>

-----------------------------------------------------------------------------
(* Members.  The organization's row, with its status and the actor's role; *)
(* what an account or a membership is now.                                 *)
OrgLocked(t) ==
  LET o == op[t]
      actor == IF o.kind = "first" THEN "none" ELSE ActorRole(db, o.org, o.actor)
  IN
  /\ At(t, MemberKinds, "org") /\ Editable(db, o.org)
  /\ CASE o.kind = "add"   -> MayAssign(actor, o.role)
       [] o.kind = "first" -> ActiveOwners(db, o.org) = {} /\ (Exists(db, o.user) => IsActive(db, o.user))
       [] OTHER            -> MayManage(actor, "none")
  /\ pc' = [pc EXCEPT ![t] = CASE o.kind \in {"role", "remove"}             -> "target"
                               [] ~Exists(db, o.user)                        -> "account"
                               [] Member(o.org, o.user) \in DOMAIN db        -> "restore"
                               [] OTHER                                      -> "member"]
  /\ seen' = [seen EXCEPT ![t] = actor] /\ Take(t, Wants(t), <<>>) /\ UNCHANGED todo

(* A new account, unless someone else made it meanwhile. *)
NewAccount == [active |-> TRUE, password |-> 0, fails |-> 0, locked |-> FALSE, off |-> 0]
CreateAccount(t) ==
  /\ At(t, {"add", "first"}, "account")
  /\ op[t].kind = "first" /\ Exists(db, op[t].user) => IsActive(db, op[t].user)
  /\ Go(t, "member", IF Exists(db, op[t].user) THEN <<>> ELSE One(Target(t), NewAccount))

(* The membership: inserted, or given back with the role given now. *)
AddMember(t) ==
  /\ At(t, {"add", "first"}, "member") \/ At(t, {"add", "first"}, "restore")
  /\ RoleOf(db, op[t].org, op[t].user) = "none"
  /\ Go(t, "commit", One(Member(op[t].org, op[t].user), op[t].role))

(* Mutant: the account itself counts as the other owner. *)
AnotherOwner_Itself(o, u) == u \in ActiveOwners(db, o) => Cardinality(ActiveOwners(db, o)) >= 1
(* _require_another_active_owner, of one who is an active owner. *)
AnotherOwner(o, u) == u \in ActiveOwners(db, o) => Cardinality(ActiveOwners(db, o)) >= 2

(* The member to change, as they are now; the change. *)
CheckTarget(t) ==
  LET o == op[t]
      theirs == RoleOf(db, o.org, o.user)
  IN
  /\ At(t, {"role", "remove"}, "target")
  /\ theirs # "none" /\ MayManage(seen[t], theirs)
  /\ o.kind = "role" => MayAssign(seen[t], o.role) /\ o.role # theirs
  /\ AnotherOwner(o.org, o.user)
  /\ Go(t, "change", <<>>)
ChangeMember(t) ==
  /\ At(t, {"role", "remove"}, "change")
  /\ Go(t, "commit", One(Member(op[t].org, op[t].user), IF op[t].kind = "role" THEN op[t].role ELSE "removed"))

(* set_global_account_active: off, the organizations the account owns are  *)
(* locked one by one, and must be the same when they are.                  *)
ReadOwned(t) ==
  /\ At(t, {"off"}, "read")
  /\ LET owned == Owned(db, op[t].user) IN
       /\ seen' = [seen EXCEPT ![t] = owned] /\ todo' = [todo EXCEPT ![t] = owned]
       /\ pc' = [pc EXCEPT ![t] = IF owned = {} THEN "recheck" ELSE "orgs"]
  /\ UNCHANGED <<db, op, put, lock>>
LockOwned(t) ==
  /\ At(t, {"off"}, "orgs")
  /\ LET rest == todo[t] \ {NextOwned(t)} IN
       Find(t, Wants(t), IF rest = {} THEN "recheck" ELSE "orgs", rest, <<>>)
  /\ UNCHANGED seen
Recheck(t) ==
  /\ At(t, {"off"}, "recheck") /\ Owned(db, op[t].user) = seen[t]
  /\ \A r \in seen[t] : AnotherOwner(r[2], op[t].user)
  /\ Go(t, "switch", <<>>)
Switch(t) ==
  LET account == db[Target(t)] IN
  \/ /\ At(t, {"on"}, "switch")
     /\ Go(t, "commit", One(Target(t), [account EXCEPT !.active = TRUE]))
  \/ /\ At(t, {"off"}, "switch")
     /\ Sweep(t, LiveSessions(db, op[t].user), One(Target(t), [account EXCEPT !.active = FALSE, !.off = t]))

-----------------------------------------------------------------------------
(* Signing in: the account is read; the outcome is recorded; a session is  *)
(* made: three transactions.                                               *)
Login(t) ==
  LET account == db[Target(t)] IN
  /\ At(t, {"login"}, "read") /\ account.active /\ ~account.locked
  /\ Go(t, IF op[t].password = account.password THEN "success" ELSE "failed", <<>>)
LoginFailed(t) ==
  LET account == db[Target(t)]
      fails == IF account.fails < MaxAttempts THEN account.fails + 1 ELSE MaxAttempts
  IN
  /\ At(t, {"login"}, "failed")
  /\ Now(t, "commit", One(Target(t),
         [account EXCEPT !.fails = fails, !.locked = @ \/ fails >= MaxAttempts]))
LoginSucceeded(t) ==
  /\ At(t, {"login"}, "success")
  /\ Now(t, "insert", One(Target(t), [db[Target(t)] EXCEPT !.fails = 0, !.locked = FALSE]))
CreateSession(t) ==
  /\ At(t, {"login"}, "insert")
  /\ Now(t, "commit", One(<<"session", New(t)>>,
         [user |-> op[t].user, proof |-> op[t].password, by |-> t, revoked |-> FALSE]))

(* change_password: checked in one transaction, written in another. *)
CheckPassword(t) ==
  LET account == db[Target(t)] IN
  At(t, {"changing"}, "read") /\ account.active /\ op[t].password = account.password /\ Go(t, "password", <<>>)
NewPassword(t) == [db[Target(t)] EXCEPT !.password = t, !.fails = 0, !.locked = FALSE]
(* Mutant: a changed password leaves the sessions alone. *)
ChangePassword_KeepsSessions(t) == At(t, {"changing"}, "password") /\ Go(t, "commit", One(Target(t), NewPassword(t)))
ChangePassword(t) ==
  At(t, {"changing"}, "password") /\ Sweep(t, LiveSessions(db, op[t].user), One(Target(t), NewPassword(t)))

(* request_password_reset: the unused tokens are used up, a new one made. *)
Request(t) ==
  At(t, {"request"}, "read") /\ IsActive(db, op[t].user) /\ Sweep(t, Unused(db, op[t].user), <<>>)
CreateToken(t) ==
  /\ At(t, {"request"}, "insert")
  /\ Go(t, "commit", One(<<"token", New(t)>>, [user |-> op[t].user, state |-> "unused", spent |-> {}]))

(* reset_password_with_token: the token and its holder are locked; the     *)
(* password, all their tokens, all their sessions.                         *)
ResetToken(t) == At(t, {"reset"}, "token") /\ db[op[t].token].state = "unused" /\ Go(t, "holder", <<>>)
ResetPassword(t) ==
  /\ At(t, {"reset"}, "holder") /\ IsActive(db, op[t].user)
  /\ Sweep(t, Unused(db, op[t].user),
       Over(One(Target(t), NewPassword(t)), One(op[t].token, [db[op[t].token] EXCEPT !.spent = @ \cup {t}])))

(* One row of a statement over many; what follows the last one. *)
SweepRow(t) ==
  /\ At(t, {"off", "changing", "request", "reset"}, "sweep") /\ todo[t] # {}
  /\ LET r == First(todo[t]) IN
       /\ todo' = [todo EXCEPT ![t] = @ \ {r}]
       /\ Take(t, Wants(t), IF Open(View(t), r) THEN One(r, Gone(View(t)[r])) ELSE <<>>)
  /\ UNCHANGED <<pc, seen>>
SweepEnd(t) ==
  \/ At(t, {"off", "changing"}, "sweep") /\ todo[t] = {} /\ Go(t, "commit", <<>>)
  \/ At(t, {"request"}, "sweep") /\ todo[t] = {} /\ Go(t, "insert", <<>>)
  \/ /\ At(t, {"reset"}, "sweep") /\ todo[t] = {} /\ seen[t] # "sessions"
     /\ seen' = [seen EXCEPT ![t] = "sessions"]
     /\ Find(t, {}, "sweep", LiveSessions(db, op[t].user), <<>>)
  \/ At(t, {"reset"}, "sweep") /\ todo[t] = {} /\ seen[t] = "sessions" /\ Go(t, "commit", <<>>)

(* revoke_session: one guarded statement. *)
Logout(t) == At(t, {"logout"}, "revoke") /\ Now(t, "commit", One(op[t].session, Gone(db[op[t].session])))

-----------------------------------------------------------------------------
(* Time: an account's lock ends, a token expires. *)
TimePasses ==
  \E r \in DOMAIN db :
    /\ \A t \in Tx : r \notin DOMAIN put[t]
    /\ \/ r[1] = "user" /\ db[r].locked /\ db' = [db EXCEPT ![r].locked = FALSE]
       \/ r[1] = "token" /\ db[r].state = "unused" /\ db' = [db EXCEPT ![r].state = "expired"]
    /\ UNCHANGED <<op, pc, seen, todo, put, lock, kinds, before, unseen>>

Step(t) ==
  \/ OrgLocked(t) \/ CreateAccount(t) \/ AddMember(t) \/ CheckTarget(t) \/ ChangeMember(t)
  \/ ReadOwned(t) \/ LockOwned(t) \/ Recheck(t) \/ Switch(t)
  \/ Login(t) \/ LoginFailed(t) \/ LoginSucceeded(t) \/ CreateSession(t)
  \/ CheckPassword(t) \/ ChangePassword(t) \/ Request(t) \/ CreateToken(t)
  \/ ResetToken(t) \/ ResetPassword(t) \/ SweepRow(t) \/ SweepEnd(t) \/ Logout(t)
Finish(t) ==
  /\ UNCHANGED <<kinds, before>>
  /\ \/ Fail(t) /\ UNCHANGED unseen
     \/ Commit(t) /\ unseen' = unseen \cup IF op[t].kind = "off" THEN Owned(db, op[t].user) \ seen[t] ELSE {}

Next == TimePasses \/ \E t \in Tx : Begin(t) \/ Step(t) \/ Finish(t)

Spec == Init /\ [][Next]_accountVars

-----------------------------------------------------------------------------
(* An organization that has an active owner keeps one, whatever is taken   *)
(* away from whom at once, but in one case: an account that was made an    *)
(* owner after its being switched off had looked at what it owns.          *)
(* Ownership is given by an owner, or to the first.  (Of an organization   *)
(* that is cancelled nobody counts the owners.)                            *)
Gives(t, o, u) ==
  /\ op[t].kind \in MemberKinds /\ pc[t] = "commit" /\ op[t].org = o /\ op[t].user = u
  /\ op[t].kind = "first" \/ RoleOf(db, o, op[t].actor) = "owner"
OwnershipIsHandedOn ==
  [][\A o \in Orgs :
       /\ db[Org(o)] # "cancelled" /\ ActiveOwners(db, o) # {} =>
            ActiveOwners(db', o) # {} \/ Org(o) \in unseen'
       /\ \A u \in User : RoleOf(db', o, u) = "owner" /\ RoleOf(db, o, u) # "owner" =>
            \E t \in Tx : Gives(t, o, u)]_accountVars

(* A changed or reset password, and an account switched off, end every     *)
(* session there was: what is alive and older than that can only be of a   *)
(* sign-in that had not ended when the change began.                       *)
SessionsEnd ==
  \A r \in Table(db, "session") :
    LET s == db[r]
        account == db[Account(s.user)]
        Survives(c) == s.by # 0 /\ s.by \notin before[c]
    IN ~s.revoked => /\ s.proof # account.password => Survives(account.password)
                     /\ account.off # 0 => Survives(account.off)

(* A token resets a password once, however often it is sent, and no token  *)
(* there was outlives a reset.                                             *)
ResetOnce == \A r \in Table(db, "token") : Cardinality(db[r].spent) <= 1 /\ (db[r].spent # {} => db[r].state = "used")

(* Both: neither a session nor a token outlives what was to end it.        *)
OldSecretsEnd == SessionsEnd /\ ResetOnce

(* Transactions wait for each other in a circle only where somebody has    *)
(* two unused tokens, which two requests at once leave: a reset locks its  *)
(* own token, the account, and then all tokens.  Switching accounts off,   *)
(* whatever they own together, never does.                                 *)
Circle(S) == S # {} /\ \A t \in S : \E u \in S : Blocks(u, t)
OnlyResetCircles ==
  \A S \in SUBSET {t \in Tx : Running(t)} : Circle(S) =>
    \E t \in S : op[t].kind = "reset" /\ Cardinality(Unused(db, op[t].user)) >= 2
=============================================================================
