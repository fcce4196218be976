--------------------------- MODULE AccountsProofs ---------------------------
(***************************************************************************)
(* No session and no token outlives what was to end it, for any number of  *)
(* overlapping transactions and any databases to begin with: the inductive *)
(* invariant of Accounts about passwords, sessions and tokens.  On top of  *)
(* it, a second layer about members: an organization that has an active    *)
(* owner keeps one, but in one case, and ownership is given by an owner.   *)
(* And a third about locks: who waits for whom, and that nobody waits in a *)
(* circle but where a reset meets another unused token of its person.      *)
(***************************************************************************)
EXTENDS Accounts, TransactionProofs, FiniteSetTheorems

-----------------------------------------------------------------------------
(* The inductive invariant: a transaction's share.                         *)

PersonKinds == {"login", "changing", "request", "reset", "logout", "off", "on"}

(* What it is about is there, and what it signed in with was the password  *)
(* once.                                                                   *)
About(t) ==
  /\ op[t].kind \in PersonKinds => Target(t) \in DOMAIN db
  /\ op[t].kind = "reset" => op[t].token \in Table(db, "token") /\ db[op[t].token].user = op[t].user
  /\ op[t].kind = "logout" => op[t].session \in Table(db, "session")
  /\ pc[t] = "idle" \/ (op[t].kind = "reset" /\ pc[t] \in {"token", "holder"}) => seen[t] = "none"
  /\ op[t].kind = "login" /\ pc[t] \in {"success", "insert"} =>
       op[t].password = db[Target(t)].password \/ db[Target(t)].password # 0

(* The account it writes is its own, as it was but for what it is to set;  *)
(* a session that it writes has ended, a token has not been spent but by   *)
(* it.                                                                     *)
Own(t, r, v, held) ==
  /\ r[1] = "user" =>
       /\ r = Target(t) /\ Has(held, r)
       /\ r \in DOMAIN db => /\ v.password = db[r].password \/ (op[t].kind \in {"changing", "reset"} /\ v.password = t)
                             /\ v.off = db[r].off \/ (op[t].kind = "off" /\ v.off = t)
       /\ r \notin DOMAIN db => v.password = 0 /\ v.off = 0
  /\ r[1] = "session" =>
       r \in DOMAIN db /\ v.revoked /\ v.user = db[r].user /\ v.proof = db[r].proof /\ v.by = db[r].by
  /\ r[1] = "token" =>
       /\ r \in DOMAIN db => /\ Has(held, r) /\ v.user = db[r].user
                             /\ v.spent = db[r].spent
                                \/ (op[t].kind = "reset" /\ r = op[t].token /\ v.spent = db[r].spent \cup {t})
       /\ r \notin DOMAIN db => /\ r = <<"token", New(t)>> /\ v.spent = {} /\ v.state = "unused"
                                /\ Account(v.user) \in DOMAIN db
Writes(t) == \A r \in DOMAIN put[t] : Fits(r, put[t][r]) /\ Own(t, r, put[t][r], lock[t])

(* It ends every session there was when it began, those it has found and   *)
(* those it has written; a token that it uses is used when it is over.     *)
Ending(t) ==
  \/ op[t].kind \in {"off", "changing"} /\ pc[t] \in {"sweep", "commit"}
  \/ op[t].kind = "reset" /\ (pc[t] = "commit" \/ (pc[t] = "sweep" /\ seen[t] = "sessions"))
Sweeps(t) ==
  /\ pc[t] = "sweep" => todo[t] \subseteq Table(db, "session") \cup Table(db, "token")
  /\ op[t].kind \in {"off", "changing", "reset"} /\ pc[t] = "commit" => todo[t] = {}
  /\ Ending(t) => \A r \in Table(db, "session") :
       db[r].user = op[t].user /\ ~db[r].revoked /\ db[r].by \in before[t] \cup {0} => r \in todo[t] \cup DOMAIN put[t]
  /\ op[t].kind = "reset" /\ pc[t] \in {"holder", "sweep", "commit"} =>
       <<op[t].token, Update>> \in lock[t] /\ db[op[t].token].state # "used"
  /\ \A r \in DOMAIN put[t] \cap DOMAIN db : r[1] = "token" /\ put[t][r].state # "used" =>
       op[t].kind = "reset" /\ pc[t] = "sweep" /\ r \in todo[t]

(* What it may add is not there yet; what had ended has.                   *)
Fresh(t) ==
  /\ pc[t] # "done" => <<"token", New(t)>> \notin DOMAIN db
  /\ pc[t] \notin {"commit", "done"} => <<"session", New(t)>> \notin DOMAIN db
  /\ before[t] \subseteq {u \in Tx : pc[u] = "done"}

TxInv(t) == About(t) /\ Writes(t) /\ Sweeps(t) /\ Fresh(t)

(* The database's share: what was set was set by transactions that are     *)
(* over, sessions that outlived one were younger, and a token that was     *)
(* spent was spent once.                                                   *)
Outlives(s, c) == c \in Tx /\ s.by # 0 /\ s.by \notin before[c]
Row(r) ==
  /\ r[1] = "user" => \A c \in {db[r].password, db[r].off} : c = 0 \/ (c \in Tx /\ pc[c] = "done")
  /\ r[1] = "session" /\ ~db[r].revoked =>
       LET account == db[Account(db[r].user)] IN
       /\ db[r].proof # account.password => Outlives(db[r], account.password)
       /\ account.off # 0 => Outlives(db[r], account.off)
  /\ r[1] = "token" => db[r].spent = {} \/ (db[r].state = "used" /\ \E t \in Tx : db[r].spent = {t})

AInv ==
  /\ Shape /\ Exclusion /\ before = [t \in Tx |-> before[t]]
  /\ Typed(db) /\ (\A r \in DOMAIN db : Row(r)) /\ \A t \in Tx : TxInv(t)

-----------------------------------------------------------------------------
(* Rows.                                                                   *)

(* The rows of the three tables by name. *)
LEMMA RowsFit ==
  ASSUME NEW d, Typed(d), NEW r \in DOMAIN d
  PROVE  /\ Fits(r, d[r])
         /\ r[1] = "user" => r = Account(r[2])
         /\ r[1] = "session" =>
              /\ r = <<"session", r[2]>> /\ r[2] \in Nat /\ d[r].revoked \in BOOLEAN
              /\ d[r] = [user |-> d[r].user, proof |-> d[r].proof, by |-> d[r].by, revoked |-> d[r].revoked]
              /\ Account(d[r].user) \in DOMAIN d
         /\ r[1] = "token" =>
              /\ r = <<"token", r[2]>> /\ r[2] \in Nat /\ d[r].state \in {"unused", "expired", "used"}
              /\ d[r] = [user |-> d[r].user, state |-> d[r].state, spent |-> d[r].spent]
              /\ Account(d[r].user) \in DOMAIN d
<1>1. Fits(r, d[r]) /\ (r[1] \in {"session", "token"} => Account(d[r].user) \in DOMAIN d)
  BY DEF Typed
<1>2. CASE r[1] = "user"
  BY <1>1, <1>2 DEF Fits
<1>3. CASE r[1] = "session"
  BY <1>1, <1>3 DEF Fits
<1>4. CASE r[1] = "token"
  BY <1>1, <1>4 DEF Fits
<1> QED BY <1>1, <1>2, <1>3, <1>4

(* An account is told by its person, and its row is one of the accounts'.  *)
LEMMA AccountRow ==
  ASSUME NEW u
  PROVE  /\ Account(u)[1] = "user" /\ Account(u)[2] = u
         /\ \A w : Account(w) = Account(u) => w = u
BY DEF Account

(* The ids of a transaction's rows are its own, and none of those there    *)
(* are to begin with.                                                      *)
LEMMA NewIsNew ==
  ASSUME NEW t \in Tx
  PROVE  New(t) \in Nat /\ New(t) > Past /\ t # 0 /\ \A u \in Tx : New(u) = New(t) => u = t
<1>1. \A u \in Tx : u \in Nat /\ u > 0
  BY AccountsAssumption DEF Tx
<1> QED BY <1>1 DEF New, Past

(* An account that is changed in place is one as before. *)
LEMMA ChangedAccount ==
  ASSUME NEW a, NEW b, NEW r, NEW x, r = Account(x), Fits(r, a),
         \/ \E y : b = [a EXCEPT !.active = y] \/ b = [a EXCEPT !.locked = y]
         \/ \E y, z : b = [a EXCEPT !.active = y, !.off = z] \/ b = [a EXCEPT !.fails = y, !.locked = z]
         \/ \E y, z, w : b = [a EXCEPT !.password = w, !.fails = y, !.locked = z]
  PROVE  Fits(r, b)
<1>1. r[1] = "user" /\ r = Account(r[2])
  BY AccountRow
<1>2. a = [active |-> a.active, password |-> a.password, fails |-> a.fails, locked |-> a.locked, off |-> a.off]
  BY <1>1 DEF Fits
<1>3. b = [active |-> b.active, password |-> b.password, fails |-> b.fails, locked |-> b.locked, off |-> b.off]
  BY <1>2
<1> QED BY <1>1, <1>3 DEF Fits

(* The row of an account stays one of an account. *)
LEMMA AccountFits ==
  ASSUME NEW r, NEW a, Fits(r, a), r[1] = "user",
         NEW v, v = [active |-> v.active, password |-> v.password, fails |-> v.fails, locked |-> v.locked, off |-> v.off]
  PROVE  Fits(r, v)
BY DEF Fits

(* What revocation makes of a session or a token. *)
LEMMA GoneRow ==
  ASSUME NEW v, NEW r, r[1] \in {"session", "token"}, Fits(r, v)
  PROVE  /\ Fits(r, Gone(v))
         /\ r[1] = "session" =>
              Gone(v).revoked /\ Gone(v).user = v.user /\ Gone(v).proof = v.proof /\ Gone(v).by = v.by
         /\ r[1] = "token" => Gone(v).state = "used" /\ Gone(v).user = v.user /\ Gone(v).spent = v.spent
<1>1. CASE r[1] = "session"
  <2>1. v = [user |-> v.user, proof |-> v.proof, by |-> v.by, revoked |-> v.revoked]
        /\ r = <<"session", r[2]>> /\ r[2] \in Nat
    BY <1>1 DEF Fits
  <2>2. Gone(v) = [user |-> v.user, proof |-> v.proof, by |-> v.by, revoked |-> TRUE]
    <3>1. "revoked" \in DOMAIN v
      BY <2>1
    <3> QED BY <2>1, <3>1 DEF Gone
  <2> QED BY <1>1, <2>1, <2>2 DEF Fits
<1>2. CASE r[1] = "token"
  <2>1. v = [user |-> v.user, state |-> v.state, spent |-> v.spent] /\ r = <<"token", r[2]>> /\ r[2] \in Nat
    BY <1>2 DEF Fits
  <2>2. Gone(v) = [user |-> v.user, state |-> "used", spent |-> v.spent]
    <3>1. "revoked" \notin DOMAIN v
      BY <2>1
    <3> QED BY <2>1, <3>1 DEF Gone
  <2> QED BY <1>2, <2>1, <2>2 DEF Fits
<1> QED BY <1>1, <1>2

-----------------------------------------------------------------------------
(* What any statement of a transaction does.                               *)

Committing(t) == LoginFailed(t) \/ LoginSucceeded(t) \/ CreateSession(t) \/ Logout(t)

(* It wants locks of the four modes. *)
LEMMA WantsAreLocks ==
  ASSUME NEW t \in Tx
  PROVE  \A w \in Wants(t) : w[2] \in 1..4
BY DEF Wants, TokenLock, AccountLock, KeyShare, NoKeyUpdate, Update

(* Every one is a statement with the locks it wants, but for those that    *)
(* are transactions of their own.                                          *)
LEMMA StepIsStatement ==
  ASSUME Shape, NEW t \in Tx, Step(t), ~Committing(t)
  PROVE  Statement(t, Wants(t)) /\ UNCHANGED <<before, db, op>> /\ pc[t] # "commit"
<1> USE DEF At, Go, GoOn, Take, Statement, Running, Shape
<1>1. ASSUME OrgLocked(t) \/ CreateAccount(t) \/ AddMember(t) \/ CheckTarget(t) \/ ChangeMember(t) \/ Recheck(t)
      PROVE  Statement(t, Wants(t)) /\ UNCHANGED <<before, db, op>> /\ pc[t] # "commit"
  BY <1>1 DEF OrgLocked, CreateAccount, AddMember, CheckTarget, ChangeMember, Recheck
<1>2. ASSUME ReadOwned(t)
      PROVE  Statement(t, Wants(t)) /\ UNCHANGED <<before, db, op>> /\ pc[t] # "commit"
  <2>1. Wants(t) = {} /\ Over(<<>>, put[t]) = put[t]
    BY <1>2, OverNothing DEF ReadOwned, Wants
  <2>2. lock' = [lock EXCEPT ![t] = @ \cup Wants(t)] /\ put' = [put EXCEPT ![t] = Over(<<>>, @)]
    BY <1>2, <2>1 DEF ReadOwned
  <2> QED BY <1>2, <2>2 DEF ReadOwned
<1>3. ASSUME LockOwned(t) \/ Request(t) \/ ResetPassword(t) \/ ChangePassword(t)
      PROVE  Statement(t, Wants(t)) /\ UNCHANGED <<before, db, op>> /\ pc[t] # "commit"
  BY <1>3 DEF LockOwned, Request, ResetPassword, ChangePassword, Sweep, Find
<1>4. ASSUME Switch(t) \/ Login(t) \/ CheckPassword(t) \/ CreateToken(t) \/ ResetToken(t)
      PROVE  Statement(t, Wants(t)) /\ UNCHANGED <<before, db, op>> /\ pc[t] # "commit"
  BY <1>4 DEF Switch, Login, CheckPassword, CreateToken, ResetToken, Sweep, Find
<1>5. ASSUME SweepRow(t)
      PROVE  Statement(t, Wants(t)) /\ UNCHANGED <<before, db, op>> /\ pc[t] # "commit"
  BY <1>5 DEF SweepRow
<1>6. ASSUME SweepEnd(t)
      PROVE  Statement(t, Wants(t)) /\ UNCHANGED <<before, db, op>> /\ pc[t] # "commit"
  <2>1. Wants(t) = {}
    BY <1>6 DEF SweepEnd, Wants
  <2> QED BY <1>6, <2>1 DEF SweepEnd, Find
<1> HIDE DEF At, Go, GoOn, Take, Statement, Running, Shape
<1> QED BY <1>1, <1>2, <1>3, <1>4, <1>5, <1>6 DEF Step, Committing

(* A statement that is one of a kind at its place and goes on. *)
LEMMA GoDoes ==
  ASSUME Shape, NEW t \in Tx, NEW some, NEW where, NEW next, NEW rows, At(t, some, where), Go(t, next, rows)
  PROVE  /\ op[t].kind \in some /\ pc[t] = where /\ pc'[t] = next
         /\ put'[t] = Over(rows, put[t]) /\ lock'[t] = lock[t] \cup Wants(t)
         /\ seen'[t] = seen[t] /\ todo'[t] = todo[t]
BY DEF Shape, At, Go, GoOn, Take

(* One that finds the rows of a sweep. *)
LEMMA FindDoes ==
  ASSUME Shape, NEW t \in Tx, NEW some, NEW where, NEW next, NEW wanted, NEW rows, NEW written,
         At(t, some, where), Find(t, wanted, next, rows, written)
  PROVE  /\ op[t].kind \in some /\ pc[t] = where /\ pc'[t] = next
         /\ put'[t] = Over(written, put[t]) /\ lock'[t] = lock[t] \cup wanted /\ todo'[t] = rows
BY DEF Shape, At, Find, Take

(* What a statement leaves of another transaction. *)
LEMMA OthersStay ==
  ASSUME Shape, NEW t \in Tx, NEW wanted, Statement(t, wanted), before' = before,
         NEW u \in Tx, u # t, TxInv(u)
  PROVE  TxInv(u)'
<1>1. /\ db' = db /\ op' = op /\ before' = before /\ pc'[u] = pc[u] /\ seen'[u] = seen[u] /\ todo'[u] = todo[u]
      /\ put'[u] = put[u] /\ lock'[u] = lock[u]
  BY StatementFrame
<1>2. {x \in Tx : pc'[x] = "done"} = {x \in Tx : pc[x] = "done"}
  <2>1. pc[t] # "done" /\ pc'[t] # "done" /\ \A x \in Tx \ {t} : pc'[x] = pc[x]
    BY DEF Statement, Running
  <2> QED BY <2>1
<1>3. About(u)'
  BY <1>1 DEF TxInv, About, Target
<1>4. Writes(u)'
  <2>1. Target(u)' = Target(u) /\ New(u)' = New(u)
    BY <1>1 DEF Target, New
  <2>2. ASSUME NEW r \in DOMAIN put[u]
        PROVE  Fits(r, put[u][r]) /\ Own(u, r, put[u][r], lock[u])'
    <3>1. Fits(r, put[u][r]) /\ Own(u, r, put[u][r], lock[u])
      BY DEF TxInv, Writes
    <3>2. put[u][r]' = put[u][r] /\ lock[u]' = lock[u] /\ db' = db /\ op'[u] = op[u]
      BY <1>1
    <3> QED BY <2>1, <3>1, <3>2 DEF Own, Has
  <2> QED BY <1>1, <2>2 DEF Writes
<1>5. Sweeps(u)'
  BY <1>1 DEF TxInv, Sweeps, Ending
<1>6. Fresh(u)'
  BY <1>1, <1>2 DEF TxInv, Fresh, New
<1> QED BY <1>3, <1>4, <1>5, <1>6 DEF TxInv

(* It leaves the database's share, too. *)
LEMMA RowsStay ==
  ASSUME Shape, NEW t \in Tx, NEW wanted, Statement(t, wanted), before' = before,
         Typed(db), \A r \in DOMAIN db : Row(r)
  PROVE  Typed(db)' /\ \A r \in DOMAIN db' : Row(r)'
<1>1. db' = db /\ before' = before /\ \A x \in Tx : pc[x] = "done" => pc'[x] = "done"
  BY StatementFrame DEF Statement, Running
<1>2. ASSUME NEW r \in DOMAIN db
      PROVE  Row(r)'
  <2>1. Row(r)
    OBVIOUS
  <2> QED BY <1>1, <2>1 DEF Row, Outlives
<1> QED BY <1>1, <1>2

-----------------------------------------------------------------------------
(* A statement and its own transaction.                                    *)

(* It writes a row that it may write by now, whatever it wrote before. *)
MayWrite(t, r, v) == Fits(r, v) /\ Own(t, r, v, lock'[t])
LEMMA WritesSome ==
  ASSUME Shape, NEW t \in Tx, TxInv(t), Statement(t, Wants(t)),
         \A x \in DOMAIN put'[t] : MayWrite(t, x, put'[t][x]) \/ (x \in DOMAIN put[t] /\ put'[t][x] = put[t][x])
  PROVE  Writes(t)'
<1>1. /\ db' = db /\ op' = op /\ lock[t] \subseteq lock'[t]
  BY StatementFrame
<1>2. ASSUME NEW x \in DOMAIN put'[t]
      PROVE  Fits(x, put'[t][x]) /\ Own(t, x, put[t][x], lock[t])'
  <2>1. CASE MayWrite(t, x, put'[t][x])
    BY <2>1, <1>1 DEF MayWrite, Own, Has, New, Target
  <2>2. CASE x \in DOMAIN put[t] /\ put'[t][x] = put[t][x]
    BY <2>2, <1>1 DEF TxInv, Writes, Own, Has, New, Target
  <2> QED BY <1>2, <2>1, <2>2
<1>3. \A x \in DOMAIN put'[t] : Fits(x, put'[t][x])
  BY <1>2
<1> QED BY <1>2, <1>3 DEF Writes

(* What it is about, and what it may add, stay. *)
LEMMA Around ==
  ASSUME Shape, NEW t \in Tx, TxInv(t), Statement(t, Wants(t)), UNCHANGED before, pc[t] # "commit",
         op[t].kind = "reset" /\ pc'[t] \in {"token", "holder"} => seen'[t] = "none",
         op[t].kind = "login" /\ pc'[t] \in {"success", "insert"} => op[t].password = db[Target(t)].password
  PROVE  About(t)' /\ Fresh(t)'
<1>1. db' = db /\ op' = op /\ before' = before
  BY StatementFrame
<1>2. pc'[t] \notin {"idle", "done"} /\ pc[t] # "done"
  BY DEF Statement, Running
<1>3. About(t)'
  BY <1>1, <1>2 DEF TxInv, About, Target
<1>4. {x \in Tx : pc'[x] = "done"} = {x \in Tx : pc[x] = "done"}
  <2>1. \A x \in Tx \ {t} : pc'[x] = pc[x]
    BY StatementFrame
  <2> QED BY <1>2, <2>1
<1>5. Fresh(t)'
  BY <1>1, <1>2, <1>4 DEF TxInv, Fresh, New
<1> QED BY <1>3, <1>5

(* A statement before or after the sweeping, of no reset. *)
LEMMA Quietly ==
  ASSUME Shape, NEW t \in Tx, TxInv(t), Statement(t, Wants(t)), UNCHANGED before,
         pc[t] # "commit", pc'[t] # "sweep", op[t].kind # "reset",
         op[t].kind \in {"off", "changing"} => pc'[t] # "commit",
         op[t].kind = "login" /\ pc'[t] \in {"success", "insert"} => op[t].password = db[Target(t)].password,
         \A x \in DOMAIN put'[t] :
           \/ x \in DOMAIN put[t] /\ put'[t][x] = put[t][x]
           \/ MayWrite(t, x, put'[t][x]) /\ (x[1] = "token" => x \notin DOMAIN db)
  PROVE  TxInv(t)'
<1>1. db' = db /\ op' = op /\ before' = before
  BY StatementFrame
<1>3. About(t)' /\ Fresh(t)'
  BY Around
<1>4. Writes(t)'
  BY WritesSome
<1>5. Sweeps(t)'
  <2>1. ~Ending(t)'
    BY <1>1 DEF Ending
  <2>2. ASSUME NEW x \in DOMAIN put'[t] \cap DOMAIN db', x[1] = "token", put'[t][x].state # "used"
        PROVE  FALSE
    <3>1. x \in DOMAIN put[t] /\ put'[t][x] = put[t][x]
      BY <1>1, <2>2
    <3> QED BY <1>1, <2>2, <3>1 DEF TxInv, Sweeps
  <2>3. op'[t].kind = "reset" => FALSE
    BY <1>1
  <2>4. op'[t].kind \in {"off", "changing", "reset"} /\ pc'[t] = "commit" => FALSE
    BY <1>1
  <2> QED BY <2>1, <2>2, <2>3, <2>4 DEF Sweeps
<1> QED BY <1>3, <1>4, <1>5 DEF TxInv

(* Statements that write nothing. *)
LEMMA SilentKeeps ==
  ASSUME Shape, NEW t \in Tx, TxInv(t), Statement(t, Wants(t)), UNCHANGED before,
         \/ OrgLocked(t) \/ CheckTarget(t) \/ ReadOwned(t) \/ LockOwned(t) \/ Recheck(t) \/ Login(t) \/ CheckPassword(t)
  PROVE  TxInv(t)'
<1>1. CASE OrgLocked(t)
  <2>1. /\ op[t].kind \in MemberKinds /\ pc[t] = "org" /\ pc'[t] \in {"target", "account", "restore", "member"}
        /\ put'[t] = put[t]
    <3>1. put'[t] = Over(<<>>, put[t])
      BY <1>1 DEF OrgLocked, Take, Shape
    <3> QED BY <1>1, <3>1, NoRowWritten DEF OrgLocked, At, Shape
  <2> QED BY <2>1, Quietly DEF MemberKinds
<1>2. CASE CheckTarget(t)
  <2>1. op[t].kind \in {"role", "remove"} /\ pc[t] = "target" /\ pc'[t] = "change" /\ put'[t] = Over(<<>>, put[t])
    BY <1>2, GoDoes DEF CheckTarget
  <2> QED BY <2>1, Quietly, NoRowWritten
<1>3. CASE ReadOwned(t)
  <2>1. op[t].kind = "off" /\ pc[t] = "read" /\ pc'[t] \in {"recheck", "orgs"} /\ put'[t] = put[t]
    BY <1>3 DEF ReadOwned, At, Shape
  <2> QED BY <2>1, Quietly
<1>4. CASE LockOwned(t)
  <2>1. op[t].kind = "off" /\ pc[t] = "orgs" /\ pc'[t] \in {"recheck", "orgs"} /\ put'[t] = Over(<<>>, put[t])
    BY <1>4 DEF LockOwned, At, Find, Take, Shape
  <2> QED BY <2>1, Quietly, NoRowWritten
<1>5. CASE Recheck(t)
  <2>1. op[t].kind = "off" /\ pc[t] = "recheck" /\ pc'[t] = "switch" /\ put'[t] = Over(<<>>, put[t])
    BY <1>5, GoDoes DEF Recheck
  <2> QED BY <2>1, Quietly, NoRowWritten
<1>6. CASE Login(t)
  <2>1. /\ op[t].kind = "login" /\ pc[t] = "read" /\ put'[t] = Over(<<>>, put[t])
        /\ pc'[t] = IF op[t].password = db[Target(t)].password THEN "success" ELSE "failed"
    BY <1>6, GoDoes DEF Login
  <2> QED BY <2>1, Quietly, NoRowWritten
<1>7. CASE CheckPassword(t)
  <2>1. op[t].kind = "changing" /\ pc[t] = "read" /\ pc'[t] = "password" /\ put'[t] = Over(<<>>, put[t])
    BY <1>7, GoDoes DEF CheckPassword
  <2> QED BY <2>1, Quietly, NoRowWritten
<1> QED BY <1>1, <1>2, <1>3, <1>4, <1>5, <1>6, <1>7

(* Members and their accounts. *)
LEMMA MembersKeep ==
  ASSUME Shape, NEW t \in Tx, TxInv(t), Statement(t, Wants(t)), UNCHANGED before,
         CreateAccount(t) \/ AddMember(t) \/ ChangeMember(t)
  PROVE  TxInv(t)'
<1>1. CASE CreateAccount(t)
  <2>1. /\ op[t].kind \in {"add", "first"} /\ pc[t] = "account" /\ pc'[t] = "member" /\ lock'[t] = lock[t] \cup Wants(t)
        /\ put'[t] = Over(IF Exists(db, op[t].user) THEN <<>> ELSE One(Target(t), NewAccount), put[t])
    BY <1>1, GoDoes DEF CreateAccount
  <2>2. CASE Exists(db, op[t].user)
    <3>1. put'[t] = put[t]
      BY <2>1, <2>2, NoRowWritten
    <3> QED BY <2>1, <3>1, Quietly
  <2>3. CASE ~Exists(db, op[t].user)
    <3>1. put'[t] = Over(One(Target(t), NewAccount), put[t])
      BY <2>1, <2>3
    <3>2. /\ DOMAIN put'[t] = DOMAIN put[t] \cup {Target(t)} /\ put'[t][Target(t)] = NewAccount
          /\ \A x \in DOMAIN put[t] : x # Target(t) => put'[t][x] = put[t][x]
      BY <3>1, OneRowWritten
    <3>3. MayWrite(t, Target(t), NewAccount) /\ Target(t)[1] # "token"
      <4>1. Target(t)[1] = "user" /\ Target(t) = Account(Target(t)[2]) /\ Target(t) \notin DOMAIN db
        BY <2>3, AccountRow DEF Exists, Target
      <4>2. Has(lock'[t], Target(t))
        BY <2>1 DEF Has, Wants
      <4> QED BY <4>1, <4>2 DEF MayWrite, Own, Fits, NewAccount
    <3> QED BY <2>1, <3>2, <3>3, Quietly
  <2> QED BY <2>2, <2>3
<1>2. ASSUME NEW v, put'[t] = Over(One(Member(op[t].org, op[t].user), v), put[t]),
             op[t].kind \in {"add", "first", "role", "remove"}, pc[t] # "commit", pc'[t] = "commit"
      PROVE  TxInv(t)'
  <2> DEFINE r == Member(op[t].org, op[t].user)
  <2>1. r[1] = "member"
    BY DEF Member
  <2>2. MayWrite(t, r, v)
    BY <2>1 DEF MayWrite, Own, Fits
  <2> HIDE DEF r
  <2>3. /\ DOMAIN put'[t] = DOMAIN put[t] \cup {r} /\ put'[t][r] = v
        /\ \A x \in DOMAIN put[t] : x # r => put'[t][x] = put[t][x]
    BY <1>2, OneRowWritten DEF r
  <2> QED BY <1>2, <2>1, <2>2, <2>3, Quietly
<1>3. CASE AddMember(t)
  <2>1. /\ put'[t] = Over(One(Member(op[t].org, op[t].user), op[t].role), put[t])
        /\ op[t].kind \in {"add", "first"} /\ pc[t] \in {"member", "restore"} /\ pc'[t] = "commit"
    BY <1>3, GoDoes DEF AddMember
  <2> QED BY <2>1, <1>2
<1>4. CASE ChangeMember(t)
  <2> DEFINE v == IF op[t].kind = "role" THEN op[t].role ELSE "removed"
  <2>1. /\ put'[t] = Over(One(Member(op[t].org, op[t].user), v), put[t])
        /\ op[t].kind \in {"role", "remove"} /\ pc[t] = "change" /\ pc'[t] = "commit"
    BY <1>4, GoDoes DEF ChangeMember
  <2> HIDE DEF v
  <2> QED BY <2>1, <1>2
<1> QED BY <1>1, <1>3, <1>4

(* An account switched on, and a new token. *)
LEMMA AddsKeep ==
  ASSUME Shape, Typed(db), NEW t \in Tx, TxInv(t), Statement(t, Wants(t)), UNCHANGED before,
         CreateToken(t) \/ (At(t, {"on"}, "switch") /\ Switch(t))
  PROVE  TxInv(t)'
<1>1. CASE CreateToken(t)
  <2> DEFINE r == <<"token", New(t)>>
             v == [user |-> op[t].user, state |-> "unused", spent |-> {}]
  <2>1. op[t].kind = "request" /\ pc[t] = "insert" /\ pc'[t] = "commit" /\ put'[t] = Over(One(r, v), put[t])
    BY <1>1, GoDoes DEF CreateToken
  <2>2. r[1] = "token" /\ r \notin DOMAIN db /\ Account(op[t].user) \in DOMAIN db
    BY <2>1 DEF TxInv, Fresh, About, PersonKinds, Target
  <2>3. MayWrite(t, r, v)
    <3>1. Fits(r, v)
      BY NewIsNew DEF Fits
    <3>2. Own(t, r, v, lock'[t])
      BY <2>2 DEF Own
    <3> QED BY <3>1, <3>2 DEF MayWrite
  <2> HIDE DEF r, v
  <2>4. /\ DOMAIN put'[t] = DOMAIN put[t] \cup {r} /\ put'[t][r] = v
        /\ \A x \in DOMAIN put[t] : x # r => put'[t][x] = put[t][x]
    BY <2>1, OneRowWritten
  <2> QED BY <2>1, <2>2, <2>3, <2>4, Quietly
<1>2. CASE At(t, {"on"}, "switch") /\ Switch(t)
  <2> DEFINE r == Target(t)
             v == [db[r] EXCEPT !.active = TRUE]
  <2>1. /\ op[t].kind = "on" /\ pc[t] = "switch" /\ pc'[t] = "commit" /\ put'[t] = Over(One(r, v), put[t])
        /\ lock'[t] = lock[t] \cup Wants(t)
    <3>1. At(t, {"on"}, "switch") /\ Go(t, "commit", One(r, v))
      BY <1>2 DEF Switch, At
    <3> QED BY <3>1, GoDoes
  <2>2. r \in DOMAIN db /\ r = Account(op[t].user)
    BY <2>1 DEF TxInv, About, PersonKinds, Target
  <2>3. MayWrite(t, r, v) /\ r[1] # "token"
    <3>1. Fits(r, v)
      <4>1. Fits(r, db[r])
        BY <2>2, RowsFit
      <4> HIDE DEF r
      <4> QED BY <2>2, <4>1, ChangedAccount
    <3>2. v.password = db[r].password /\ v.off = db[r].off /\ r[1] = "user"
      <4>1. r[1] = "user"
        BY <2>2, AccountRow
      <4>2. db[r] = [active |-> db[r].active, password |-> db[r].password, fails |-> db[r].fails,
                     locked |-> db[r].locked, off |-> db[r].off]
        BY <2>2, <4>1, RowsFit DEF Fits
      <4> HIDE DEF r
      <4> QED BY <4>1, <4>2
    <3>3. Has(lock'[t], r)
      BY <2>1 DEF Has, Wants, AccountLock
    <3> HIDE DEF v
    <3> QED BY <2>2, <3>1, <3>2, <3>3 DEF MayWrite, Own
  <2> HIDE DEF r, v
  <2>4. /\ DOMAIN put'[t] = DOMAIN put[t] \cup {r} /\ put'[t][r] = v
        /\ \A x \in DOMAIN put[t] : x # r => put'[t][x] = put[t][x]
    BY <2>1, OneRowWritten
  <2> QED BY <2>1, <2>3, <2>4, Quietly
<1> QED BY <1>1, <1>2

-----------------------------------------------------------------------------
(* A statement and its own transaction: sweeps.                            *)

(* An account is switched off, or its password changed: all sessions that  *)
(* are alive are to end.                                                   *)
LEMMA BeginsToEnd ==
  ASSUME Shape, NEW t \in Tx, TxInv(t), Statement(t, Wants(t)), UNCHANGED before,
         op[t].kind \in {"off", "changing"}, pc[t] # "commit", pc'[t] = "sweep",
         todo'[t] = LiveSessions(db, op[t].user),
         NEW v, put'[t] = Over(One(Target(t), v), put[t]), MayWrite(t, Target(t), v)
  PROVE  TxInv(t)'
<1>1. db' = db /\ op' = op /\ before' = before
  BY StatementFrame
<1>2. /\ DOMAIN put'[t] = DOMAIN put[t] \cup {Target(t)} /\ put'[t][Target(t)] = v
      /\ \A x \in DOMAIN put[t] : x # Target(t) => put'[t][x] = put[t][x]
  BY OneRowWritten
<1>3. Target(t)[1] = "user"
  BY AccountRow DEF Target
<1>4. Writes(t)'
  BY <1>2, WritesSome
<1>5. About(t)' /\ Fresh(t)'
  BY Around
<1>6. Sweeps(t)'
  <2>1. todo'[t] \subseteq Table(db, "session")
    BY DEF LiveSessions
  <2>2. ASSUME NEW r \in Table(db, "session"), db[r].user = op[t].user, ~db[r].revoked
        PROVE  r \in todo'[t]
    BY <2>2 DEF LiveSessions
  <2>3. ASSUME NEW r \in DOMAIN put'[t] \cap DOMAIN db, r[1] = "token", put'[t][r].state # "used"
        PROVE  FALSE
    <3>1. r \in DOMAIN put[t] /\ put'[t][r] = put[t][r]
      BY <1>2, <1>3, <2>3
    <3> QED BY <2>3, <3>1 DEF TxInv, Sweeps
  <2> QED BY <1>1, <2>1, <2>2, <2>3 DEF Sweeps
<1> QED BY <1>4, <1>5, <1>6 DEF TxInv

(* What switching off and changing a password make of an account. *)
LEMMA EndsKeep ==
  ASSUME Shape, Typed(db), NEW t \in Tx, TxInv(t), Statement(t, Wants(t)), UNCHANGED before,
         ChangePassword(t) \/ (At(t, {"off"}, "switch") /\ Switch(t))
  PROVE  TxInv(t)'
<1> DEFINE r == Target(t)
<1>1. ASSUME op[t].kind \in PersonKinds
      PROVE  /\ r \in DOMAIN db /\ r = Account(op[t].user) /\ r[1] = "user" /\ Fits(r, db[r])
             /\ db[r] = [active |-> db[r].active, password |-> db[r].password, fails |-> db[r].fails,
                         locked |-> db[r].locked, off |-> db[r].off]
  <2>1. r \in DOMAIN db /\ r = Account(op[t].user) /\ r[1] = "user"
    BY <1>1, AccountRow DEF TxInv, About, Target
  <2>2. Fits(r, db[r])
    BY <2>1, RowsFit
  <2> HIDE DEF r
  <2> QED BY <2>1, <2>2 DEF Fits
<1>2. CASE ChangePassword(t)
  <2> DEFINE v == NewPassword(t)
  <2>1. /\ op[t].kind = "changing" /\ pc[t] = "password" /\ pc'[t] = "sweep" /\ todo'[t] = LiveSessions(db, op[t].user)
        /\ put'[t] = Over(One(Target(t), v), put[t]) /\ lock'[t] = lock[t] \cup Wants(t)
    BY <1>2, FindDoes DEF ChangePassword, Sweep
  <2>2. v = [db[r] EXCEPT !.password = t, !.fails = 0, !.locked = FALSE]
    BY DEF NewPassword
  <2>3. Has(lock'[t], r)
    BY <2>1 DEF Has, Wants, AccountLock
  <2> HIDE DEF v, r
  <2>4. Fits(r, v) /\ v.password = t /\ v.off = db[r].off
    <3>1. v = [active |-> v.active, password |-> v.password, fails |-> v.fails, locked |-> v.locked, off |-> v.off]
      BY <1>1, <2>1, <2>2 DEF PersonKinds
    <3>2. Fits(r, v)
      BY <1>1, <2>1, <3>1, AccountFits DEF PersonKinds
    <3>3. v.password = t /\ v.off = db[r].off
      BY <1>1, <2>1, <2>2 DEF PersonKinds
    <3> QED BY <3>2, <3>3
  <2>5. MayWrite(t, r, v)
    BY <1>1, <2>1, <2>3, <2>4 DEF MayWrite, Own, r, PersonKinds
  <2> QED BY <2>1, <2>5, BeginsToEnd DEF r
<1>3. CASE At(t, {"off"}, "switch") /\ Switch(t)
  <2> DEFINE v == [db[r] EXCEPT !.active = FALSE, !.off = t]
  <2>1. /\ op[t].kind = "off" /\ pc[t] = "switch" /\ pc'[t] = "sweep" /\ todo'[t] = LiveSessions(db, op[t].user)
        /\ put'[t] = Over(One(Target(t), v), put[t]) /\ lock'[t] = lock[t] \cup Wants(t)
    <3>1. At(t, {"off"}, "switch") /\ Sweep(t, LiveSessions(db, op[t].user), One(r, v))
      BY <1>3 DEF Switch, At
    <3> QED BY <3>1, FindDoes DEF Sweep
  <2>3. Has(lock'[t], r)
    BY <2>1 DEF Has, Wants, AccountLock
  <2> HIDE DEF r
  <2>4. Fits(r, v) /\ v.password = db[r].password /\ v.off = t
    <3>0. v = [db[r] EXCEPT !.active = FALSE, !.off = t]
      OBVIOUS
    <3> HIDE DEF v
    <3>1. v = [active |-> v.active, password |-> v.password, fails |-> v.fails, locked |-> v.locked, off |-> v.off]
      BY <1>1, <2>1, <3>0 DEF PersonKinds
    <3>2. v.password = db[r].password /\ v.off = t
      BY <1>1, <2>1, <3>0 DEF PersonKinds
    <3>3. Fits(r, v)
      BY <1>1, <2>1, <3>1, AccountFits DEF PersonKinds
    <3> QED BY <3>2, <3>3
  <2> HIDE DEF v
  <2>5. MayWrite(t, r, v)
    BY <1>1, <2>1, <2>3, <2>4 DEF MayWrite, Own, r, PersonKinds
  <2> QED BY <2>1, <2>5, BeginsToEnd DEF r
<1> QED BY <1>2, <1>3

(* A request finds the tokens to use up; a reset locks its own token. *)
LEMMA TokensKeep ==
  ASSUME Shape, NEW t \in Tx, TxInv(t), Statement(t, Wants(t)), UNCHANGED before,
         Request(t) \/ ResetToken(t)
  PROVE  TxInv(t)'
<1>1. db' = db /\ op' = op /\ before' = before
  BY StatementFrame
<1>2. CASE Request(t)
  <2>1. /\ op[t].kind = "request" /\ pc[t] = "read" /\ pc'[t] = "sweep" /\ todo'[t] = Unused(db, op[t].user)
        /\ put'[t] = put[t]
    BY <1>2, FindDoes, NoRowWritten DEF Request, Sweep
  <2>2. About(t)' /\ Fresh(t)' /\ Writes(t)'
    BY <2>1, Around, WritesSome
  <2>3. Sweeps(t)'
    BY <1>1, <2>1 DEF TxInv, Sweeps, Ending, Unused
  <2> QED BY <2>2, <2>3 DEF TxInv
<1>3. CASE ResetToken(t)
  <2>1. /\ op[t].kind = "reset" /\ pc[t] = "token" /\ pc'[t] = "holder" /\ seen'[t] = seen[t]
        /\ put'[t] = put[t] /\ lock'[t] = lock[t] \cup Wants(t) /\ db[op[t].token].state = "unused"
    BY <1>3, GoDoes, NoRowWritten DEF ResetToken
  <2>2. About(t)' /\ Fresh(t)' /\ Writes(t)'
    <3>1. seen[t] = "none"
      BY <2>1 DEF TxInv, About
    <3> QED BY <2>1, <3>1, Around, WritesSome
  <2>3. <<op[t].token, Update>> \in lock'[t]
    BY <2>1 DEF Wants, TokenLock
  <2>4. Sweeps(t)'
    BY <1>1, <2>1, <2>3 DEF TxInv, Sweeps, Ending
  <2> QED BY <2>2, <2>4 DEF TxInv
<1> QED BY <1>2, <1>3

(* The reset itself: the password, its token, and the tokens to use up.    *)
LEMMA ResetKeeps ==
  ASSUME Shape, Typed(db), NEW t \in Tx, TxInv(t), Statement(t, Wants(t)), UNCHANGED before, ResetPassword(t)
  PROVE  TxInv(t)'
<1> DEFINE r == Target(t)
           v == NewPassword(t)
           k == op[t].token
           w == [db[k] EXCEPT !.spent = @ \cup {t}]
<1>1. /\ op[t].kind = "reset" /\ pc[t] = "holder" /\ pc'[t] = "sweep" /\ todo'[t] = Unused(db, op[t].user)
      /\ put'[t] = Over(Over(One(r, v), One(k, w)), put[t]) /\ lock'[t] = lock[t] \cup Wants(t) /\ seen'[t] = seen[t]
      /\ db' = db /\ op' = op /\ before' = before
  BY FindDoes, StatementFrame DEF ResetPassword, Sweep
<1>2. /\ r \in DOMAIN db /\ r = Account(op[t].user) /\ r[1] = "user" /\ Fits(r, db[r])
      /\ db[r] = [active |-> db[r].active, password |-> db[r].password, fails |-> db[r].fails,
                  locked |-> db[r].locked, off |-> db[r].off]
  <2>1. r \in DOMAIN db /\ r = Account(op[t].user) /\ r[1] = "user"
    BY <1>1, AccountRow DEF TxInv, About, Target, PersonKinds
  <2>2. Fits(r, db[r])
    BY <2>1, RowsFit
  <2> HIDE DEF r
  <2> QED BY <2>1, <2>2 DEF Fits
<1>3. /\ k \in DOMAIN db /\ k[1] = "token" /\ db[k].user = op[t].user /\ seen[t] = "none"
      /\ <<k, Update>> \in lock[t] /\ db[k].state # "used"
  BY <1>1 DEF TxInv, About, Sweeps, Table
<1>4. /\ k = <<"token", k[2]>> /\ k[2] \in Nat /\ db[k].state \in {"unused", "expired", "used"}
      /\ db[k] = [user |-> db[k].user, state |-> db[k].state, spent |-> db[k].spent]
  BY <1>3, RowsFit
<1>5. MayWrite(t, r, v)
  <2>1. v = [db[r] EXCEPT !.password = t, !.fails = 0, !.locked = FALSE]
    BY DEF NewPassword
  <2>2. Has(lock'[t], r)
    BY <1>1 DEF Has, Wants
  <2> HIDE DEF v, r, k, w
  <2>3. Fits(r, v) /\ v.password = t /\ v.off = db[r].off
    <3>1. v = [active |-> v.active, password |-> v.password, fails |-> v.fails, locked |-> v.locked, off |-> v.off]
      BY <1>2, <2>1
    <3>2. Fits(r, v)
      BY <1>2, <3>1, AccountFits
    <3>3. v.password = t /\ v.off = db[r].off
      BY <1>2, <2>1
    <3> QED BY <3>2, <3>3
  <2> QED BY <1>1, <1>2, <2>2, <2>3 DEF MayWrite, Own, r
<1>6. MayWrite(t, k, w)
  <2> HIDE DEF k
  <2>1. w = [user |-> db[k].user, state |-> db[k].state, spent |-> db[k].spent \cup {t}]
    BY <1>4
  <2> HIDE DEF w
  <2>2. Fits(k, w)
    BY <1>3, <1>4, <2>1 DEF Fits
  <2>3. Has(lock'[t], k)
    BY <1>1, <1>3 DEF Has
  <2> QED BY <1>1, <1>3, <2>1, <2>2, <2>3 DEF MayWrite, Own, k
<1>7. /\ DOMAIN put'[t] = DOMAIN put[t] \cup {r, k} /\ put'[t][r] = v /\ put'[t][k] = w
      /\ \A x \in DOMAIN put[t] : x \notin {r, k} => put'[t][x] = put[t][x]
  <2>1. r # k /\ put'[t] = Over(Over(One(r, v), One(k, w)), put[t])
    BY <1>1, <1>2, <1>3
  <2> HIDE DEF r, k, v, w
  <2> QED BY ONLY <2>1 DEF Over, One
<1> HIDE DEF r, v, k, w
<1>8. Writes(t)'
  BY <1>5, <1>6, <1>7, WritesSome
<1>9. About(t)' /\ Fresh(t)'
  BY <1>1, Around
<1>10. Sweeps(t)'
  <2>1. todo'[t] \subseteq Table(db, "token") /\ k \in todo'[t]
    BY <1>1, <1>3 DEF Unused, Table
  <2>2. ASSUME NEW x \in DOMAIN put'[t] \cap DOMAIN db, x[1] = "token", put'[t][x].state # "used"
        PROVE  x \in todo'[t]
    <3>1. CASE x = k
      BY <2>1, <3>1
    <3>2. CASE x # k
      <4>1. x \in DOMAIN put[t] /\ put'[t][x] = put[t][x]
        BY <1>2, <1>7, <2>2, <3>2
      <4> QED BY <1>1, <2>2, <4>1 DEF TxInv, Sweeps
    <3> QED BY <3>1, <3>2
  <2> QED BY <1>1, <1>3, <2>1, <2>2 DEF Sweeps, Ending, k
<1> QED BY <1>8, <1>9, <1>10 DEF TxInv

(* One row of a sweep.  It is as the transaction sees it, and is ended if  *)
(* it was not.                                                             *)
LEMMA SweepRowKeeps ==
  ASSUME Shape, Typed(db), NEW t \in Tx, TxInv(t), Statement(t, Wants(t)), UNCHANGED before, SweepRow(t)
  PROVE  TxInv(t)'
<1> DEFINE r == First(todo[t])
           v == View(t)[r]
<1>1. /\ op[t].kind \in {"off", "changing", "request", "reset"} /\ pc[t] = "sweep" /\ pc'[t] = "sweep"
      /\ seen'[t] = seen[t] /\ todo[t] # {} /\ todo'[t] = todo[t] \ {r} /\ lock'[t] = lock[t] \cup Wants(t)
      /\ put'[t] = Over(IF Open(View(t), r) THEN One(r, Gone(v)) ELSE <<>>, put[t])
      /\ db' = db /\ op' = op /\ before' = before
  BY StatementFrame DEF SweepRow, At, Take, Shape
<1>2. todo[t] \subseteq DOMAIN db /\ \A x \in todo[t] : x[1] \in {"session", "token"}
  BY <1>1 DEF TxInv, Sweeps, Table
<1>3. r \in todo[t] /\ r \in DOMAIN db /\ r[1] \in {"session", "token"} /\ Has(lock'[t], r)
  <2>1. \A x \in todo[t] : x[2] \in Nat
    BY <1>2, RowsFit
  <2>2. r \in todo[t]
    BY <1>1, <2>1, FirstIsOne
  <2> QED BY <1>1, <1>2, <2>2 DEF Has, Wants
<1>4. v = IF r \in DOMAIN put[t] THEN put[t][r] ELSE db[r]
  BY <1>3, ViewRows
<1> HIDE DEF r
<1>5. Fits(r, v) /\ Own(t, r, Gone(v), lock'[t]) /\ Fits(r, Gone(v))
  <2>1. CASE r \in DOMAIN put[t]
    <3>1. v = put[t][r] /\ Fits(r, v) /\ Own(t, r, v, lock[t])
      BY <1>4, <2>1 DEF TxInv, Writes
    <3> HIDE DEF v
    <3>2. /\ Fits(r, Gone(v))
          /\ r[1] = "session" =>
               Gone(v).revoked /\ Gone(v).user = v.user /\ Gone(v).proof = v.proof /\ Gone(v).by = v.by
          /\ r[1] = "token" => Gone(v).state = "used" /\ Gone(v).user = v.user /\ Gone(v).spent = v.spent
      BY <1>3, <3>1, GoneRow
    <3> QED BY <1>3, <3>1, <3>2 DEF Own
  <2>2. CASE r \notin DOMAIN put[t]
    <3>1. v = db[r] /\ Fits(r, v)
      BY <1>3, <1>4, <2>2, RowsFit
    <3> HIDE DEF v
    <3>2. /\ Fits(r, Gone(v))
          /\ r[1] = "session" =>
               Gone(v).revoked /\ Gone(v).user = v.user /\ Gone(v).proof = v.proof /\ Gone(v).by = v.by
          /\ r[1] = "token" => Gone(v).state = "used" /\ Gone(v).user = v.user /\ Gone(v).spent = v.spent
      BY <1>3, <3>1, GoneRow
    <3> QED BY <1>3, <3>1, <3>2 DEF Own
  <2> QED BY <2>1, <2>2
<1>6. Open(View(t), r) <=> (r[1] = "session" /\ ~v.revoked) \/ (r[1] = "token" /\ v.state # "used")
  <2>1. r \in DOMAIN View(t)
    BY <1>3, ViewRows
  <2> QED BY <1>3, <2>1 DEF Open, Unused, LiveSessions, Table
<1> HIDE DEF v
<1>7. /\ \A x \in DOMAIN put[t] : x \in DOMAIN put'[t] /\ (x # r => put'[t][x] = put[t][x])
      /\ DOMAIN put'[t] \subseteq DOMAIN put[t] \cup {r}
      /\ IF Open(View(t), r) THEN r \in DOMAIN put'[t] /\ put'[t][r] = Gone(v) ELSE put'[t] = put[t]
  <2>1. CASE Open(View(t), r)
    <3>1. put'[t] = Over(One(r, Gone(v)), put[t])
      BY <1>1, <2>1 DEF v
    <3> QED BY <2>1, <3>1, OneRowWritten
  <2>2. CASE ~Open(View(t), r)
    <3>1. put'[t] = Over(<<>>, put[t])
      BY <1>1, <2>2
    <3> QED BY <2>2, <3>1, NoRowWritten
  <2> QED BY <2>1, <2>2
<1>8. Writes(t)'
  <2>1. MayWrite(t, r, Gone(v))
    BY <1>5 DEF MayWrite
  <2>2. \A x \in DOMAIN put'[t] : MayWrite(t, x, put'[t][x]) \/ (x \in DOMAIN put[t] /\ put'[t][x] = put[t][x])
    BY <1>7, <2>1
  <2> QED BY <2>2, WritesSome
<1>9. About(t)' /\ Fresh(t)'
  BY <1>1, Around
<1>10. Sweeps(t)'
  <2>1. Ending(t)' <=> Ending(t)
    BY <1>1 DEF Ending
  <2>2. ASSUME Ending(t), NEW x \in Table(db, "session"), db[x].user = op[t].user, ~db[x].revoked,
               db[x].by \in before[t] \cup {0}
        PROVE  x \in todo'[t] \cup DOMAIN put'[t]
    <3>1. x \in todo[t] \cup DOMAIN put[t]
      BY <2>2 DEF TxInv, Sweeps
    <3>2. CASE x = r /\ x \notin DOMAIN put[t]
      <4>1. Open(View(t), r)
        BY <1>4, <1>6, <2>2, <3>2 DEF Table, v
      <4> QED BY <1>7, <3>2, <4>1
    <3> QED BY <1>1, <1>7, <3>1, <3>2 DEF r
  <2>3. ASSUME NEW x \in DOMAIN put'[t] \cap DOMAIN db, x[1] = "token", put'[t][x].state # "used"
        PROVE  op[t].kind = "reset" /\ x \in todo'[t]
    <3>1. x # r
      <4>1. ASSUME x = r
            PROVE  FALSE
        <5>1. CASE Open(View(t), r)
          <6>1. Gone(v).state = "used"
            BY <1>5, <2>3, <4>1, GoneRow
          <6> QED BY <1>7, <2>3, <4>1, <5>1, <6>1
        <5>2. CASE ~Open(View(t), r)
          <6>1. x \in DOMAIN put[t] /\ put'[t][x] = v
            BY <1>4, <1>7, <2>3, <4>1, <5>2 DEF v
          <6> QED BY <1>6, <2>3, <4>1, <5>2, <6>1
        <5> QED BY <5>1, <5>2
      <4> QED BY <4>1
    <3>2. x \in DOMAIN put[t] /\ put'[t][x] = put[t][x]
      BY <1>7, <2>3, <3>1
    <3>3. op[t].kind = "reset" /\ x \in todo[t]
      BY <2>3, <3>2 DEF TxInv, Sweeps
    <3> QED BY <1>1, <3>1, <3>3 DEF r
  <2>4. todo'[t] \subseteq todo[t] /\ lock[t] \subseteq lock'[t]
    BY <1>1
  <2>5. pc'[t] = "sweep" => todo'[t] \subseteq Table(db, "session") \cup Table(db, "token")
    BY <1>1, <2>4 DEF TxInv, Sweeps
  <2>6. op[t].kind = "reset" => <<op[t].token, Update>> \in lock'[t] /\ db[op[t].token].state # "used"
    BY <1>1, <2>4 DEF TxInv, Sweeps
  <2> QED BY <1>1, <2>1, <2>2, <2>3, <2>5, <2>6 DEF Sweeps
<1> QED BY <1>8, <1>9, <1>10 DEF TxInv

(* And its end. *)
LEMMA SweepEndKeeps ==
  ASSUME Shape, NEW t \in Tx, TxInv(t), Statement(t, Wants(t)), UNCHANGED before, SweepEnd(t)
  PROVE  TxInv(t)'
<1>1. db' = db /\ op' = op /\ before' = before /\ lock[t] \subseteq lock'[t]
  BY StatementFrame
<1>2. CASE At(t, {"off", "changing"}, "sweep") /\ todo[t] = {} /\ Go(t, "commit", <<>>)
  <2>1. /\ op[t].kind \in {"off", "changing"} /\ pc[t] = "sweep" /\ pc'[t] = "commit" /\ todo'[t] = {} /\ put'[t] = put[t]
    BY <1>2, GoDoes, NoRowWritten
  <2>2. About(t)' /\ Fresh(t)' /\ Writes(t)'
    BY <2>1, Around, WritesSome
  <2>3. Sweeps(t)'
    BY <1>1, <1>2, <2>1 DEF TxInv, Sweeps, Ending
  <2> QED BY <2>2, <2>3 DEF TxInv
<1>3. CASE At(t, {"request"}, "sweep") /\ Go(t, "insert", <<>>)
  <2>1. op[t].kind = "request" /\ pc[t] = "sweep" /\ pc'[t] = "insert" /\ put'[t] = put[t]
    BY <1>3, GoDoes, NoRowWritten
  <2> QED BY <2>1, Quietly
<1>4. CASE /\ At(t, {"reset"}, "sweep") /\ todo[t] = {} /\ seen' = [seen EXCEPT ![t] = "sessions"]
           /\ Find(t, {}, "sweep", LiveSessions(db, op[t].user), <<>>)
  <2>1. /\ op[t].kind = "reset" /\ pc[t] = "sweep" /\ pc'[t] = "sweep" /\ todo'[t] = LiveSessions(db, op[t].user)
        /\ put'[t] = put[t] /\ seen'[t] = "sessions"
    BY <1>4, FindDoes, NoRowWritten DEF Shape
  <2>2. About(t)' /\ Fresh(t)' /\ Writes(t)'
    BY <2>1, Around, WritesSome
  <2>3. Sweeps(t)'
    <3>1. /\ <<op[t].token, Update>> \in lock'[t] /\ db[op[t].token].state # "used"
          /\ \A r \in DOMAIN put[t] \cap DOMAIN db : r[1] = "token" => put[t][r].state = "used"
      BY <1>1, <1>4, <2>1 DEF TxInv, Sweeps
    <3> QED BY <1>1, <2>1, <3>1 DEF Sweeps, LiveSessions
  <2> QED BY <2>2, <2>3 DEF TxInv
<1>5. CASE At(t, {"reset"}, "sweep") /\ todo[t] = {} /\ seen[t] = "sessions" /\ Go(t, "commit", <<>>)
  <2>1. /\ op[t].kind = "reset" /\ pc[t] = "sweep" /\ pc'[t] = "commit" /\ todo'[t] = {} /\ put'[t] = put[t]
    BY <1>5, GoDoes, NoRowWritten
  <2>2. About(t)' /\ Fresh(t)' /\ Writes(t)'
    BY <2>1, Around, WritesSome
  <2>3. Sweeps(t)'
    BY <1>1, <1>5, <2>1 DEF TxInv, Sweeps, Ending
  <2> QED BY <2>2, <2>3 DEF TxInv
<1> QED BY <1>2, <1>3, <1>4, <1>5 DEF SweepEnd

(* Whatever the statement. *)
LEMMA StepKeeps ==
  ASSUME Shape, Typed(db), NEW t \in Tx, TxInv(t), Statement(t, Wants(t)), UNCHANGED before, Step(t), ~Committing(t)
  PROVE  TxInv(t)'
<1>1. Switch(t) => (At(t, {"on"}, "switch") /\ Switch(t)) \/ (At(t, {"off"}, "switch") /\ Switch(t))
  BY DEF Switch
<1>2. ASSUME OrgLocked(t) \/ CheckTarget(t) \/ ReadOwned(t) \/ LockOwned(t) \/ Recheck(t) \/ Login(t) \/ CheckPassword(t)
      PROVE  TxInv(t)'
  BY <1>2, SilentKeeps
<1>3. ASSUME CreateAccount(t) \/ AddMember(t) \/ ChangeMember(t)
      PROVE  TxInv(t)'
  BY <1>3, MembersKeep
<1>4. ASSUME Switch(t) \/ CreateToken(t) \/ ChangePassword(t)
      PROVE  TxInv(t)'
  BY <1>1, <1>4, AddsKeep, EndsKeep
<1>5. ASSUME Request(t) \/ ResetToken(t)
      PROVE  TxInv(t)'
  BY <1>5, TokensKeep
<1>6. ResetPassword(t) \/ SweepRow(t) \/ SweepEnd(t) => TxInv(t)'
  BY ResetKeeps, SweepRowKeeps, SweepEndKeeps
<1> QED BY <1>2, <1>3, <1>4, <1>5, <1>6 DEF Step, Committing

-----------------------------------------------------------------------------
(* Steps that change the database.                                         *)

(* What a transaction can bear of others: rows it holds do not change in   *)
(* what it relies on, sessions only end, and new ones are of transactions  *)
(* that were not over when it began.                                       *)
Bears(u, r) ==
  /\ r[1] = "user" =>
       /\ db'[r].password = db[r].password \/ db'[r].password # 0
       /\ Has(lock[u], r) => db'[r].password = db[r].password /\ db'[r].off = db[r].off
  /\ r[1] = "session" =>
       /\ db'[r].user = db[r].user /\ db'[r].proof = db[r].proof /\ db'[r].by = db[r].by
       /\ ~db'[r].revoked => ~db[r].revoked
  /\ r[1] = "token" =>
       /\ db'[r].user = db[r].user
       /\ Has(lock[u], r) => db'[r].spent = db[r].spent /\ (db[r].state # "used" => db'[r].state # "used")
BearsNew(u, r) ==
  /\ r[1] = "user" => ~Has(lock[u], r)
  /\ r[1] = "session" => db'[r].by \notin before[u] \cup {0}
  /\ r[1] = "token" => r # <<"token", New(u)>>
Evolves(u) ==
  /\ DOMAIN db \subseteq DOMAIN db'
  /\ \A r \in DOMAIN db : Bears(u, r)
  /\ \A r \in DOMAIN db' : r \notin DOMAIN db => BearsNew(u, r)

(* What it has of its own. *)
ItsOwn(u) ==
  /\ op'[u] = op[u] /\ before'[u] = before[u] /\ seen'[u] = seen[u] /\ todo'[u] = todo[u]
  /\ put'[u] = put[u] /\ lock'[u] = lock[u]

(* Its rows stay what they were. *)
LEMMA WritesEvolve ==
  ASSUME NEW u \in Tx, Writes(u), Evolves(u), ItsOwn(u)
  PROVE  Writes(u)'
<1> DEFINE v(r) == put[u][r]
<1>1. op'[u] = op[u] /\ put'[u] = put[u] /\ lock'[u] = lock[u] /\ Target(u)' = Target(u) /\ New(u)' = New(u)
  BY DEF ItsOwn, Target, New
<1>2. ASSUME NEW r \in DOMAIN put[u]
      PROVE  Fits(r, v(r)) /\ Own(u, r, put[u][r], lock[u])'
  <2>1. Fits(r, v(r)) /\ Own(u, r, v(r), lock[u])
    BY DEF Writes
  <2>2. v(r)' = v(r)
    BY <1>1
  <2>3. CASE r \in DOMAIN db
    <3>1. Bears(u, r) /\ r \in DOMAIN db'
      BY <2>3 DEF Evolves
    <3> HIDE DEF v
    <3>2. r[1] = "user" =>
            /\ r = Target(u)' /\ Has(lock'[u], r)
            /\ v(r).password = db'[r].password \/ (op'[u].kind \in {"changing", "reset"} /\ v(r).password = u)
            /\ v(r).off = db'[r].off \/ (op'[u].kind = "off" /\ v(r).off = u)
      BY <1>1, <2>1, <2>3, <3>1 DEF Own, Bears
    <3>3. r[1] = "session" =>
            v(r).revoked /\ v(r).user = db'[r].user /\ v(r).proof = db'[r].proof /\ v(r).by = db'[r].by
      BY <2>1, <2>3, <3>1 DEF Own, Bears
    <3>4. r[1] = "token" =>
            /\ Has(lock'[u], r) /\ v(r).user = db'[r].user
            /\ v(r).spent = db'[r].spent \/ (op'[u].kind = "reset" /\ r = op'[u].token /\ v(r).spent = db'[r].spent \cup {u})
      BY <1>1, <2>1, <2>3, <3>1 DEF Own, Bears
    <3>5. Own(u, r, v(r), lock[u])'
      BY <2>2, <3>1, <3>2, <3>3, <3>4 DEF Own
    <3> QED BY <2>1, <3>5 DEF v
  <2>4. CASE r \notin DOMAIN db
    <3>1. r \notin DOMAIN db' \/ r[1] \notin {"user", "session", "token"}
      BY <2>1, <2>4 DEF Own, Evolves, BearsNew
    <3>2. DOMAIN db \subseteq DOMAIN db'
      BY DEF Evolves
    <3> HIDE DEF v
    <3>3. Own(u, r, v(r), lock[u])'
      BY <1>1, <2>1, <2>2, <2>4, <3>1, <3>2 DEF Own
    <3> QED BY <2>1, <3>3 DEF v
  <2> QED BY <2>3, <2>4
<1>3. \A r \in DOMAIN put'[u] : Fits(r, put'[u][r])
  BY <1>1, <1>2
<1> QED BY <1>1, <1>2, <1>3 DEF Writes

(* A row it writes is new only to itself. *)
LEMMA TokensOfItsOwn ==
  ASSUME NEW u \in Tx, Writes(u), Evolves(u), ItsOwn(u), NEW r \in DOMAIN put'[u] \cap DOMAIN db', r[1] = "token"
  PROVE  r \in DOMAIN put[u] /\ r \in DOMAIN db /\ put'[u][r] = put[u][r]
<1>1. r \in DOMAIN put[u] /\ put'[u][r] = put[u][r]
  BY DEF ItsOwn
<1>2. r \in DOMAIN db
  BY <1>1 DEF Writes, Own, Evolves, BearsNew
<1> QED BY <1>1, <1>2

(* Its sweep stays one. *)
LEMMA SweepsEvolve ==
  ASSUME NEW u \in Tx, About(u), Writes(u), Sweeps(u), Evolves(u), ItsOwn(u), pc'[u] = pc[u]
  PROVE  Sweeps(u)'
<1>1. Ending(u)' <=> Ending(u)
  BY DEF Ending, ItsOwn
<1>2. Table(db, "session") \subseteq Table(db, "session")' /\ Table(db, "token") \subseteq Table(db, "token")'
  BY DEF Table, Evolves
<1>3. ASSUME Ending(u), NEW r \in Table(db, "session")', db'[r].user = op[u].user, ~db'[r].revoked,
             db'[r].by \in before[u] \cup {0}
      PROVE  r \in todo[u] \cup DOMAIN put[u]
  <2>1. r \in DOMAIN db
    BY <1>3 DEF Table, Evolves, BearsNew
  <2>2. db[r].user = op[u].user /\ ~db[r].revoked /\ db[r].by \in before[u] \cup {0} /\ r \in Table(db, "session")
    BY <1>3, <2>1 DEF Table, Evolves, Bears
  <2> QED BY <1>3, <2>2 DEF Sweeps
<1>4. ASSUME op[u].kind = "reset", pc[u] \in {"holder", "sweep", "commit"}
      PROVE  <<op[u].token, Update>> \in lock[u] /\ db'[op[u].token].state # "used"
  <2>1. /\ op[u].token \in DOMAIN db /\ op[u].token[1] = "token"
        /\ <<op[u].token, Update>> \in lock[u] /\ db[op[u].token].state # "used"
    BY <1>4 DEF About, Sweeps, Table
  <2> QED BY <2>1 DEF Evolves, Bears, Has
<1>5. ASSUME NEW r \in DOMAIN put'[u] \cap DOMAIN db', r[1] = "token", put'[u][r].state # "used"
      PROVE  op[u].kind = "reset" /\ pc[u] = "sweep" /\ r \in todo[u]
  <2>1. r \in DOMAIN put[u] /\ r \in DOMAIN db /\ put'[u][r] = put[u][r]
    BY <1>5, TokensOfItsOwn
  <2> QED BY <1>5, <2>1 DEF Sweeps
<1>6. op'[u] = op[u] /\ before'[u] = before[u] /\ todo'[u] = todo[u] /\ put'[u] = put[u] /\ lock'[u] = lock[u]
  BY DEF ItsOwn
<1>7. pc'[u] = "sweep" => todo'[u] \subseteq Table(db, "session")' \cup Table(db, "token")'
  BY <1>2, <1>6 DEF Sweeps
<1>8. op'[u].kind \in {"off", "changing", "reset"} /\ pc'[u] = "commit" => todo'[u] = {}
  BY <1>6 DEF Sweeps
<1> QED BY <1>1, <1>3, <1>4, <1>5, <1>6, <1>7, <1>8 DEF Sweeps

(* Those that were over are. *)
DoneStays == \A x \in Tx : pc[x] = "done" => pc'[x] = "done"

(* What it is about stays. *)
LEMMA AboutEvolves ==
  ASSUME NEW u \in Tx, About(u), Evolves(u), ItsOwn(u),
         pc'[u] = pc[u] \/ (op[u].kind \in {"login", "logout"} /\ ((pc'[u] = "insert" /\ pc[u] = "success") \/ pc'[u] = "commit"))
  PROVE  About(u)'
<1>1. op'[u] = op[u] /\ seen'[u] = seen[u] /\ Target(u)' = Target(u)
  BY DEF ItsOwn, Target
<1>2. \A r \in DOMAIN db : r \in DOMAIN db'
  BY DEF Evolves
<1>3. op[u].kind \in PersonKinds => Target(u) \in DOMAIN db'
  BY <1>2 DEF About
<1>4. op[u].kind = "reset" => op[u].token \in Table(db, "token")' /\ db'[op[u].token].user = op[u].user
  <2>1. ASSUME op[u].kind = "reset"
        PROVE  op[u].token \in Table(db, "token")' /\ db'[op[u].token].user = op[u].user
    <3>1. op[u].token \in DOMAIN db /\ op[u].token[1] = "token" /\ db[op[u].token].user = op[u].user
      BY <2>1 DEF About, Table
    <3> QED BY <1>2, <3>1 DEF Evolves, Bears, Table
  <2> QED BY <2>1
<1>5. op[u].kind = "logout" => op[u].session \in Table(db, "session")'
  BY <1>2 DEF About, Table
<1>6. op[u].kind = "login" /\ pc'[u] \in {"success", "insert"} =>
        op[u].password = db'[Target(u)].password \/ db'[Target(u)].password # 0
  <2>1. ASSUME op[u].kind = "login", pc'[u] \in {"success", "insert"}
        PROVE  op[u].password = db'[Target(u)].password \/ db'[Target(u)].password # 0
    <3>1. op[u].password = db[Target(u)].password \/ db[Target(u)].password # 0
      BY <2>1 DEF About
    <3>2. Target(u) \in DOMAIN db /\ Target(u)[1] = "user"
      BY <2>1, AccountRow DEF About, PersonKinds, Target
    <3>3. db'[Target(u)].password = db[Target(u)].password \/ db'[Target(u)].password # 0
      BY <3>2 DEF Evolves, Bears
    <3> QED BY <3>1, <3>3
  <2> QED BY <2>1
<1>7. pc'[u] = "idle" \/ (op[u].kind = "reset" /\ pc'[u] \in {"token", "holder"}) => seen[u] = "none"
  BY DEF About
<1> QED BY <1>1, <1>3, <1>4, <1>5, <1>6, <1>7 DEF About

(* A transaction that does nothing keeps its share. *)
LEMMA Undisturbed ==
  ASSUME NEW u \in Tx, TxInv(u), Evolves(u), ItsOwn(u), pc'[u] = pc[u], DoneStays,
         pc[u] \notin {"commit", "done"} /\ <<"session", New(u)>> \in DOMAIN db' => <<"session", New(u)>> \in DOMAIN db
  PROVE  TxInv(u)'
<1>1. About(u)' /\ Writes(u)' /\ Sweeps(u)'
  BY AboutEvolves, WritesEvolve, SweepsEvolve DEF TxInv
<1>2. Fresh(u)'
  <2>1. before'[u] = before[u] /\ before[u] \subseteq {x \in Tx : pc'[x] = "done"}
    BY DEF TxInv, Fresh, ItsOwn, DoneStays
  <2>2. pc[u] # "done" => <<"token", New(u)>> \notin DOMAIN db'
    BY DEF TxInv, Fresh, Evolves, BearsNew
  <2>3. New(u)' = New(u)
    BY DEF New
  <2> QED BY <2>1, <2>2, <2>3 DEF TxInv, Fresh
<1> QED BY <1>1, <1>2 DEF TxInv

(* One whose statement is committed at once keeps its own. *)
LEMMA NowKeeps ==
  ASSUME NEW t \in Tx, TxInv(t), Evolves(t), ItsOwn(t), DoneStays, op[t].kind \in {"login", "logout"},
         pc[t] \in {"failed", "success", "insert", "revoke"},
         (pc'[t] = "insert" /\ pc[t] = "success") \/ pc'[t] = "commit",
         pc'[t] = "insert" => <<"session", New(t)>> \notin DOMAIN db' \/ <<"session", New(t)>> \in DOMAIN db
  PROVE  TxInv(t)'
<1>1. About(t)' /\ Writes(t)'
  BY AboutEvolves, WritesEvolve DEF TxInv
<1>2. op'[t] = op[t] /\ before'[t] = before[t] /\ New(t)' = New(t)
  BY DEF ItsOwn, New
<1>3. Sweeps(t)'
  <2>1. ASSUME NEW r \in DOMAIN put'[t] \cap DOMAIN db', r[1] = "token", put'[t][r].state # "used"
        PROVE  FALSE
    <3>1. r \in DOMAIN put[t] /\ r \in DOMAIN db /\ put'[t][r] = put[t][r]
      BY <2>1, TokensOfItsOwn DEF TxInv
    <3> QED BY <2>1, <3>1 DEF TxInv, Sweeps
  <2> QED BY <1>2, <2>1 DEF Sweeps, Ending
<1>4. Fresh(t)'
  <2>1. before[t] \subseteq {x \in Tx : pc'[x] = "done"}
    BY DEF TxInv, Fresh, DoneStays
  <2>2. <<"token", New(t)>> \notin DOMAIN db'
    BY DEF TxInv, Fresh, Evolves, BearsNew
  <2>3. pc'[t] = "insert" => <<"session", New(t)>> \notin DOMAIN db'
    BY DEF TxInv, Fresh
  <2> QED BY <1>2, <2>1, <2>2, <2>3 DEF Fresh
<1> QED BY <1>1, <1>3, <1>4 DEF TxInv

(* A mild change is one that every transaction bears, and that leaves      *)
(* passwords, and what sessions and tokens were used for.                  *)
Mild ==
  /\ DOMAIN db' = DOMAIN db
  /\ \A r \in DOMAIN db :
       /\ r[1] = "user" => db'[r].password = db[r].password /\ db'[r].off = db[r].off
       /\ r[1] = "session" =>
            /\ db'[r].user = db[r].user /\ db'[r].proof = db[r].proof /\ db'[r].by = db[r].by
            /\ ~db'[r].revoked => ~db[r].revoked
       /\ r[1] = "token" =>
            /\ db'[r].user = db[r].user /\ db'[r].spent = db[r].spent
            /\ db'[r].state = "used" <=> db[r].state = "used"
LEMMA MildIsBorne ==
  ASSUME NEW u \in Tx, Mild
  PROVE  Evolves(u)
BY DEF Mild, Evolves, Bears

(* So it is by the database. *)
LEMMA MildRows ==
  ASSUME Mild, Typed(db), \A r \in DOMAIN db : Row(r), before' = before, DoneStays
  PROVE  \A r \in DOMAIN db' : Row(r)'
<1>1. ASSUME NEW r \in DOMAIN db
      PROVE  Row(r)'
  <2>0. Row(r)
    OBVIOUS
  <2>1. CASE r[1] = "user"
    BY <2>0, <2>1 DEF Row, Mild, DoneStays
  <2>2. CASE r[1] = "session"
    <3>1. Account(db[r].user) \in DOMAIN db /\ Account(db[r].user)[1] = "user"
      BY <2>2, RowsFit, AccountRow
    <3>2. /\ db'[Account(db[r].user)].password = db[Account(db[r].user)].password
          /\ db'[Account(db[r].user)].off = db[Account(db[r].user)].off
      BY <3>1 DEF Mild
    <3>3. db'[r].user = db[r].user /\ db'[r].proof = db[r].proof /\ db'[r].by = db[r].by /\ (~db'[r].revoked => ~db[r].revoked)
      BY <2>2 DEF Mild
    <3> QED BY <2>0, <2>2, <3>2, <3>3 DEF Row, Outlives
  <2>3. CASE r[1] = "token"
    BY <2>0, <2>3 DEF Row, Mild
  <2> QED BY <2>1, <2>2, <2>3 DEF Row
<1> QED BY <1>1 DEF Mild

(* A row over a database of rows. *)
LEMMA RowOver ==
  ASSUME Typed(db), NEW r, NEW v, db' = Over(One(r, v), db), Fits(r, v),
         r[1] \in {"session", "token"} => Account(v.user) \in DOMAIN db
  PROVE  /\ Typed(db)' /\ DOMAIN db' = DOMAIN db \cup {r} /\ db'[r] = v
         /\ \A x \in DOMAIN db : x # r => db'[x] = db[x]
<1>1. /\ DOMAIN db' = DOMAIN db \cup {r} /\ db'[r] = v /\ \A x \in DOMAIN db : x # r => db'[x] = db[x]
      /\ db' = [x \in DOMAIN db' |-> db'[x]]
  <2>1. db' = Over(One(r, v), db)
    OBVIOUS
  <2> QED BY ONLY <2>1 DEF Over, One
<1>2. ASSUME NEW x \in DOMAIN db'
      PROVE  Fits(x, db'[x]) /\ (x[1] \in {"session", "token"} => Account(db'[x].user) \in DOMAIN db')
  <2>1. CASE x = r
    BY <1>1, <2>1
  <2>2. CASE x # r
    BY <1>1, <1>2, <2>2 DEF Typed
  <2> QED BY <2>1, <2>2
<1> QED BY <1>1, <1>2 DEF Typed

-----------------------------------------------------------------------------
(* Statements that are transactions of their own, and time.                *)

(* If the database bears a change, and every transaction does. *)
LEMMA NowStays ==
  ASSUME AInv, NEW t \in Tx, NEW where, pc' = [pc EXCEPT ![t] = where], UNCHANGED <<op, seen, todo, put, lock, before>>,
         op[t].kind \in {"login", "logout"}, pc[t] \in {"failed", "success", "insert", "revoke"},
         (where = "insert" /\ pc[t] = "success") \/ where = "commit",
         Typed(db)', \A r \in DOMAIN db' : Row(r)', \A u \in Tx : Evolves(u),
         \A u \in Tx : <<"session", New(u)>> \in DOMAIN db' =>
           <<"session", New(u)>> \in DOMAIN db \/ (u = t /\ where = "commit")
  PROVE  AInv'
<1>1. pc'[t] = where /\ \A u \in Tx \ {t} : pc'[u] = pc[u]
  BY DEF AInv, Shape
<1>2. Shape' /\ Exclusion'
  BY <1>1, PlacesOnly DEF AInv, Shape
<1>3. DoneStays /\ \A u \in Tx : ItsOwn(u)
  BY <1>1 DEF DoneStays, ItsOwn
<1>4. TxInv(t)'
  BY <1>1, <1>3, NowKeeps DEF AInv
<1>5. ASSUME NEW u \in Tx, u # t
      PROVE  TxInv(u)'
  BY <1>1, <1>3, <1>5, Undisturbed DEF AInv
<1> QED BY <1>2, <1>4, <1>5 DEF AInv

(* A change of one row that is there. *)
LEMMA OneMildly ==
  ASSUME Typed(db), NEW r \in DOMAIN db, NEW v, db' = Over(One(r, v), db), Fits(r, v),
         r[1] = "user" => v.password = db[r].password /\ v.off = db[r].off,
         r[1] = "session" =>
           v.user = db[r].user /\ v.proof = db[r].proof /\ v.by = db[r].by /\ (~v.revoked => ~db[r].revoked),
         r[1] = "token" => v.user = db[r].user /\ v.spent = db[r].spent /\ (v.state = "used" <=> db[r].state = "used")
  PROVE  Typed(db)' /\ Mild
<1>1. r[1] \in {"session", "token"} => Account(v.user) \in DOMAIN db
  BY RowsFit
<1>2. Typed(db)' /\ DOMAIN db' = DOMAIN db /\ db'[r] = v /\ \A x \in DOMAIN db : x # r => db'[x] = db[x]
  BY <1>1, RowOver
<1> QED BY <1>2 DEF Mild

(* The outcome of a sign-in is recorded. *)
LEMMA OutcomeStays ==
  ASSUME AInv, NEW t \in Tx, LoginFailed(t) \/ LoginSucceeded(t)
  PROVE  AInv'
<1> DEFINE r == Target(t)
<1>1. op[t].kind = "login"
  BY DEF LoginFailed, LoginSucceeded, At
<1>2. /\ r \in DOMAIN db /\ r = Account(op[t].user) /\ r[1] = "user" /\ Fits(r, db[r])
      /\ db[r] = [active |-> db[r].active, password |-> db[r].password, fails |-> db[r].fails,
                  locked |-> db[r].locked, off |-> db[r].off]
  <2>1. r \in DOMAIN db /\ r = Account(op[t].user) /\ r[1] = "user"
    BY <1>1, AccountRow DEF AInv, TxInv, About, Target, PersonKinds
  <2>2. Fits(r, db[r])
    BY <2>1, RowsFit DEF AInv
  <2> HIDE DEF r
  <2> QED BY <2>1, <2>2 DEF Fits
<1>3. PICK fails, locked, where :
        /\ Now(t, where, One(r, [db[r] EXCEPT !.fails = fails, !.locked = locked])) /\ UNCHANGED before
        /\ \/ where = "insert" /\ pc[t] = "success"
           \/ where = "commit" /\ pc[t] = "failed"
  <2>1. CASE LoginFailed(t)
    <3> DEFINE f == IF db[r].fails < MaxAttempts THEN db[r].fails + 1 ELSE MaxAttempts
               l == db[r].locked \/ f >= MaxAttempts
    <3>1. /\ Now(t, "commit", One(r, [db[r] EXCEPT !.fails = f, !.locked = @ \/ f >= MaxAttempts]))
          /\ pc[t] = "failed" /\ UNCHANGED before
      BY <2>1 DEF LoginFailed, At
    <3>2. [db[r] EXCEPT !.fails = f, !.locked = @ \/ f >= MaxAttempts] = [db[r] EXCEPT !.fails = f, !.locked = l]
      <4> HIDE DEF r, f
      <4> QED BY <1>2
    <3> HIDE DEF f, l, r
    <3> QED BY <3>1, <3>2
  <2>2. CASE LoginSucceeded(t)
    <3>1. /\ Now(t, "insert", One(r, [db[r] EXCEPT !.fails = 0, !.locked = FALSE]))
          /\ pc[t] = "success" /\ UNCHANGED before
      BY <2>2 DEF LoginSucceeded, At
    <3> HIDE DEF r
    <3> QED BY <3>1
  <2> QED BY <2>1, <2>2
<1> DEFINE v == [db[r] EXCEPT !.fails = fails, !.locked = locked]
<1>4. Fits(r, v) /\ v.password = db[r].password /\ v.off = db[r].off
  <2>1. Fits(r, v)
    <3> HIDE DEF r
    <3>0. v = [db[r] EXCEPT !.fails = fails, !.locked = locked]
      OBVIOUS
    <3> HIDE DEF v
    <3>1. v = [active |-> v.active, password |-> v.password, fails |-> v.fails, locked |-> v.locked, off |-> v.off]
      BY <1>2, <3>0
    <3> QED BY <1>2, <3>1, AccountFits
  <2> HIDE DEF r
  <2> QED BY <1>2, <2>1
<1>5. db' = Over(One(r, v), db) /\ pc' = [pc EXCEPT ![t] = where] /\ UNCHANGED <<op, seen, todo, put, lock, before>>
  BY <1>3 DEF Now
<1> HIDE DEF r, v
<1>6. Typed(db)' /\ Mild
  BY <1>2, <1>4, <1>5, OneMildly DEF AInv
<1>7. DoneStays
  BY <1>3, <1>5 DEF AInv, Shape, DoneStays
<1>8. /\ \A x \in DOMAIN db' : Row(x)'
      /\ \A u \in Tx : Evolves(u)
  BY <1>5, <1>6, <1>7, MildRows, MildIsBorne DEF AInv
<1>9. DOMAIN db' = DOMAIN db
  BY <1>6 DEF Mild
<1> QED BY <1>1, <1>3, <1>5, <1>6, <1>8, <1>9, NowStays

(* A session is ended by its own. *)
LEMMA LogoutStays ==
  ASSUME AInv, NEW t \in Tx, Logout(t)
  PROVE  AInv'
<1> DEFINE r == op[t].session
           v == Gone(db[r])
<1>1. /\ op[t].kind = "logout" /\ pc[t] = "revoke" /\ db' = Over(One(r, v), db) /\ pc' = [pc EXCEPT ![t] = "commit"]
      /\ UNCHANGED <<op, seen, todo, put, lock, before>>
  BY DEF Logout, At, Now
<1>2. r \in DOMAIN db /\ r[1] = "session" /\ Fits(r, db[r])
  <2>1. r \in DOMAIN db /\ r[1] = "session"
    BY <1>1 DEF AInv, TxInv, About, Table
  <2> QED BY <2>1, RowsFit DEF AInv
<1> HIDE DEF r
<1>3. Fits(r, v) /\ v.revoked /\ v.user = db[r].user /\ v.proof = db[r].proof /\ v.by = db[r].by
  BY <1>2, GoneRow
<1> HIDE DEF v
<1>4. Typed(db)' /\ Mild
  BY <1>1, <1>2, <1>3, OneMildly DEF AInv
<1>5. DoneStays
  BY <1>1 DEF AInv, Shape, DoneStays
<1>6. /\ \A x \in DOMAIN db' : Row(x)'
      /\ \A u \in Tx : Evolves(u)
  BY <1>1, <1>4, <1>5, MildRows, MildIsBorne DEF AInv
<1>7. DOMAIN db' = DOMAIN db
  BY <1>4 DEF Mild
<1> QED BY <1>1, <1>4, <1>6, <1>7, NowStays

(* A session is made, by a transaction that was not over when any that is  *)
(* or was under way began.                                                 *)
LEMMA SessionStays ==
  ASSUME AInv, NEW t \in Tx, CreateSession(t)
  PROVE  AInv'
<1> DEFINE r == <<"session", New(t)>>
           v == [user |-> op[t].user, proof |-> op[t].password, by |-> t, revoked |-> FALSE]
           a == Account(op[t].user)
<1>1. /\ op[t].kind = "login" /\ pc[t] = "insert" /\ db' = Over(One(r, v), db) /\ pc' = [pc EXCEPT ![t] = "commit"]
      /\ UNCHANGED <<op, seen, todo, put, lock, before>>
  BY DEF CreateSession, At, Now
<1>2. /\ a \in DOMAIN db /\ a[1] = "user" /\ r[1] = "session" /\ r \notin DOMAIN db
      /\ op[t].password = db[a].password \/ db[a].password # 0
  BY <1>1, AccountRow DEF AInv, TxInv, About, Fresh, PersonKinds, Target
<1>3. Fits(r, v) /\ v.user = op[t].user /\ v.proof = op[t].password /\ v.by = t /\ ~v.revoked
  BY NewIsNew DEF Fits
<1>4. \A u \in Tx : t \notin before[u]
  BY <1>1 DEF AInv, TxInv, Fresh
<1>5. t # 0 /\ \A u \in Tx : r = <<"session", New(u)>> => u = t
  BY NewIsNew
<1> HIDE DEF r, v, a
<1>6. Typed(db)' /\ DOMAIN db' = DOMAIN db \cup {r} /\ db'[r] = v /\ \A x \in DOMAIN db : x # r => db'[x] = db[x]
  BY <1>1, <1>2, <1>3, RowOver DEF AInv, a
<1>7. \A x \in Tx : pc[x] = "done" <=> pc'[x] = "done"
  BY <1>1 DEF AInv, Shape
<1>8. ASSUME NEW x \in DOMAIN db'
      PROVE  Row(x)'
  <2>1. CASE x = r
    <3>1. Row(a) /\ Account(v.user) = a /\ db'[a] = db[a]
      BY <1>2, <1>3, <1>6 DEF AInv, a
    <3>2. db[a].password # 0 => Outlives(v, db[a].password)
      BY <1>2, <1>3, <1>4, <1>5, <3>1 DEF Row, Outlives
    <3>3. db[a].off # 0 => Outlives(v, db[a].off)
      BY <1>2, <1>3, <1>4, <1>5, <3>1 DEF Row, Outlives
    <3>4. v.proof # db[a].password => Outlives(v, db[a].password)
      BY <1>2, <1>3, <3>2
    <3>5. \A c : Outlives(v, c) => c \in Tx /\ v.by # 0 /\ v.by \notin before'[c]
      BY <1>1 DEF Outlives
    <3> QED BY <1>1, <1>2, <1>6, <2>1, <3>1, <3>3, <3>4 DEF Row, Outlives
  <2>2. CASE x # r
    <3>1. x \in DOMAIN db /\ db'[x] = db[x] /\ Row(x)
      BY <1>6, <1>8, <2>2 DEF AInv
    <3>2. x[1] = "session" => db'[Account(db[x].user)] = db[Account(db[x].user)]
      BY <1>2, <1>6, <3>1, RowsFit DEF AInv
    <3> QED BY <1>1, <1>7, <3>1, <3>2 DEF Row, Outlives
  <2> QED BY <2>1, <2>2
<1>9. ASSUME NEW u \in Tx
      PROVE  Evolves(u)
  <2>1. \A x \in DOMAIN db : Bears(u, x)
    BY <1>2, <1>6 DEF Bears
  <2>2. \A x \in DOMAIN db' : x \notin DOMAIN db => BearsNew(u, x)
    BY <1>2, <1>3, <1>4, <1>5, <1>6 DEF BearsNew
  <2> QED BY <1>6, <2>1, <2>2 DEF Evolves
<1>10. \A u \in Tx : <<"session", New(u)>> \in DOMAIN db' => <<"session", New(u)>> \in DOMAIN db \/ u = t
  BY <1>5, <1>6
<1> QED BY <1>1, <1>6, <1>8, <1>9, <1>10, NowStays

(* A lock ends, a token expires. *)
LEMMA TimeStays ==
  ASSUME AInv, TimePasses
  PROVE  AInv'
<1>1. PICK r \in DOMAIN db :
        \/ r[1] = "user" /\ db' = [db EXCEPT ![r].locked = FALSE]
        \/ r[1] = "token" /\ db[r].state = "unused" /\ db' = [db EXCEPT ![r].state = "expired"]
  BY DEF TimePasses
<1>2. UNCHANGED <<op, pc, seen, todo, put, lock, before>>
  BY DEF TimePasses
<1>3. Typed(db) /\ Fits(r, db[r]) /\ db = [x \in DOMAIN db |-> db[x]]
  BY RowsFit DEF AInv, Typed
<1>4. Typed(db)' /\ Mild
  <2>1. CASE r[1] = "user" /\ db' = [db EXCEPT ![r].locked = FALSE]
    <3> DEFINE v == [db[r] EXCEPT !.locked = FALSE]
    <3>1. r = Account(r[2]) /\ db' = [db EXCEPT ![r] = v]
      BY <1>3, <2>1, RowsFit
    <3>2. Fits(r, v)
      BY <1>3, <3>1, ChangedAccount
    <3>3. db[r] = [active |-> db[r].active, password |-> db[r].password, fails |-> db[r].fails,
                   locked |-> db[r].locked, off |-> db[r].off]
      BY <1>3, <2>1 DEF Fits
    <3>4. v.password = db[r].password /\ v.off = db[r].off
      BY <3>3
    <3> HIDE DEF v
    <3>5. db' = Over(One(r, v), db)
      BY <1>3, <3>1 DEF Over, One
    <3> QED BY <1>3, <2>1, <3>2, <3>4, <3>5, OneMildly
  <2>2. CASE r[1] = "token" /\ db[r].state = "unused" /\ db' = [db EXCEPT ![r].state = "expired"]
    <3> DEFINE v == [db[r] EXCEPT !.state = "expired"]
    <3>1. /\ r = <<"token", r[2]>> /\ r[2] \in Nat
          /\ db[r] = [user |-> db[r].user, state |-> db[r].state, spent |-> db[r].spent]
      BY <1>3, <2>2 DEF Fits
    <3>2. v = [user |-> db[r].user, state |-> "expired", spent |-> db[r].spent]
      BY <3>1
    <3>3. db' = [db EXCEPT ![r] = v]
      BY <2>2
    <3> HIDE DEF v
    <3>4. db' = Over(One(r, v), db)
      BY <1>3, <3>3 DEF Over, One
    <3>5. Fits(r, v) /\ v.user = db[r].user /\ v.spent = db[r].spent /\ v.state # "used"
      BY <2>2, <3>1, <3>2 DEF Fits
    <3> QED BY <1>3, <2>2, <3>4, <3>5, OneMildly
  <2> QED BY <1>1, <2>1, <2>2
<1>5. DoneStays /\ \A u \in Tx : ItsOwn(u) /\ pc'[u] = pc[u]
  BY <1>2 DEF DoneStays, ItsOwn
<1>6. \A x \in DOMAIN db' : Row(x)'
  BY <1>2, <1>4, <1>5, MildRows DEF AInv
<1>7. DOMAIN db' = DOMAIN db
  BY <1>4 DEF Mild
<1>8. \A u \in Tx : TxInv(u)'
  BY <1>4, <1>5, <1>7, MildIsBorne, Undisturbed DEF AInv
<1>9. Shape' /\ Exclusion' /\ (before = [t \in Tx |-> before[t]])'
  BY <1>2, PlacesOnly DEF AInv, Shape
<1> QED BY <1>4, <1>6, <1>8, <1>9 DEF AInv

-----------------------------------------------------------------------------
(* The beginning and the end of a transaction.                             *)

(* What one begins with. *)
LEMMA BeginStays ==
  ASSUME AInv, NEW t \in Tx, Begin(t)
  PROVE  AInv'
<1>1. PICK o \in MemberOps \cup SwitchOps \cup SignOps :
        op' = [op EXCEPT ![t] = o] /\ pc' = [pc EXCEPT ![t] = FirstStatement(o.kind)]
  BY DEF Begin
<1>2. /\ pc[t] = "idle" /\ before' = [before EXCEPT ![t] = {u \in Tx : pc[u] = "done"}]
      /\ UNCHANGED <<db, seen, todo, put, lock>>
  BY DEF Begin, Waiting
<1>3. FirstStatement(o.kind) \in {"org", "token", "revoke", "switch", "read"}
  BY DEF FirstStatement
<1>4. /\ op'[t] = o /\ pc'[t] = FirstStatement(o.kind) /\ before'[t] = {u \in Tx : pc[u] = "done"}
      /\ \A u \in Tx \ {t} : op'[u] = op[u] /\ pc'[u] = pc[u] /\ before'[u] = before[u]
  BY <1>1, <1>2 DEF AInv, Shape
<1>5. Shape' /\ Exclusion' /\ (before = [u \in Tx |-> before[u]])'
  <2>1. Shape' /\ Exclusion'
    BY <1>1, <1>2, <1>3, <1>4, PlacesOnly DEF AInv, Shape
  <2>2. before' = [u \in Tx |-> before'[u]]
    BY <1>2 DEF AInv
  <2> QED BY <2>1, <2>2
<1>6. {u \in Tx : pc'[u] = "done"} = {u \in Tx : pc[u] = "done"}
  BY <1>2, <1>3, <1>4
<1>7. \A r \in DOMAIN db : Row(r)'
  <2>1. ASSUME NEW r \in DOMAIN db
        PROVE  Row(r)'
    <3>0. Row(r)
      BY DEF AInv
    <3>1. CASE r[1] = "user"
      BY <1>2, <1>6, <3>0, <3>1 DEF Row
    <3>2. CASE r[1] = "session"
      <4> DEFINE a == Account(db[r].user)
      <4>1. a \in DOMAIN db /\ a[1] = "user" /\ Row(a)
        BY <3>2, RowsFit, AccountRow DEF AInv
      <4>2. \A c \in {db[a].password, db[a].off} : c \in Tx => before'[c] = before[c]
        BY <1>2, <1>4, <4>1, NewIsNew DEF Row
      <4> QED BY <1>2, <3>0, <3>2, <4>2 DEF Row, Outlives
    <3>3. CASE r[1] = "token"
      BY <1>2, <3>0, <3>3 DEF Row
    <3> QED BY <3>1, <3>2, <3>3 DEF Row
  <2> QED BY <2>1
<1>8. ASSUME NEW u \in Tx, u # t
      PROVE  TxInv(u)'
  <2>1. Mild /\ DoneStays /\ ItsOwn(u) /\ pc'[u] = pc[u]
    BY <1>2, <1>4, <1>6, <1>8 DEF Mild, DoneStays, ItsOwn
  <2> QED BY <1>2, <2>1, MildIsBorne, Undisturbed DEF AInv
<1>9. TxInv(t)'
  <2>1. DOMAIN put'[t] = {}
    BY <1>2 DEF AInv, Shape, Running
  <2>2. /\ o.kind \in PersonKinds => Account(o.user) \in DOMAIN db
        /\ o.kind = "reset" => o.token \in Table(db, "token") /\ db[o.token].user = o.user
        /\ o.kind = "logout" => o.session \in Table(db, "session")
    <3>1. CASE o \in MemberOps
      BY <3>1 DEF MemberOps, PersonKinds
    <3>2. CASE o \in SwitchOps
      BY <3>2 DEF SwitchOps, People, Exists
    <3>3. CASE o \in SignOps
      <4> DEFINE Logins == UNION {[kind : {"login"}, user : {u}, password : Given(u)] : u \in People}
                 Changes == UNION {[kind : {"changing"}, user : {db[r].user}, password : Given(db[r].user)] : r \in ValidSessions}
                 Requests == [kind : {"request"}, user : People]
                 Resets == {[kind |-> "reset", user |-> db[r].user, token |-> r] : r \in Table(db, "token")}
                 Logouts == {[kind |-> "logout", user |-> db[r].user, session |-> r] : r \in Table(db, "session")}
      <4>1. CASE o \in Logins
        BY <4>1 DEF People, Exists
      <4>2. CASE o \in Changes
        BY <4>2 DEF ValidSessions, IsActive, Exists
      <4>3. CASE o \in Requests
        BY <4>3 DEF People, Exists
      <4>4. CASE o \in Resets
        <5>1. PICK r \in Table(db, "token") : o = [kind |-> "reset", user |-> db[r].user, token |-> r]
          BY <4>4
        <5>2. r \in DOMAIN db /\ r[1] = "token" /\ Typed(db)
          BY <5>1 DEF AInv, Table
        <5>3. Account(db[r].user) \in DOMAIN db
          BY <5>2, RowsFit
        <5> QED BY <5>1, <5>2, <5>3
      <4>5. CASE o \in Logouts
        <5>1. PICK r \in Table(db, "session") : o = [kind |-> "logout", user |-> db[r].user, session |-> r]
          BY <4>5
        <5>2. r \in DOMAIN db /\ r[1] = "session" /\ Typed(db)
          BY <5>1 DEF AInv, Table
        <5>3. Account(db[r].user) \in DOMAIN db
          BY <5>2, RowsFit
        <5> QED BY <5>1, <5>2, <5>3
      <4>6. o \in Logins \/ o \in Changes \/ o \in Requests \/ o \in Resets \/ o \in Logouts
        BY <3>3 DEF SignOps
      <4> QED BY <4>1, <4>2, <4>3, <4>4, <4>5, <4>6
    <3> QED BY <3>1, <3>2, <3>3
  <2>3. seen[t] = "none"
    BY <1>2 DEF AInv, TxInv, About
  <2>4. About(t)'
    BY <1>2, <1>3, <1>4, <2>2, <2>3 DEF About, Target
  <2>5. Writes(t)'
    BY <2>1 DEF Writes
  <2>6. Sweeps(t)'
    BY <1>3, <1>4, <2>1 DEF Sweeps, Ending
  <2>7. Fresh(t)'
    BY <1>2, <1>3, <1>4, <1>6 DEF AInv, TxInv, Fresh, New
  <2> QED BY <2>4, <2>5, <2>6, <2>7 DEF TxInv
<1>10. Typed(db)'
  BY <1>2 DEF AInv
<1> QED BY <1>2, <1>5, <1>7, <1>8, <1>9, <1>10 DEF AInv

(* What the end of a transaction leaves, if the database and the others    *)
(* bear what it does.                                                      *)
LEMMA EndStays ==
  ASSUME AInv, NEW t \in Tx, Running(t), End(t), before' = before,
         Typed(db)', \A r \in DOMAIN db' : Row(r)',
         \A u \in Tx : u # t => Evolves(u),
         \A u \in Tx : u # t /\ <<"session", New(u)>> \in DOMAIN db' => <<"session", New(u)>> \in DOMAIN db
  PROVE  AInv'
<1>1. /\ pc'[t] = "done" /\ op'[t].kind = "none" /\ DOMAIN put'[t] = {}
      /\ \A u \in Tx \ {t} : pc'[u] = pc[u] /\ op'[u] = op[u] /\ seen'[u] = seen[u] /\ todo'[u] = todo[u]
                             /\ put'[u] = put[u] /\ lock'[u] = lock[u]
  BY DEF AInv, Shape, End
<1>2. Shape' /\ Exclusion'
  BY EndExcludes DEF AInv
<1>3. DoneStays
  BY <1>1 DEF DoneStays
<1>4. TxInv(t)'
  <2>1. About(t)' /\ Writes(t)' /\ Sweeps(t)'
    BY <1>1 DEF About, Writes, Sweeps, Ending, PersonKinds
  <2>2. Fresh(t)'
    BY <1>1, <1>3 DEF AInv, TxInv, Fresh, DoneStays
  <2> QED BY <2>1, <2>2 DEF TxInv
<1>5. ASSUME NEW u \in Tx, u # t
      PROVE  TxInv(u)'
  <2>1. ItsOwn(u) /\ pc'[u] = pc[u] /\ Evolves(u) /\ TxInv(u)
    BY <1>1, <1>5 DEF ItsOwn, AInv
  <2> QED BY <1>3, <1>5, <2>1, Undisturbed
<1> QED BY <1>2, <1>4, <1>5 DEF AInv

(* A rollback. *)
LEMMA FailStays ==
  ASSUME AInv, NEW t \in Tx, Fail(t), before' = before
  PROVE  AInv'
<1>1. Running(t) /\ End(t) /\ db' = db
  BY DEF Fail
<1>2. Mild /\ DoneStays
  BY <1>1 DEF Mild, DoneStays, End, AInv, Shape
<1>3. \A r \in DOMAIN db' : Row(r)'
  BY <1>2, MildRows DEF AInv
<1>4. Typed(db)'
  BY <1>1 DEF AInv
<1> QED BY <1>1, <1>2, <1>3, <1>4, MildIsBorne, EndStays

(* Rows of the schema. *)
LEMMA CommitTyped ==
  ASSUME AInv, NEW t \in Tx, Commit(t)
  PROVE  Typed(db)'
<1>1. ASSUME NEW r \in DOMAIN db'
      PROVE  Fits(r, db'[r]) /\ (r[1] \in {"session", "token"} => Account(db'[r].user) \in DOMAIN db')
  <2>1. CASE r \in DOMAIN put[t]
    <3>1. db'[r] = put[t][r] /\ DOMAIN db \subseteq DOMAIN db'
      BY <2>1, RowsAfterCommit
    <3>2. Fits(r, put[t][r]) /\ Own(t, r, put[t][r], lock[t])
      BY <2>1 DEF AInv, TxInv, Writes
    <3>3. r \in DOMAIN db /\ r[1] \in {"session", "token"} => Account(db[r].user) \in DOMAIN db
      BY RowsFit DEF AInv
    <3> QED BY <3>1, <3>2, <3>3 DEF Own
  <2>2. CASE r \notin DOMAIN put[t]
    <3>1. r \in DOMAIN db /\ db'[r] = db[r] /\ DOMAIN db \subseteq DOMAIN db'
      BY <1>1, <2>2, RowsAfterCommit
    <3>2. Fits(r, db[r]) /\ (r[1] \in {"session", "token"} => Account(db[r].user) \in DOMAIN db)
      BY <3>1, RowsFit DEF AInv
    <3> QED BY <3>1, <3>2
  <2> QED BY <2>1, <2>2
<1> QED BY <1>1, RowsAfterCommit DEF Typed

(* The other transactions bear it. *)
LEMMA CommitBorne ==
  ASSUME AInv, NEW t \in Tx, Commit(t), NEW u \in Tx, u # t
  PROVE  Evolves(u)
<1>1. \A r \in DOMAIN put[t] : Own(t, r, put[t][r], lock[t])
  BY DEF AInv, TxInv, Writes
<1>2. \A r : Has(lock[t], r) => ~Has(lock[u], r)
  BY OneHasIt DEF AInv
<1>3. t # 0 /\ New(u) # New(t)
  BY NewIsNew
<1>4. ASSUME NEW r \in DOMAIN db
      PROVE  Bears(u, r)
  <2>1. CASE r \in DOMAIN put[t]
    <3>1. db'[r] = put[t][r] /\ Own(t, r, put[t][r], lock[t])
      BY <1>1, <2>1, RowsAfterCommit
    <3> QED BY <1>2, <1>3, <3>1 DEF Own, Bears
  <2>2. CASE r \notin DOMAIN put[t]
    BY <2>2, RowsAfterCommit DEF Bears
  <2> QED BY <2>1, <2>2
<1>5. ASSUME NEW r \in DOMAIN db', r \notin DOMAIN db
      PROVE  BearsNew(u, r)
  <2>1. r \in DOMAIN put[t]
    BY <1>5, RowsAfterCommit
  <2>2. Own(t, r, put[t][r], lock[t])
    BY <1>1, <2>1
  <2> QED BY <1>2, <1>3, <1>5, <2>2 DEF Own, BearsNew
<1>6. DOMAIN db \subseteq DOMAIN db'
  BY RowsAfterCommit
<1> QED BY <1>4, <1>5, <1>6 DEF Evolves

(* And so does the database: what a transaction ended, it ended all of.    *)
LEMMA CommitRowsStay ==
  ASSUME AInv, NEW t \in Tx, Commit(t), before' = before, NEW r \in DOMAIN db'
  PROVE  Row(r)'
<1>1. pc[t] = "commit" /\ pc'[t] = "done" /\ \A u \in Tx : pc[u] = "done" => pc'[u] = "done"
  BY DEF Commit, End, AInv, Shape
<1>2. \A x \in DOMAIN put[t] : Own(t, x, put[t][x], lock[t])
  BY DEF AInv, TxInv, Writes
<1>3. CASE r[1] = "user"
  <2>1. r \in DOMAIN db => Row(r)
    BY DEF AInv
  <2>2. \A c \in {db'[r].password, db'[r].off} :
          c \in {0, t} \/ (r \in DOMAIN db /\ c \in {db[r].password, db[r].off})
    <3>1. CASE r \in DOMAIN put[t]
      <4>1. db'[r] = put[t][r] /\ Own(t, r, put[t][r], lock[t])
        BY <1>2, <3>1, RowsAfterCommit
      <4> QED BY <1>3, <4>1 DEF Own
    <3>2. CASE r \notin DOMAIN put[t]
      BY <3>2, RowsAfterCommit
    <3> QED BY <3>1, <3>2
  <2> QED BY <1>1, <1>3, <2>1, <2>2 DEF Row
<1>4. CASE r[1] = "session"
  <2> DEFINE s == db'[r]
             a == Account(s.user)
  <2>1. SUFFICES ASSUME ~s.revoked
                 PROVE  /\ s.proof # db'[a].password => Outlives(s, db'[a].password)
                        /\ db'[a].off # 0 => Outlives(s, db'[a].off)
    BY <1>4 DEF Row, Outlives
  <2>2. r \notin DOMAIN put[t]
    <3>1. ASSUME r \in DOMAIN put[t]
          PROVE  FALSE
      <4>1. db'[r] = put[t][r] /\ put[t][r].revoked
        BY <1>2, <1>4, <3>1, RowsAfterCommit DEF Own
      <4> QED BY <2>1, <4>1
    <3> QED BY <3>1
  <2>3. r \in DOMAIN db /\ s = db[r] /\ Row(r) /\ r \in Table(db, "session")
    BY <1>4, <2>2, RowsAfterCommit DEF AInv, Table
  <2>4. a \in DOMAIN db /\ a[1] = "user"
    BY <1>4, <2>3, RowsFit, AccountRow DEF AInv
  <2>5. /\ s.proof # db[a].password => Outlives(s, db[a].password)
        /\ db[a].off # 0 => Outlives(s, db[a].off)
    BY <1>4, <2>1, <2>3 DEF Row
  <2>6. CASE a \notin DOMAIN put[t]
    <3>1. db'[a] = db[a]
      BY <2>4, <2>6, RowsAfterCommit
    <3> QED BY <2>5, <3>1
  <2>7. CASE a \in DOMAIN put[t]
    <3>1. db'[a] = put[t][a] /\ Own(t, a, put[t][a], lock[t]) /\ a = Target(t)
      BY <1>2, <2>4, <2>7, RowsAfterCommit DEF Own
    <3>2. s.user = op[t].user
      BY <3>1, AccountRow DEF Target
    <3>3. ASSUME op[t].kind \in {"off", "changing", "reset"}
          PROVE  Outlives(s, t)
      <4>1. Ending(t) /\ todo[t] = {}
        BY <1>1, <3>3 DEF Ending, AInv, TxInv, Sweeps
      <4>2. s.by \notin before[t] \cup {0}
        BY <2>1, <2>2, <2>3, <3>2, <4>1 DEF AInv, TxInv, Sweeps
      <4> QED BY <4>2 DEF Outlives
    <3> HIDE DEF s, a
    <3>4. db'[a].password = db[a].password \/ (op[t].kind \in {"changing", "reset"} /\ db'[a].password = t)
      BY <2>4, <3>1 DEF Own
    <3>5. db'[a].off = db[a].off \/ (op[t].kind = "off" /\ db'[a].off = t)
      BY <2>4, <3>1 DEF Own
    <3> QED BY <2>5, <3>3, <3>4, <3>5
  <2> QED BY <2>6, <2>7
<1>5. CASE r[1] = "token"
  <2>1. r \in DOMAIN db => Row(r)
    BY DEF AInv
  <2>2. CASE r \notin DOMAIN put[t]
    <3>1. r \in DOMAIN db /\ db'[r] = db[r]
      BY <2>2, RowsAfterCommit
    <3> QED BY <1>5, <2>1, <3>1 DEF Row
  <2>3. CASE r \in DOMAIN put[t] /\ r \notin DOMAIN db
    <3>1. db'[r] = put[t][r] /\ put[t][r].spent = {}
      BY <1>2, <1>5, <2>3, RowsAfterCommit DEF Own
    <3> QED BY <1>5, <3>1 DEF Row
  <2>4. CASE r \in DOMAIN put[t] /\ r \in DOMAIN db
    <3>1. /\ db'[r] = put[t][r] /\ put[t][r].state = "used"
          /\ \/ put[t][r].spent = db[r].spent
             \/ op[t].kind = "reset" /\ r = op[t].token /\ put[t][r].spent = db[r].spent \cup {t}
      <4>1. put[t][r].state = "used"
        BY <1>1, <1>5, <2>4 DEF AInv, TxInv, Sweeps
      <4> QED BY <1>2, <1>5, <2>4, <4>1, RowsAfterCommit DEF Own
    <3>2. CASE put[t][r].spent = db[r].spent
      BY <1>5, <2>1, <2>4, <3>1, <3>2 DEF Row
    <3>3. CASE op[t].kind = "reset" /\ r = op[t].token /\ put[t][r].spent = db[r].spent \cup {t}
      <4>1. db[r].state # "used"
        BY <1>1, <3>3 DEF AInv, TxInv, Sweeps
      <4>2. db[r].spent = {}
        BY <1>5, <2>1, <2>4, <4>1 DEF Row
      <4>3. put[t][r].spent = {t}
        BY <3>3, <4>2
      <4> QED BY <1>5, <3>1, <4>3 DEF Row
    <3> QED BY <3>1, <3>2, <3>3
  <2> QED BY <2>2, <2>3, <2>4
<1> QED BY <1>3, <1>4, <1>5 DEF Row

(* A commit. *)
LEMMA CommitStays ==
  ASSUME AInv, NEW t \in Tx, Commit(t), before' = before
  PROVE  AInv'
<1>1. Running(t) /\ End(t)
  BY DEF Commit, Running
<1>2. Typed(db)' /\ (\A r \in DOMAIN db' : Row(r)') /\ \A u \in Tx : u # t => Evolves(u)
  BY CommitTyped, CommitRowsStay, CommitBorne
<1>3. \A u \in Tx : <<"session", New(u)>> \in DOMAIN db' => <<"session", New(u)>> \in DOMAIN db
  <2>1. \A r \in DOMAIN put[t] : r[1] = "session" => r \in DOMAIN db
    BY DEF AInv, TxInv, Writes, Own
  <2> QED BY <2>1, RowsAfterCommit
<1> QED BY <1>1, <1>2, <1>3, EndStays

-----------------------------------------------------------------------------
(* The invariant, and what it is for.                                      *)

(* It holds in the beginning. *)
LEMMA InitAInv == Init => AInv
<1> SUFFICES ASSUME Init
             PROVE  AInv
  OBVIOUS
<1>1. PICK past \in Pasts : Begun({past.db}, 0)
  BY DEF Init, Idle
<1>2. /\ db = past.db /\ before = [t \in Tx |-> {}]
      /\ \A t \in Tx : op[t] = [kind |-> "none"] /\ seen[t] = "none" /\ todo[t] = {} /\ put[t] = <<>> /\ lock[t] = {}
  BY <1>1 DEF Init, Begun
<1>3. \A t \in Tx : pc[t] = "idle"
  <2>1. \A t \in Tx : ~(t <= 0)
    BY AccountsAssumption DEF Tx
  <2> QED BY <1>1, <2>1 DEF Begun
<1>4. Shape /\ Exclusion
  BY <1>1, BegunExcludes
<1>5. Typed(db) /\ \A r \in DOMAIN db : Begins(r, db[r])
  BY <1>2, AccountsAssumption
<1>6. ASSUME NEW r \in DOMAIN db
      PROVE  Row(r)
  <2>1. CASE r[1] = "user"
    BY <1>5, <2>1 DEF Begins, Row
  <2>2. CASE r[1] = "session"
    <3>1. Account(db[r].user) \in DOMAIN db /\ Account(db[r].user)[1] = "user"
      BY <1>5, <2>2, RowsFit, AccountRow
    <3>2. db[r].proof = 0 /\ db[Account(db[r].user)].password = 0 /\ db[Account(db[r].user)].off = 0
      BY <1>5, <2>2, <3>1 DEF Begins
    <3> QED BY <2>2, <3>2 DEF Row
  <2>3. CASE r[1] = "token"
    BY <1>5, <2>3 DEF Begins, Row
  <2> QED BY <2>1, <2>2, <2>3 DEF Row
<1>7. ASSUME NEW t \in Tx
      PROVE  TxInv(t)
  <2>1. About(t) /\ Writes(t) /\ Sweeps(t)
    BY <1>2, <1>3 DEF About, Writes, Sweeps, Ending, PersonKinds
  <2>2. <<"token", New(t)>> \notin DOMAIN db /\ <<"session", New(t)>> \notin DOMAIN db
    <3>1. New(t) \in Nat /\ New(t) > Past /\ Past \in Nat
      BY NewIsNew DEF Past
    <3>2. ASSUME NEW name \in {"token", "session"}, <<name, New(t)>> \in DOMAIN db
          PROVE  FALSE
      <4>1. Begins(<<name, New(t)>>, db[<<name, New(t)>>])
        BY <1>5, <3>2
      <4>2. New(t) <= Past
        BY <3>2, <4>1 DEF Begins
      <4> QED BY <3>1, <4>2
    <3> QED BY <3>2
  <2>3. Fresh(t)
    BY <1>2, <2>2 DEF Fresh
  <2> QED BY <2>1, <2>3 DEF TxInv
<1> QED BY <1>2, <1>4, <1>5, <1>6, <1>7 DEF AInv

(* It holds after every step. *)
LEMMA NextAInv == AInv /\ [Next]_accountVars => AInv'
<1> SUFFICES ASSUME AInv, [Next]_accountVars
             PROVE  AInv'
  OBVIOUS
<1>1. CASE UNCHANGED accountVars
  <2>1. Mild /\ DoneStays /\ \A u \in Tx : ItsOwn(u) /\ pc'[u] = pc[u]
    BY <1>1 DEF accountVars, vars, Mild, DoneStays, ItsOwn
  <2>2. UNCHANGED <<db, op, pc, seen, todo, put, lock, before>>
    BY <1>1 DEF accountVars, vars
  <2>3. Typed(db)' /\ (\A r \in DOMAIN db' : Row(r)') /\ \A u \in Tx : TxInv(u)'
    BY <2>1, <2>2, MildRows, MildIsBorne, Undisturbed DEF AInv
  <2>4. Shape' /\ Exclusion' /\ (before = [t \in Tx |-> before[t]])'
    BY <2>2, PlacesOnly DEF AInv, Shape
  <2> QED BY <2>3, <2>4 DEF AInv
<1>2. CASE TimePasses
  BY <1>2, TimeStays
<1>3. ASSUME NEW t \in Tx, Begin(t)
      PROVE  AInv'
  BY <1>3, BeginStays
<1>4. ASSUME NEW t \in Tx, Finish(t)
      PROVE  AInv'
  BY <1>4, FailStays, CommitStays DEF Finish
<1>5. ASSUME NEW t \in Tx, Step(t), Committing(t)
      PROVE  AInv'
  BY <1>5, OutcomeStays, LogoutStays, SessionStays DEF Committing
<1>6. ASSUME NEW t \in Tx, Step(t), ~Committing(t)
      PROVE  AInv'
  <2>1. Statement(t, Wants(t)) /\ UNCHANGED before
    BY <1>6, StepIsStatement DEF AInv
  <2>2. Shape' /\ Exclusion'
    BY <2>1, WantsAreLocks, StatementExcludes DEF AInv
  <2>3. Typed(db)' /\ \A r \in DOMAIN db' : Row(r)'
    BY <2>1, RowsStay DEF AInv
  <2>4. TxInv(t)'
    BY <1>6, <2>1, StepKeeps DEF AInv
  <2>5. \A u \in Tx : u # t => TxInv(u)'
    BY <2>1, OthersStay DEF AInv
  <2> QED BY <2>1, <2>2, <2>3, <2>4, <2>5 DEF AInv
<1> QED BY <1>1, <1>2, <1>3, <1>4, <1>5, <1>6 DEF Next

(* What each of any number of overlapping transactions has found, locked   *)
(* and written at each of its statements, and what it leaves.              *)
THEOREM SecretsHold == Spec => []AInv
<1>1. Init => AInv
  BY InitAInv
<1>2. AInv /\ [Next]_accountVars => AInv'
  BY NextAInv
<1> QED BY <1>1, <1>2, PTL DEF Spec

(* A changed or reset password, and an account switched off, end every     *)
(* session there was, but of a sign-in that had not ended when the change  *)
(* began; a token resets one password once, and none outlives a reset.     *)
THEOREM OldSecretsEndAlways == Spec => []OldSecretsEnd
<1>1. ASSUME AInv
      PROVE  OldSecretsEnd
  <2>1. SessionsEnd
    <3>1. ASSUME NEW r \in Table(db, "session"), ~db[r].revoked
          PROVE  LET s == db[r]
                     account == db[Account(s.user)]
                     Survives(c) == s.by # 0 /\ s.by \notin before[c]
                 IN /\ s.proof # account.password => Survives(account.password)
                    /\ account.off # 0 => Survives(account.off)
      <4>1. Row(r) /\ r[1] = "session"
        BY <1>1 DEF AInv, Table
      <4> QED BY <3>1, <4>1 DEF Row, Outlives
    <3> QED BY <3>1 DEF SessionsEnd
  <2>2. ResetOnce
    <3>1. ASSUME NEW r \in Table(db, "token")
          PROVE  Cardinality(db[r].spent) <= 1 /\ (db[r].spent # {} => db[r].state = "used")
      <4>1. Row(r) /\ r[1] = "token"
        BY <1>1 DEF AInv, Table
      <4>2. CASE db[r].spent = {}
        <5>1. Cardinality(db[r].spent) = 0
          BY <4>2, FS_EmptySet
        <5> QED BY <4>2, <5>1
      <4>3. CASE db[r].state = "used" /\ \E t \in Tx : db[r].spent = {t}
        <5>1. Cardinality(db[r].spent) = 1
          BY <4>3, FS_Singleton
        <5> QED BY <4>3, <5>1
      <4> QED BY <4>1, <4>2, <4>3 DEF Row
    <3> QED BY <3>1 DEF ResetOnce
  <2> QED BY <2>1, <2>2 DEF OldSecretsEnd
<1> QED BY <1>1, SecretsHold, PTL

-----------------------------------------------------------------------------
(* The second layer of the invariant.                                      *)

Others(d, o, u) == \E w \in ActiveOwners(d, o) : w # u

(* Who changes a member has the organization's row from its first          *)
(* statement on; so the actor is still what it was then, unless it was     *)
(* switched off unseen, and whoever loses ownership is not the last.       *)
MemberInv(t) ==
  LET o == op[t].org IN
  op[t].kind \in MemberKinds =>
    /\ Org(o) \in DOMAIN db /\ (op[t].kind # "first" => op[t].actor \in User)
    /\ pc[t] # "org" =>
         /\ <<Org(o), Update>> \in lock[t] /\ db[Org(o)] # "cancelled"
         /\ op[t].kind # "first" /\ seen[t] = "owner" =>
              /\ RoleOf(db, o, op[t].actor) = "owner"
              /\ op[t].actor \in ActiveOwners(db, o) \/ Org(o) \in unseen
         /\ op[t].kind = "add" \/ (op[t].kind = "role" /\ pc[t] \in {"change", "commit"}) =>
              (op[t].role = "owner" => seen[t] = "owner")
         /\ op[t].kind \in {"add", "first"} /\ pc[t] = "commit" => RoleOf(db, o, op[t].user) = "none"
         /\ op[t].kind \in {"role", "remove"} /\ pc[t] \in {"change", "commit"} =>
              RoleOf(db, o, op[t].user) # "owner" \/ Org(o) \in unseen \/ Others(db, o, op[t].user)

(* Who switches an account off has the rows of all organizations it had    *)
(* seen, and once it has looked again each has another active owner.       *)
OffInv(t) ==
  op[t].kind = "off" /\ pc[t] # "read" => \A r \in seen[t] :
    /\ r = Org(r[2]) /\ r \in DOMAIN db /\ db[r] # "cancelled"
    /\ <<r, Update>> \in lock[t] \/ (pc[t] = "orgs" /\ r \in todo[t])
    /\ pc[t] \in {"switch", "sweep", "commit"} => r \in unseen \/ Others(db, r[2], op[t].user)

(* What it writes: no organization; one membership, in its last statement; *)
(* and of accounts that are there, only switching changes whether they are *)
(* active.                                                                 *)
PutInv(t) ==
  \A r \in DOMAIN put[t] :
    /\ r[1] # "org"
    /\ r[1] = "member" =>
         /\ op[t].kind \in MemberKinds /\ pc[t] = "commit" /\ r = Member(op[t].org, op[t].user)
         /\ put[t][r] = IF op[t].kind = "remove" THEN "removed" ELSE op[t].role
    /\ r[1] = "user" /\ r \in DOMAIN db =>
         \/ put[t][r].active = db[r].active
         \/ op[t].kind = "off" \/ (op[t].kind = "on" /\ put[t][r].active)

OrgsNamed == \A r \in DOMAIN db : r[1] = "org" => r = Org(r[2])

BInv == AInv /\ OrgsNamed /\ \A t \in Tx : MemberInv(t) /\ OffInv(t) /\ PutInv(t)

-----------------------------------------------------------------------------
(* The questions to the database.                                          *)

(* The names of rows tell what they are of. *)
LEMMA RowNames ==
  /\ \A o : Org(o)[1] = "org" /\ Org(o)[2] = o
  /\ \A o, u : Member(o, u)[1] = "member"
  /\ \A o, u, p, w : Member(o, u) = Member(p, w) => o = p /\ u = w
  /\ \A u : Account(u)[1] = "user" /\ Account(u)[2] = u
BY DEF Org, Member, Account

(* What of the database the invariant is about. *)
Roles(o) == \A w : RoleOf(db', o, w) = RoleOf(db, o, w)
Grows ==
  /\ DOMAIN db \subseteq DOMAIN db' /\ unseen \subseteq unseen'
  /\ \A r \in DOMAIN db' : r[1] = "org" => r \in DOMAIN db /\ db'[r] = db[r]
Kept(o) == Roles(o) /\ \A w \in ActiveOwners(db, o) : w \in ActiveOwners(db', o) \/ Org(o) \in unseen'
Stays(u) ==
  /\ op'[u] = op[u] /\ pc'[u] = pc[u] /\ seen'[u] = seen[u] /\ todo'[u] = todo[u]
  /\ put'[u] = put[u] /\ lock'[u] = lock[u]

(* An organization whose owners are kept keeps the other owners, too.      *)
LEMMA OthersKept ==
  ASSUME NEW o, NEW u, Grows, Kept(o), Org(o) \in unseen \/ Others(db, o, u)
  PROVE  Org(o) \in unseen' \/ Others(db', o, u)
BY DEF Grows, Kept, Others

(* While what it has locked is kept, so is what a transaction knows.       *)
LEMMA MemberKept ==
  ASSUME NEW u \in Tx, MemberInv(u), Grows, Stays(u),
         op[u].kind \in MemberKinds /\ pc[u] # "org" => Kept(op[u].org)
  PROVE  MemberInv(u)'
<1> SUFFICES ASSUME op[u].kind \in MemberKinds
             PROVE  MemberInv(u)'
  BY DEF MemberInv, Stays
<1> DEFINE o == op[u].org
<1>1. op'[u] = op[u] /\ pc'[u] = pc[u] /\ seen'[u] = seen[u] /\ lock'[u] = lock[u] /\ unseen \subseteq unseen'
  BY DEF Stays, Grows
<1>2. /\ Org(o) \in DOMAIN db /\ Org(o) \in DOMAIN db' /\ db'[Org(o)] = db[Org(o)]
      /\ op[u].kind # "first" => op[u].actor \in User
  BY RowNames DEF MemberInv, Grows
<1>3. CASE pc[u] = "org"
  BY <1>1, <1>2, <1>3 DEF MemberInv
<1>4. CASE pc[u] # "org"
  <2>1. Kept(o) /\ Roles(o)
    BY <1>4 DEF Kept
  <2>2. <<Org(o), Update>> \in lock'[u] /\ db'[Org(o)] # "cancelled"
    BY <1>1, <1>2, <1>4 DEF MemberInv
  <2>3. op[u].kind # "first" /\ seen[u] = "owner" =>
          /\ RoleOf(db', o, op[u].actor) = "owner"
          /\ op[u].actor \in ActiveOwners(db', o) \/ Org(o) \in unseen'
    BY <1>1, <1>4, <2>1 DEF MemberInv, Kept, Roles
  <2>4. op[u].kind \in {"add", "first"} /\ pc[u] = "commit" => RoleOf(db', o, op[u].user) = "none"
    BY <1>4, <2>1 DEF MemberInv, Roles
  <2>5. op[u].kind \in {"role", "remove"} /\ pc[u] \in {"change", "commit"} =>
          RoleOf(db', o, op[u].user) # "owner" \/ Org(o) \in unseen' \/ Others(db', o, op[u].user)
    <3> SUFFICES ASSUME op[u].kind \in {"role", "remove"}, pc[u] \in {"change", "commit"},
                        RoleOf(db', o, op[u].user) = "owner"
                 PROVE  Org(o) \in unseen' \/ Others(db', o, op[u].user)
      OBVIOUS
    <3>1. Org(o) \in unseen \/ Others(db, o, op[u].user)
      BY <1>4, <2>1 DEF MemberInv, Roles
    <3> HIDE DEF o
    <3> QED BY <2>1, <3>1, OthersKept
  <2>6. op[u].kind = "add" \/ (op[u].kind = "role" /\ pc[u] \in {"change", "commit"}) =>
          (op[u].role = "owner" => seen[u] = "owner")
    BY <1>4 DEF MemberInv
  <2> HIDE DEF o
  <2> QED BY <1>1, <1>2, <2>2, <2>3, <2>4, <2>5, <2>6 DEF MemberInv, o
<1> QED BY <1>3, <1>4

(* So is what one that switches an account off knows. *)
LEMMA OffKept ==
  ASSUME NEW u \in Tx, OffInv(u), Grows, Stays(u),
         \A o : op[u].kind = "off" /\ <<Org(o), Update>> \in lock[u]
                /\ Org(o) \in DOMAIN db /\ db[Org(o)] # "cancelled" => Kept(o)
  PROVE  OffInv(u)'
<1> SUFFICES ASSUME op[u].kind = "off", pc[u] # "read", NEW r \in seen[u]
             PROVE  /\ r = Org(r[2]) /\ r \in DOMAIN db' /\ db'[r] # "cancelled"
                    /\ <<r, Update>> \in lock'[u] \/ (pc'[u] = "orgs" /\ r \in todo'[u])
                    /\ pc'[u] \in {"switch", "sweep", "commit"} => r \in unseen' \/ Others(db', r[2], op[u].user)
  <2>1. op'[u] = op[u] /\ pc'[u] = pc[u] /\ seen'[u] = seen[u]
    BY DEF Stays
  <2> QED BY <2>1 DEF OffInv
<1>1. /\ r = Org(r[2]) /\ r \in DOMAIN db /\ db[r] # "cancelled"
      /\ <<r, Update>> \in lock[u] \/ (pc[u] = "orgs" /\ r \in todo[u])
      /\ pc[u] \in {"switch", "sweep", "commit"} => r \in unseen \/ Others(db, r[2], op[u].user)
  BY DEF OffInv
<1>2. pc'[u] = pc[u] /\ todo'[u] = todo[u] /\ lock'[u] = lock[u]
  BY DEF Stays
<1>3. r[1] = "org" /\ r \in DOMAIN db' /\ db'[r] = db[r]
  BY <1>1, RowNames DEF Grows
<1>4. pc[u] \in {"switch", "sweep", "commit"} => r \in unseen' \/ Others(db', r[2], op[u].user)
  <2> SUFFICES ASSUME pc[u] \in {"switch", "sweep", "commit"}
               PROVE  r \in unseen' \/ Others(db', r[2], op[u].user)
    OBVIOUS
  <2>1. Kept(r[2])
    BY <1>1
  <2> QED BY <1>1, <2>1, OthersKept
<1> QED BY <1>1, <1>2, <1>3, <1>4

(* And what it has written, while nobody else writes the same account.     *)
LEMMA PutKept ==
  ASSUME NEW u \in Tx, PutInv(u), Stays(u),
         \A r \in DOMAIN put[u] : r[1] = "user" /\ r \in DOMAIN db' => r \in DOMAIN db /\ db'[r].active = db[r].active
  PROVE  PutInv(u)'
BY DEF PutInv, Stays

-----------------------------------------------------------------------------
(* Changes that are about neither owners nor accounts.                     *)
Calmly ==
  /\ unseen' = unseen /\ DOMAIN db \subseteq DOMAIN db'
  /\ \A r \in DOMAIN db' : r[1] \in {"org", "member"} => r \in DOMAIN db /\ db'[r] = db[r]
  /\ \A r \in DOMAIN db' : r[1] = "user" => r \in DOMAIN db /\ db'[r].active = db[r].active

(* They keep every owner. *)
LEMMA CalmKeeps ==
  ASSUME Calmly
  PROVE  Grows /\ \A o : Kept(o) /\ ActiveOwners(db', o) = ActiveOwners(db, o)
<1>1. ASSUME NEW o, NEW w
      PROVE  RoleOf(db', o, w) = RoleOf(db, o, w)
  <2>1. Member(o, w)[1] = "member"
    BY RowNames
  <2>2. Member(o, w) \in DOMAIN db' => Member(o, w) \in DOMAIN db /\ db'[Member(o, w)] = db[Member(o, w)]
    BY <2>1 DEF Calmly
  <2>3. Member(o, w) \in DOMAIN db => Member(o, w) \in DOMAIN db'
    BY DEF Calmly
  <2> QED BY <2>2, <2>3 DEF RoleOf
<1>2. ASSUME NEW w
      PROVE  IsActive(db', w) <=> IsActive(db, w)
  <2>1. Account(w)[1] = "user"
    BY RowNames
  <2>2. Account(w) \in DOMAIN db' => Account(w) \in DOMAIN db /\ db'[Account(w)].active = db[Account(w)].active
    BY <2>1 DEF Calmly
  <2>3. Account(w) \in DOMAIN db => Account(w) \in DOMAIN db'
    BY DEF Calmly
  <2> QED BY <2>2, <2>3 DEF IsActive, Exists
<1>3. \A o : ActiveOwners(db', o) = ActiveOwners(db, o)
  BY <1>1, <1>2 DEF ActiveOwners
<1> QED BY <1>1, <1>3 DEF Calmly, Grows, Kept, Roles

(* So they keep all that is known. *)
LEMMA CalmStays ==
  ASSUME Calmly, NEW u \in Tx, Stays(u), MemberInv(u), OffInv(u), PutInv(u)
  PROVE  MemberInv(u)' /\ OffInv(u)' /\ PutInv(u)'
<1>1. Grows /\ \A o : Kept(o)
  BY CalmKeeps
<1>2. MemberInv(u)'
  BY <1>1, MemberKept
<1>3. OffInv(u)'
  BY <1>1, OffKept
<1>4. PutInv(u)'
  BY PutKept DEF Calmly
<1> QED BY <1>2, <1>3, <1>4

(* And the names of the organizations' rows. *)
LEMMA GrowsNamed ==
  ASSUME Grows, OrgsNamed
  PROVE  OrgsNamed'
BY DEF Grows, OrgsNamed

-----------------------------------------------------------------------------
(* What a commit makes of owners.                                          *)
Commits(t) ==
  Commit(t) /\ unseen' = unseen \cup IF op[t].kind = "off" THEN Owned(db, op[t].user) \ seen[t] ELSE {}

(* Organizations stay, and what is unseen. *)
LEMMA CommitGrows ==
  ASSUME NEW t \in Tx, PutInv(t), Commits(t)
  PROVE  Grows
<1>1. /\ DOMAIN db' = DOMAIN put[t] \cup DOMAIN db
      /\ \A r \in DOMAIN db : r \notin DOMAIN put[t] => db'[r] = db[r]
  BY RowsAfterCommit DEF Commits
<1>2. \A r \in DOMAIN put[t] : r[1] # "org"
  BY DEF PutInv
<1> QED BY <1>1, <1>2 DEF Commits, Grows

(* A role changes as the transaction says. *)
LEMMA CommitRoles ==
  ASSUME NEW t \in Tx, PutInv(t), Commits(t), NEW o, NEW w, RoleOf(db', o, w) # RoleOf(db, o, w)
  PROVE  /\ op[t].kind \in MemberKinds /\ op[t].org = o /\ op[t].user = w
         /\ RoleOf(db', o, w) = "none" \/ (op[t].kind # "remove" /\ RoleOf(db', o, w) = op[t].role)
<1> DEFINE r == Member(o, w)
<1>1. /\ DOMAIN db' = DOMAIN put[t] \cup DOMAIN db
      /\ \A x \in DOMAIN put[t] : db'[x] = put[t][x]
      /\ \A x \in DOMAIN db : x \notin DOMAIN put[t] => db'[x] = db[x]
  BY RowsAfterCommit DEF Commits
<1>2. r \in DOMAIN put[t]
  BY <1>1 DEF RoleOf
<1>3. r[1] = "member"
  BY RowNames
<1>4. /\ op[t].kind \in MemberKinds /\ r = Member(op[t].org, op[t].user)
      /\ put[t][r] = IF op[t].kind = "remove" THEN "removed" ELSE op[t].role
  BY <1>2, <1>3 DEF PutInv
<1>5. op[t].org = o /\ op[t].user = w
  BY <1>4, RowNames
<1>6. db'[r] = put[t][r]
  BY <1>1, <1>2
<1> QED BY <1>4, <1>5, <1>6 DEF RoleOf

(* An account that was active is so, unless this switches it off. *)
LEMMA CommitActive ==
  ASSUME AInv, NEW t \in Tx, PutInv(t), Commits(t), NEW w, IsActive(db, w), ~IsActive(db', w)
  PROVE  op[t].kind = "off" /\ op[t].user = w
<1> DEFINE r == Account(w)
<1>1. /\ DOMAIN db' = DOMAIN put[t] \cup DOMAIN db
      /\ \A x \in DOMAIN put[t] : db'[x] = put[t][x]
      /\ \A x \in DOMAIN db : x \notin DOMAIN put[t] => db'[x] = db[x]
  BY RowsAfterCommit DEF Commits
<1>2. r \in DOMAIN db /\ db[r].active /\ r[1] = "user"
  BY RowNames DEF IsActive, Exists
<1>3. r \in DOMAIN put[t] /\ ~put[t][r].active
  BY <1>1, <1>2 DEF IsActive, Exists
<1>4. op[t].kind = "off"
  BY <1>2, <1>3 DEF PutInv
<1>5. r = Target(t)
  BY <1>2, <1>3 DEF AInv, TxInv, Writes, Own
<1> QED BY <1>4, <1>5, RowNames DEF Target

(* The owners of an organization are kept by all but the transactions that *)
(* have its row.                                                           *)
LEMMA CommitKeeps ==
  ASSUME AInv, NEW t \in Tx, PutInv(t), Commits(t), NEW o, Org(o) \in DOMAIN db, db[Org(o)] # "cancelled",
         ~(op[t].kind \in MemberKinds /\ op[t].org = o), ~(op[t].kind = "off" /\ Org(o) \in seen[t])
  PROVE  Kept(o)
<1>1. \A w : RoleOf(db', o, w) = RoleOf(db, o, w)
  BY CommitRoles
<1>2. ASSUME NEW w \in ActiveOwners(db, o), w \notin ActiveOwners(db', o)
      PROVE  Org(o) \in unseen'
  <2>1. ~IsActive(db', w) /\ IsActive(db, w)
    BY <1>1, <1>2 DEF ActiveOwners
  <2>2. op[t].kind = "off" /\ op[t].user = w
    BY <2>1, CommitActive
  <2>3. Org(o) \in Owned(db, w)
    BY <1>2, RowNames DEF Owned, Table
  <2> QED BY <2>2, <2>3 DEF Commits
<1> QED BY <1>1, <1>2 DEF Kept, Roles

(* So they are if another one has it. *)
LEMMA LockedKept ==
  ASSUME AInv, NEW t \in Tx, MemberInv(t), OffInv(t), PutInv(t), Commits(t),
         NEW u \in Tx, u # t, NEW o, <<Org(o), Update>> \in lock[u], Org(o) \in DOMAIN db, db[Org(o)] # "cancelled"
  PROVE  Kept(o)
<1>1. <<Org(o), Update>> \notin lock[t]
  <2> Update + Update > 4
    BY DEF Update
  <2> QED BY ExclusiveRow DEF AInv
<1>2. pc[t] = "commit"
  BY DEF Commits, Commit
<1>3. ~(op[t].kind \in MemberKinds /\ op[t].org = o)
  BY <1>1, <1>2 DEF MemberInv
<1>4. ~(op[t].kind = "off" /\ Org(o) \in seen[t])
  BY <1>1, <1>2 DEF OffInv
<1> QED BY <1>3, <1>4, CommitKeeps

(* What the others know survives a commit. *)
LEMMA CommitSpares ==
  ASSUME BInv, NEW t \in Tx, Commits(t), NEW u \in Tx, u # t
  PROVE  MemberInv(u)' /\ OffInv(u)' /\ PutInv(u)'
<1>1. Stays(u)
  BY DEF Stays, Commits, Commit, End, BInv, AInv, Shape
<1>2. Grows
  BY CommitGrows DEF BInv
<1>3. /\ MemberInv(t) /\ OffInv(t) /\ PutInv(t) /\ MemberInv(u) /\ OffInv(u) /\ PutInv(u)
      /\ AInv /\ Exclusion
  BY DEF BInv, AInv
<1>4. MemberInv(u)'
  <2>1. ASSUME op[u].kind \in MemberKinds /\ pc[u] # "org"
        PROVE  Kept(op[u].org)
    <3> DEFINE o == op[u].org
    <3>1. <<Org(o), Update>> \in lock[u] /\ Org(o) \in DOMAIN db /\ db[Org(o)] # "cancelled"
      BY <1>3, <2>1 DEF MemberInv
    <3> HIDE DEF o
    <3>2. Kept(o)
      BY <1>3, <3>1, LockedKept
    <3> QED BY <3>2 DEF o
  <2> QED BY <1>1, <1>2, <1>3, <2>1, MemberKept
<1>5. OffInv(u)'
  <2>1. \A o : <<Org(o), Update>> \in lock[u] /\ Org(o) \in DOMAIN db /\ db[Org(o)] # "cancelled" => Kept(o)
    BY <1>3, LockedKept
  <2> QED BY <1>1, <1>2, <1>3, <2>1, OffKept
<1>6. PutInv(u)'
  <2>1. ASSUME NEW r \in DOMAIN put[u], r[1] = "user", r \in DOMAIN db'
        PROVE  r \in DOMAIN db /\ db'[r].active = db[r].active
    <3>1. Has(lock[u], r)
      BY <1>3, <2>1 DEF AInv, TxInv, Writes, Own
    <3>2. ~Has(lock[t], r)
      BY <1>3, <3>1, OneHasIt
    <3>3. r \notin DOMAIN put[t]
      BY <1>3, <2>1, <3>2 DEF AInv, TxInv, Writes, Own
    <3> QED BY <2>1, <3>3, RowsAfterCommit DEF Commits
  <2> QED BY <1>1, <1>3, <2>1, PutKept
<1> QED BY <1>4, <1>5, <1>6

(* An organization keeps an active owner through a commit. *)
LEMMA CommitLeavesOwner ==
  ASSUME BInv, NEW t \in Tx, Commits(t), NEW o, Org(o) \in DOMAIN db, db[Org(o)] # "cancelled",
         NEW w \in ActiveOwners(db, o)
  PROVE  ActiveOwners(db', o) # {} \/ Org(o) \in unseen'
<1>1. AInv /\ MemberInv(t) /\ OffInv(t) /\ PutInv(t) /\ pc[t] = "commit" /\ unseen \subseteq unseen'
  BY DEF BInv, Commits, Commit
<1>2. CASE op[t].kind \in MemberKinds /\ op[t].org = o
  <2>1. ASSUME NEW x \in ActiveOwners(db, o), x # op[t].user
        PROVE  x \in ActiveOwners(db', o)
    <3>1. RoleOf(db', o, x) = RoleOf(db, o, x)
      BY <1>1, <2>1, CommitRoles
    <3>2. op[t].kind # "off"
      BY <1>2 DEF MemberKinds
    <3>3. IsActive(db', x)
      BY <1>1, <3>2, CommitActive DEF ActiveOwners
    <3> QED BY <3>1, <3>3 DEF ActiveOwners
  <2>2. CASE w # op[t].user
    BY <2>1, <2>2
  <2>3. CASE w = op[t].user
    <3>1. RoleOf(db, o, w) = "owner"
      BY DEF ActiveOwners
    <3>2. Org(o) \in unseen \/ Others(db, o, w)
      BY <1>1, <1>2, <2>3, <3>1 DEF MemberInv, MemberKinds
    <3> QED BY <1>1, <2>1, <2>3, <3>2 DEF Others
  <2> QED BY <2>2, <2>3
<1>3. CASE op[t].kind = "off" /\ Org(o) \in seen[t]
  <2>1. Org(o) \in unseen \/ Others(db, o, op[t].user)
    BY <1>1, <1>3, RowNames DEF OffInv
  <2>2. ASSUME NEW x \in ActiveOwners(db, o), x # op[t].user
        PROVE  x \in ActiveOwners(db', o)
    <3>1. op[t].kind \notin MemberKinds
      BY <1>3 DEF MemberKinds
    <3>2. RoleOf(db', o, x) = RoleOf(db, o, x)
      BY <1>1, <3>1, CommitRoles
    <3>3. IsActive(db', x)
      BY <1>1, <2>2, CommitActive DEF ActiveOwners
    <3> QED BY <3>2, <3>3 DEF ActiveOwners
  <2> QED BY <1>1, <2>1, <2>2 DEF Others
<1>4. CASE ~(op[t].kind \in MemberKinds /\ op[t].org = o) /\ ~(op[t].kind = "off" /\ Org(o) \in seen[t])
  BY <1>1, <1>4, CommitKeeps DEF Kept
<1> QED BY <1>2, <1>3, <1>4

(* Whoever becomes an owner was made one by an owner, or is the first. *)
LEMMA CommitGives ==
  ASSUME BInv, NEW t \in Tx, Commits(t), NEW o, NEW u,
         RoleOf(db', o, u) = "owner", RoleOf(db, o, u) # "owner"
  PROVE  Gives(t, o, u)
<1>1. MemberInv(t) /\ PutInv(t) /\ pc[t] = "commit"
  BY DEF BInv, Commits, Commit
<1>2. /\ op[t].kind \in MemberKinds /\ op[t].org = o /\ op[t].user = u
      /\ op[t].kind # "remove" /\ op[t].role = "owner"
  BY <1>1, CommitRoles
<1>3. op[t].kind = "first" \/ RoleOf(db, o, op[t].actor) = "owner"
  BY <1>1, <1>2 DEF MemberInv, MemberKinds
<1> QED BY <1>1, <1>2, <1>3 DEF Gives

-----------------------------------------------------------------------------
(* A statement and its own transaction.                                    *)

(* Two active owners are the account and another. *)
LEMMA TwoAreOther ==
  ASSUME NEW o, NEW u, AnotherOwner(o, u), u \in ActiveOwners(db, o)
  PROVE  Others(db, o, u)
<1>1. Cardinality(ActiveOwners(db, o)) >= 2
  BY DEF AnotherOwner
<1>2. SUFFICES ASSUME ~Others(db, o, u)
               PROVE  FALSE
  OBVIOUS
<1>3. ActiveOwners(db, o) = {u}
  BY <1>2 DEF Others
<1>4. Cardinality(ActiveOwners(db, o)) = 1
  BY <1>3, FS_Singleton
<1> QED BY <1>1, <1>4

(* A statement leaves what the database holds. *)
LEMMA StatementOf ==
  ASSUME AInv, NEW t \in Tx, Step(t), ~Committing(t)
  PROVE  /\ db' = db /\ op' = op /\ unseen' = unseen /\ lock'[t] = lock[t] \cup Wants(t)
         /\ pc[t] # "commit" /\ Calmly /\ \A u \in Tx \ {t} : Stays(u)
<1>1. Statement(t, Wants(t)) /\ pc[t] # "commit"
  BY StepIsStatement DEF AInv
<1>2. unseen' = unseen
  BY DEF Step, Committing, At, OrgLocked, CreateAccount, AddMember, CheckTarget, ChangeMember, ReadOwned, LockOwned,
         Recheck, Switch, Login, CheckPassword, ChangePassword, Request, CreateToken, ResetToken, ResetPassword,
         SweepRow, SweepEnd
<1>3. db' = db /\ op' = op /\ lock'[t] = lock[t] \cup Wants(t) /\ \A u \in Tx \ {t} : Stays(u)
  BY <1>1, StatementFrame DEF AInv, Stays
<1> QED BY <1>1, <1>2, <1>3 DEF Calmly

(* The organization's row is locked: its status, the actor's role. *)
LEMMA OrgLockedKeeps ==
  ASSUME BInv, NEW t \in Tx, OrgLocked(t)
  PROVE  MemberInv(t)'
<1> DEFINE o == op[t].org
<1>1. /\ db' = db /\ op' = op /\ lock'[t] = lock[t] \cup Wants(t) /\ pc[t] = "org" /\ op[t].kind \in MemberKinds
  BY StatementOf DEF BInv, Step, Committing, OrgLocked, At, LoginFailed, LoginSucceeded, CreateSession, Logout, MemberKinds
<1>2. /\ pc'[t] \in {"target", "account", "restore", "member"}
      /\ seen'[t] = IF op[t].kind = "first" THEN "none" ELSE ActorRole(db, o, op[t].actor)
  BY DEF OrgLocked, BInv, AInv, Shape
<1>3. <<Org(o), Update>> \in lock'[t]
  BY <1>1 DEF Wants
<1>4. db[Org(o)] # "cancelled"
  BY DEF OrgLocked, Editable
<1>5. Org(o) \in DOMAIN db /\ (op[t].kind # "first" => op[t].actor \in User)
  BY <1>1 DEF BInv, MemberInv
<1>6. op[t].kind # "first" /\ seen'[t] = "owner" =>
        RoleOf(db, o, op[t].actor) = "owner" /\ op[t].actor \in ActiveOwners(db, o)
  BY <1>2, <1>5 DEF ActorRole, ActiveOwners
<1>7. op[t].kind = "add" => (op[t].role = "owner" => seen'[t] = "owner")
  BY <1>2 DEF OrgLocked, MayAssign
<1> HIDE DEF o
<1> QED BY <1>1, <1>2, <1>3, <1>4, <1>5, <1>6, <1>7 DEF MemberInv, o

(* The other statements about a member. *)
LEMMA MemberStatements ==
  ASSUME BInv, NEW t \in Tx,
         CreateAccount(t) \/ AddMember(t) \/ CheckTarget(t) \/ ChangeMember(t)
  PROVE  MemberInv(t)'
<1> DEFINE o == op[t].org
           u == op[t].user
<1>1. /\ db' = db /\ op' = op /\ unseen' = unseen /\ lock'[t] = lock[t] \cup Wants(t) /\ op[t].kind \in MemberKinds
      /\ pc[t] # "org" /\ pc'[t] \in {"member", "change", "commit"} /\ seen'[t] = seen[t]
      /\ AInv /\ MemberInv(t)
  <2>1. op[t].kind \in MemberKinds /\ pc[t] # "org"
    BY DEF CreateAccount, AddMember, CheckTarget, ChangeMember, At, MemberKinds
  <2>2. Step(t) /\ ~Committing(t)
    BY <2>1 DEF Step, Committing, At, LoginFailed, LoginSucceeded, CreateSession, Logout, MemberKinds
  <2>3. pc'[t] \in {"member", "change", "commit"} /\ seen'[t] = seen[t]
    BY DEF CreateAccount, AddMember, CheckTarget, ChangeMember, Go, GoOn, BInv, AInv, Shape
  <2> QED BY <2>1, <2>2, <2>3, StatementOf DEF BInv
<1>2. /\ Org(o) \in DOMAIN db /\ (op[t].kind # "first" => op[t].actor \in User)
      /\ <<Org(o), Update>> \in lock'[t] /\ db[Org(o)] # "cancelled"
      /\ op[t].kind # "first" /\ seen[t] = "owner" =>
              /\ RoleOf(db, o, op[t].actor) = "owner"
              /\ op[t].actor \in ActiveOwners(db, o) \/ Org(o) \in unseen
  BY <1>1 DEF MemberInv
<1>3. op[t].kind = "add" \/ (op[t].kind = "role" /\ pc'[t] \in {"change", "commit"}) =>
        (op[t].role = "owner" => seen[t] = "owner")
  <2>1. CASE CheckTarget(t)
    BY <2>1 DEF CheckTarget, MayAssign, At
  <2>2. CASE ChangeMember(t)
    BY <1>1, <2>2 DEF ChangeMember, MemberInv, At
  <2>3. CASE CreateAccount(t) \/ AddMember(t)
    BY <1>1, <2>3 DEF CreateAccount, AddMember, MemberInv, At
  <2> QED BY <2>1, <2>2, <2>3
<1>4. op[t].kind \in {"add", "first"} /\ pc'[t] = "commit" => RoleOf(db, o, u) = "none"
  BY <1>1 DEF AddMember, CreateAccount, CheckTarget, ChangeMember, At, Go, GoOn, AInv, Shape
<1>5. op[t].kind \in {"role", "remove"} /\ pc'[t] \in {"change", "commit"} =>
        RoleOf(db, o, u) # "owner" \/ Org(o) \in unseen \/ Others(db, o, u)
  <2>1. CASE CheckTarget(t)
    <3>1. MayManage(seen[t], RoleOf(db, o, u)) /\ AnotherOwner(o, u) /\ op[t].kind # "first"
      BY <2>1 DEF CheckTarget, At
    <3>2. SUFFICES ASSUME RoleOf(db, o, u) = "owner", Org(o) \notin unseen
                   PROVE  Others(db, o, u)
      OBVIOUS
    <3>3. op[t].actor \in ActiveOwners(db, o)
      BY <1>2, <3>1, <3>2 DEF MayManage
    <3> HIDE DEF o, u
    <3>4. CASE u \in ActiveOwners(db, o)
      BY <3>1, <3>4, TwoAreOther
    <3>5. CASE u \notin ActiveOwners(db, o)
      BY <3>3, <3>5 DEF Others
    <3> QED BY <3>4, <3>5
  <2>2. CASE ChangeMember(t)
    BY <1>1, <2>2 DEF ChangeMember, MemberInv, At
  <2>3. CASE CreateAccount(t) \/ AddMember(t)
    BY <2>3 DEF CreateAccount, AddMember, At
  <2> QED BY <2>1, <2>2, <2>3
<1> HIDE DEF o, u
<1> QED BY <1>1, <1>2, <1>3, <1>4, <1>5 DEF MemberInv, o, u

(* The statements of switching an account off.  What is owned is looked    *)
(* for, locked one by one, and looked for again. *)
LEMMA OffStatements ==
  ASSUME BInv, NEW t \in Tx, op[t].kind = "off",
         ReadOwned(t) \/ LockOwned(t) \/ Recheck(t) \/ Switch(t) \/ SweepRow(t) \/ SweepEnd(t)
  PROVE  OffInv(t)'
<1> DEFINE u == op[t].user
<1>1. /\ db' = db /\ op' = op /\ unseen' = unseen /\ lock'[t] = lock[t] \cup Wants(t)
      /\ AInv /\ OffInv(t)
  <2>1. Step(t) /\ ~Committing(t)
    BY DEF Step, Committing, At, LoginFailed, LoginSucceeded, CreateSession, Logout
  <2> QED BY <2>1, StatementOf DEF BInv
<1>2. SUFFICES ASSUME NEW r \in seen'[t]
               PROVE  /\ r = Org(r[2]) /\ r \in DOMAIN db /\ db[r] # "cancelled"
                      /\ <<r, Update>> \in lock'[t] \/ (pc'[t] = "orgs" /\ r \in todo'[t])
                      /\ pc'[t] \in {"switch", "sweep", "commit"} => r \in unseen \/ Others(db, r[2], u)
  BY <1>1 DEF OffInv
<1>3. CASE ReadOwned(t)
  <2>1. seen'[t] = Owned(db, u) /\ todo'[t] = Owned(db, u) /\ pc'[t] = IF Owned(db, u) = {} THEN "recheck" ELSE "orgs"
    BY <1>1, <1>3 DEF ReadOwned, AInv, Shape
  <2>2. r \in Table(db, "org") /\ db[r] # "cancelled"
    BY <1>2, <2>1 DEF Owned
  <2>3. r = Org(r[2])
    BY <2>2 DEF BInv, OrgsNamed, Table
  <2> QED BY <1>2, <2>1, <2>2, <2>3 DEF Table
<1>4. ASSUME ~ReadOwned(t)
      PROVE  /\ r \in seen[t] /\ pc[t] # "read" /\ seen'[t] = seen[t]
             /\ r = Org(r[2]) /\ r \in DOMAIN db /\ db[r] # "cancelled"
             /\ <<r, Update>> \in lock[t] \/ (pc[t] = "orgs" /\ r \in todo[t])
             /\ pc[t] \in {"switch", "sweep", "commit"} => r \in unseen \/ Others(db, r[2], u)
  <2>1. pc[t] # "read"
    BY <1>4 DEF LockOwned, Recheck, Switch, SweepRow, SweepEnd, At
  <2>2. seen'[t] = seen[t]
    BY <1>4 DEF LockOwned, Recheck, Switch, SweepRow, SweepEnd, Sweep, Go, GoOn, At
  <2> QED BY <1>1, <1>2, <2>1, <2>2 DEF OffInv
<1>5. CASE LockOwned(t)
  <2>1. /\ pc[t] = "orgs" /\ pc'[t] \in {"recheck", "orgs"} /\ todo'[t] = todo[t] \ {NextOwned(t)}
        /\ pc'[t] = "recheck" => todo[t] \ {NextOwned(t)} = {}
    BY <1>1, <1>5 DEF LockOwned, At, Find, AInv, Shape
  <2>2. <<NextOwned(t), Update>> \in lock'[t]
    BY <1>1, <2>1 DEF Wants
  <2>3. ~ReadOwned(t)
    BY <2>1 DEF ReadOwned, At
  <2> QED BY <1>1, <1>4, <2>1, <2>2, <2>3
<1>6. CASE Recheck(t)
  <2>1. pc[t] = "recheck" /\ pc'[t] = "switch" /\ Owned(db, u) = seen[t] /\ \A x \in seen[t] : AnotherOwner(x[2], u)
    BY <1>1, <1>6 DEF Recheck, At, Go, GoOn, AInv, Shape
  <2>2. ~ReadOwned(t)
    BY <2>1 DEF ReadOwned, At
  <2>3. u \in ActiveOwners(db, r[2]) /\ AnotherOwner(r[2], u)
    BY <1>4, <2>1, <2>2 DEF Owned
  <2>4. Others(db, r[2], u)
    <3> HIDE DEF u
    <3> QED BY <2>3, TwoAreOther
  <2> QED BY <1>1, <1>4, <2>1, <2>2, <2>4
<1>7. CASE Switch(t) \/ SweepRow(t) \/ SweepEnd(t)
  <2>1. pc[t] \in {"switch", "sweep"} /\ pc'[t] \in {"sweep", "commit"}
    <3>1. CASE Switch(t)
      BY <1>1, <3>1 DEF Switch, At, Sweep, Find, AInv, Shape
    <3>2. CASE SweepRow(t)
      BY <1>1, <3>2 DEF SweepRow, At, AInv, Shape
    <3>3. CASE SweepEnd(t)
      BY <1>1, <3>3 DEF SweepEnd, At, Go, GoOn, AInv, Shape
    <3> QED BY <1>7, <3>1, <3>2, <3>3
  <2>2. ~ReadOwned(t)
    BY <2>1 DEF ReadOwned, At
  <2> QED BY <1>1, <1>4, <2>1, <2>2
<1> QED BY <1>3, <1>5, <1>6, <1>7

(* What is written: nothing, *)
LEMMA PutNothing ==
  ASSUME NEW t \in Tx, PutInv(t), db' = db, op' = op, put'[t] = put[t], pc[t] # "commit"
  PROVE  PutInv(t)'
BY DEF PutInv

(* one row, *)
MayPut(t, r, v) ==
  /\ r[1] # "org"
  /\ r[1] = "member" =>
       /\ op[t].kind \in MemberKinds /\ pc'[t] = "commit" /\ r = Member(op[t].org, op[t].user)
       /\ v = IF op[t].kind = "remove" THEN "removed" ELSE op[t].role
  /\ r[1] = "user" /\ r \in DOMAIN db =>
       v.active = db[r].active \/ op[t].kind = "off" \/ (op[t].kind = "on" /\ v.active)
LEMMA PutOne ==
  ASSUME NEW t \in Tx, PutInv(t), db' = db, op' = op, pc[t] # "commit", NEW r, NEW v, MayPut(t, r, v),
         put'[t] = Over(One(r, v), put[t])
  PROVE  PutInv(t)'
<1>1. /\ DOMAIN put'[t] = DOMAIN put[t] \cup {r} /\ put'[t][r] = v
      /\ \A x \in DOMAIN put[t] : x # r => put'[t][x] = put[t][x]
  BY OneRowWritten
<1>2. ASSUME NEW x \in DOMAIN put'[t]
      PROVE  MayPut(t, x, put'[t][x])
  <2>1. CASE x = r
    BY <1>1, <2>1
  <2>2. CASE x # r
    <3>1. x \in DOMAIN put[t] /\ put'[t][x] = put[t][x]
      BY <1>1, <1>2, <2>2
    <3> QED BY <3>1 DEF PutInv, MayPut
  <2> QED BY <2>1, <2>2
<1> QED BY <1>2 DEF PutInv, MayPut

(* or an account and a token. *)
LEMMA PutTwo ==
  ASSUME NEW t \in Tx, PutInv(t), db' = db, op' = op, pc[t] # "commit",
         NEW r, NEW v, MayPut(t, r, v), NEW s, NEW w, MayPut(t, s, w), r # s,
         put'[t] = Over(Over(One(r, v), One(s, w)), put[t])
  PROVE  PutInv(t)'
<1>1. /\ DOMAIN put'[t] = DOMAIN put[t] \cup {r, s} /\ put'[t][r] = v /\ put'[t][s] = w
      /\ \A x \in DOMAIN put[t] : x # r /\ x # s => put'[t][x] = put[t][x]
  <2>1. put'[t] = Over(Over(One(r, v), One(s, w)), put[t]) /\ r # s
    OBVIOUS
  <2> QED BY ONLY <2>1 DEF Over, One
<1>2. ASSUME NEW x \in DOMAIN put'[t]
      PROVE  MayPut(t, x, put'[t][x])
  <2>1. CASE x = r \/ x = s
    BY <1>1, <2>1
  <2>2. CASE x # r /\ x # s
    <3>1. x \in DOMAIN put[t] /\ put'[t][x] = put[t][x]
      BY <1>1, <1>2, <2>2
    <3> QED BY <3>1 DEF PutInv, MayPut
  <2> QED BY <2>1, <2>2
<1> QED BY <1>2 DEF PutInv, MayPut

(* An account keeps being active when its password is set. *)
LEMMA PasswordOnly ==
  ASSUME AInv, NEW t \in Tx, Target(t) \in DOMAIN db
  PROVE  NewPassword(t).active = db[Target(t)].active /\ Target(t)[1] = "user"
<1> DEFINE r == Target(t)
<1>1. r[1] = "user" /\ Fits(r, db[r])
  BY RowNames, RowsFit DEF AInv, Target
<1>2. db[r] = [active |-> db[r].active, password |-> db[r].password, fails |-> db[r].fails,
               locked |-> db[r].locked, off |-> db[r].off]
  BY <1>1 DEF Fits
<1> HIDE DEF r
<1>3. NewPassword(t) = [db[r] EXCEPT !.password = t, !.fails = 0, !.locked = FALSE]
  BY DEF NewPassword, r
<1> QED BY <1>1, <1>2, <1>3 DEF r

(* Each statement writes as it may. *)
LEMMA StatementPuts ==
  ASSUME BInv, NEW t \in Tx, Step(t), ~Committing(t)
  PROVE  PutInv(t)'
<1>1. /\ db' = db /\ op' = op /\ pc[t] # "commit" /\ PutInv(t) /\ AInv /\ Shape /\ TxInv(t)
      /\ put[t] = [r \in DOMAIN put[t] |-> put[t][r]]
  BY StatementOf DEF BInv, AInv, Shape
<1>2. ASSUME put'[t] = Over(<<>>, put[t])
      PROVE  PutInv(t)'
  BY <1>1, <1>2, OverNothing, PutNothing
<1>3. ASSUME OrgLocked(t) \/ CheckTarget(t) \/ LockOwned(t) \/ Recheck(t) \/ Login(t) \/ CheckPassword(t)
             \/ Request(t) \/ ResetToken(t) \/ SweepEnd(t)
      PROVE  put'[t] = Over(<<>>, put[t])
  BY <1>1, <1>3 DEF OrgLocked, CheckTarget, LockOwned, Recheck, Login, CheckPassword, Request, ResetToken, SweepEnd,
                    Go, GoOn, Sweep, Find, Take, Shape
<1>4. ASSUME ReadOwned(t)
      PROVE  PutInv(t)'
  BY <1>1, <1>4, PutNothing DEF ReadOwned
<1>5. ASSUME CreateAccount(t)
      PROVE  PutInv(t)'
  <2>1. put'[t] = Over(IF Exists(db, op[t].user) THEN <<>> ELSE One(Target(t), NewAccount), put[t])
    BY <1>1, <1>5 DEF CreateAccount, Go, GoOn, Take, Shape
  <2>2. CASE Exists(db, op[t].user)
    BY <1>2, <2>1, <2>2
  <2>3. CASE ~Exists(db, op[t].user)
    <3>1. Target(t) \notin DOMAIN db /\ Target(t)[1] = "user"
      BY <2>3, RowNames DEF Exists, Target
    <3>2. MayPut(t, Target(t), NewAccount)
      BY <3>1 DEF MayPut
    <3> QED BY <1>1, <2>1, <2>3, <3>2, PutOne
  <2> QED BY <2>2, <2>3
<1>6. ASSUME AddMember(t) \/ ChangeMember(t)
      PROVE  PutInv(t)'
  <2> DEFINE r == Member(op[t].org, op[t].user)
             v == IF op[t].kind = "remove" THEN "removed" ELSE op[t].role
  <2>1. put'[t] = Over(One(r, v), put[t]) /\ pc'[t] = "commit" /\ op[t].kind \in MemberKinds
    <3>1. CASE AddMember(t)
      BY <1>1, <3>1 DEF AddMember, At, Go, GoOn, Take, Shape, MemberKinds
    <3>2. CASE ChangeMember(t)
      BY <1>1, <3>2 DEF ChangeMember, At, Go, GoOn, Take, Shape, MemberKinds
    <3> QED BY <1>6, <3>1, <3>2
  <2>2. r[1] = "member" /\ r = Member(op[t].org, op[t].user)
    BY RowNames
  <2>3. MayPut(t, r, v)
    BY <2>1, <2>2 DEF MayPut
  <2> HIDE DEF r, v
  <2> QED BY <1>1, <2>1, <2>3, PutOne
<1>7. ASSUME Switch(t)
      PROVE  PutInv(t)'
  <2> DEFINE r == Target(t)
  <2>1. op[t].kind \in {"on", "off"} /\ r \in DOMAIN db /\ r[1] = "user" /\ Fits(r, db[r])
    <3>1. op[t].kind \in {"on", "off"}
      BY <1>7 DEF Switch, At
    <3> QED BY <1>1, <3>1, RowNames, RowsFit DEF AInv, TxInv, About, PersonKinds, Target
  <2>2. db[r] = [active |-> db[r].active, password |-> db[r].password, fails |-> db[r].fails,
                 locked |-> db[r].locked, off |-> db[r].off]
    BY <2>1 DEF Fits
  <2>3. CASE op[t].kind = "on"
    <3>1. put'[t] = Over(One(r, [db[r] EXCEPT !.active = TRUE]), put[t])
      BY <1>1, <1>7, <2>3 DEF Switch, At, Go, GoOn, Take, Shape
    <3>2. MayPut(t, r, [db[r] EXCEPT !.active = TRUE])
      <4> HIDE DEF r
      <4> QED BY <2>1, <2>2, <2>3 DEF MayPut
    <3> QED BY <1>1, <3>1, <3>2, PutOne
  <2>4. CASE op[t].kind = "off"
    <3>1. put'[t] = Over(One(r, [db[r] EXCEPT !.active = FALSE, !.off = t]), put[t])
      BY <1>1, <1>7, <2>4 DEF Switch, At, Sweep, Find, Take, Shape
    <3>2. MayPut(t, r, [db[r] EXCEPT !.active = FALSE, !.off = t])
      <4> HIDE DEF r
      <4> QED BY <2>1, <2>4 DEF MayPut
    <3> QED BY <1>1, <3>1, <3>2, PutOne
  <2> QED BY <2>1, <2>3, <2>4
<1>8. ASSUME ChangePassword(t)
      PROVE  PutInv(t)'
  <2>1. put'[t] = Over(One(Target(t), NewPassword(t)), put[t]) /\ Target(t) \in DOMAIN db
    <3>1. op[t].kind = "changing"
      BY <1>8 DEF ChangePassword, At
    <3>2. put'[t] = Over(One(Target(t), NewPassword(t)), put[t])
      BY <1>1, <1>8 DEF ChangePassword, Sweep, Find, Take, Shape
    <3> QED BY <1>1, <3>1, <3>2 DEF TxInv, About, PersonKinds
  <2>2. MayPut(t, Target(t), NewPassword(t))
    BY <1>1, <2>1, PasswordOnly DEF MayPut
  <2> QED BY <1>1, <2>1, <2>2, PutOne
<1>9. ASSUME CreateToken(t)
      PROVE  PutInv(t)'
  <2> DEFINE r == <<"token", New(t)>>
             v == [user |-> op[t].user, state |-> "unused", spent |-> {}]
  <2>1. put'[t] = Over(One(r, v), put[t])
    BY <1>1, <1>9 DEF CreateToken, Go, GoOn, Take, Shape
  <2>2. MayPut(t, r, v)
    BY DEF MayPut
  <2> HIDE DEF r, v
  <2> QED BY <1>1, <2>1, <2>2, PutOne
<1>10. ASSUME ResetPassword(t)
       PROVE  PutInv(t)'
  <2> DEFINE s == op[t].token
             w == [db[s] EXCEPT !.spent = @ \cup {t}]
  <2>1. put'[t] = Over(Over(One(Target(t), NewPassword(t)), One(s, w)), put[t])
    BY <1>1, <1>10 DEF ResetPassword, Sweep, Find, Take, Shape
  <2>2. Target(t) \in DOMAIN db /\ s[1] = "token"
    <3>1. op[t].kind = "reset"
      BY <1>10 DEF ResetPassword, At
    <3> QED BY <1>1, <3>1 DEF TxInv, About, PersonKinds, Table
  <2>3. MayPut(t, Target(t), NewPassword(t)) /\ Target(t)[1] = "user"
    BY <1>1, <2>2, PasswordOnly DEF MayPut
  <2>4. MayPut(t, s, w) /\ Target(t) # s
    BY <2>2, <2>3 DEF MayPut
  <2> HIDE DEF s, w
  <2> QED BY <1>1, <2>1, <2>3, <2>4, PutTwo
<1>11. ASSUME SweepRow(t)
       PROVE  PutInv(t)'
  <2> DEFINE r == First(todo[t])
             v == Gone(View(t)[r])
  <2>1. put'[t] = Over(IF Open(View(t), r) THEN One(r, v) ELSE <<>>, put[t])
    BY <1>1, <1>11 DEF SweepRow, Take, Shape
  <2>2. todo[t] \subseteq Table(db, "session") \cup Table(db, "token") /\ todo[t] # {}
    BY <1>1, <1>11 DEF SweepRow, At, TxInv, Sweeps
  <2>3. \A x \in todo[t] : x[2] \in Nat /\ x[1] \in {"session", "token"}
    <3>1. ASSUME NEW x \in todo[t]
          PROVE  x[2] \in Nat /\ x[1] \in {"session", "token"}
      <4>1. x \in DOMAIN db /\ x[1] \in {"session", "token"} /\ Typed(db)
        BY <1>1, <2>2 DEF Table, AInv
      <4> QED BY <4>1, RowsFit
    <3> QED BY <3>1
  <2>4. r \in todo[t] /\ r[1] \in {"session", "token"}
    BY <2>2, <2>3, FirstIsOne
  <2>5. MayPut(t, r, v)
    BY <2>4 DEF MayPut
  <2> HIDE DEF r, v
  <2>6. CASE Open(View(t), r)
    BY <1>1, <2>1, <2>5, <2>6, PutOne
  <2>7. CASE ~Open(View(t), r)
    BY <1>2, <2>1, <2>7
  <2> QED BY <2>6, <2>7
<1> QED BY <1>2, <1>3, <1>4, <1>5, <1>6, <1>7, <1>8, <1>9, <1>10, <1>11 DEF Step, Committing

-----------------------------------------------------------------------------
(* Every step.                                                             *)

(* A statement keeps it. *)
LEMMA StatementKeepsB ==
  ASSUME BInv, NEW t \in Tx, Step(t), ~Committing(t)
  PROVE  Calmly /\ \A u \in Tx : MemberInv(u)' /\ OffInv(u)' /\ PutInv(u)'
<1>1. db' = db /\ op' = op /\ Calmly /\ \A u \in Tx \ {t} : Stays(u)
  BY StatementOf DEF BInv
<1>2. ASSUME NEW u \in Tx, u # t
      PROVE  MemberInv(u)' /\ OffInv(u)' /\ PutInv(u)'
  <2>1. Stays(u) /\ MemberInv(u) /\ OffInv(u) /\ PutInv(u)
    BY <1>1, <1>2 DEF BInv
  <2> QED BY <1>1, <2>1, CalmStays
<1>3. PutInv(t)'
  BY StatementPuts
<1>4. CASE op[t].kind \in MemberKinds
  <2>1. OrgLocked(t) \/ CreateAccount(t) \/ AddMember(t) \/ CheckTarget(t) \/ ChangeMember(t)
    BY <1>4 DEF Step, Committing, MemberKinds, At, ReadOwned, LockOwned, Recheck, Switch, Login, CheckPassword,
                ChangePassword, Request, CreateToken, ResetToken, ResetPassword, SweepRow, SweepEnd
  <2>2. MemberInv(t)'
    BY <2>1, OrgLockedKeeps, MemberStatements
  <2>3. OffInv(t)'
    BY <1>1, <1>4 DEF OffInv, MemberKinds
  <2> QED BY <1>1, <1>2, <1>3, <2>2, <2>3
<1>5. CASE op[t].kind = "off"
  <2>1. ReadOwned(t) \/ LockOwned(t) \/ Recheck(t) \/ Switch(t) \/ SweepRow(t) \/ SweepEnd(t)
    BY <1>5 DEF Step, Committing, MemberKinds, At, OrgLocked, CreateAccount, AddMember, CheckTarget, ChangeMember,
                Login, CheckPassword, ChangePassword, Request, CreateToken, ResetToken, ResetPassword
  <2>2. OffInv(t)'
    BY <1>5, <2>1, OffStatements
  <2>3. MemberInv(t)'
    BY <1>1, <1>5 DEF MemberInv, MemberKinds
  <2> QED BY <1>1, <1>2, <1>3, <2>2, <2>3
<1>6. CASE op[t].kind \notin MemberKinds /\ op[t].kind # "off"
  <2>1. MemberInv(t)' /\ OffInv(t)'
    BY <1>1, <1>6 DEF MemberInv, OffInv
  <2> QED BY <1>1, <1>2, <1>3, <2>1
<1> QED BY <1>4, <1>5, <1>6

(* A change of one account or session is a calm one. *)
LEMMA RowIsCalm ==
  ASSUME NEW r, NEW v, db' = Over(One(r, v), db), unseen' = unseen, r[1] \notin {"org", "member"},
         r[1] = "user" => r \in DOMAIN db /\ v.active = db[r].active
  PROVE  Calmly
<1>1. DOMAIN db' = DOMAIN db \cup {r} /\ db'[r] = v /\ \A x \in DOMAIN db : x # r => db'[x] = db[x]
  <2>1. db' = Over(One(r, v), db)
    OBVIOUS
  <2> QED BY ONLY <2>1 DEF Over, One
<1> QED BY <1>1 DEF Calmly

(* So do statements that are transactions of their own. *)
LEMMA NowIsCalm ==
  ASSUME BInv, NEW t \in Tx, Committing(t)
  PROVE  /\ Calmly /\ op' = op /\ put' = put /\ op[t].kind \in {"login", "logout"}
         /\ \A u \in Tx \ {t} : Stays(u)
<1>1. AInv /\ Shape /\ TxInv(t) /\ Typed(db)
  BY DEF BInv, AInv
<1>2. unseen' = unseen /\ op' = op /\ put' = put /\ op[t].kind \in {"login", "logout"} /\ \A u \in Tx \ {t} : Stays(u)
  <2>1. UNCHANGED <<unseen, op, seen, todo, put, lock>> /\ op[t].kind \in {"login", "logout"}
    BY DEF Committing, LoginFailed, LoginSucceeded, CreateSession, Logout, At, Now
  <2>2. \A u \in Tx \ {t} : pc'[u] = pc[u]
    BY <1>1 DEF Committing, LoginFailed, LoginSucceeded, CreateSession, Logout, At, Now, Shape
  <2> QED BY <2>1, <2>2 DEF Stays
<1>3. ASSUME LoginFailed(t) \/ LoginSucceeded(t)
      PROVE  Calmly
  <2> DEFINE r == Target(t)
  <2>1. r \in DOMAIN db /\ r[1] = "user" /\ Fits(r, db[r])
    <3>1. op[t].kind = "login"
      BY <1>3 DEF LoginFailed, LoginSucceeded, At
    <3> QED BY <1>1, <3>1, RowNames, RowsFit DEF TxInv, About, PersonKinds, Target
  <2>2. db[r] = [active |-> db[r].active, password |-> db[r].password, fails |-> db[r].fails,
                 locked |-> db[r].locked, off |-> db[r].off]
    BY <2>1 DEF Fits
  <2>3. CASE LoginFailed(t)
    <3>1. PICK fails, locked : db' = Over(One(r, [db[r] EXCEPT !.fails = fails, !.locked = locked]), db)
      BY <2>3 DEF LoginFailed, Now
    <3> HIDE DEF r
    <3>2. [db[r] EXCEPT !.fails = fails, !.locked = locked].active = db[r].active
      BY <2>2
    <3> QED BY <1>2, <2>1, <3>1, <3>2, RowIsCalm
  <2>4. CASE LoginSucceeded(t)
    <3>1. db' = Over(One(r, [db[r] EXCEPT !.fails = 0, !.locked = FALSE]), db)
      BY <2>4 DEF LoginSucceeded, Now
    <3> HIDE DEF r
    <3>2. [db[r] EXCEPT !.fails = 0, !.locked = FALSE].active = db[r].active
      BY <2>2
    <3> QED BY <1>2, <2>1, <3>1, <3>2, RowIsCalm
  <2> QED BY <1>3, <2>3, <2>4
<1>4. ASSUME CreateSession(t)
      PROVE  Calmly
  <2> DEFINE r == <<"session", New(t)>>
             v == [user |-> op[t].user, proof |-> op[t].password, by |-> t, revoked |-> FALSE]
  <2>1. db' = Over(One(r, v), db)
    BY <1>4 DEF CreateSession, Now
  <2>2. r[1] = "session"
    OBVIOUS
  <2> HIDE DEF r, v
  <2> QED BY <1>2, <2>1, <2>2, RowIsCalm
<1>5. ASSUME Logout(t)
      PROVE  Calmly
  <2> DEFINE r == op[t].session
  <2>1. db' = Over(One(r, Gone(db[r])), db)
    BY <1>5 DEF Logout, Now
  <2>2. r[1] = "session"
    <3>1. op[t].kind = "logout"
      BY <1>5 DEF Logout, At
    <3> QED BY <1>1, <3>1 DEF TxInv, About, Table
  <2> HIDE DEF r
  <2> QED BY <1>2, <2>1, <2>2, RowIsCalm
<1> QED BY <1>2, <1>3, <1>4, <1>5 DEF Committing

(* And time. *)
LEMMA TimeIsCalm ==
  ASSUME BInv, TimePasses
  PROVE  Calmly /\ \A u \in Tx : Stays(u)
<1>1. PICK r \in DOMAIN db :
        \/ r[1] = "user" /\ db[r].locked /\ db' = [db EXCEPT ![r].locked = FALSE]
        \/ r[1] = "token" /\ db[r].state = "unused" /\ db' = [db EXCEPT ![r].state = "expired"]
  BY DEF TimePasses
<1>2. UNCHANGED <<op, pc, seen, todo, put, lock, unseen>>
  BY DEF TimePasses
<1>3. db = [x \in DOMAIN db |-> db[x]] /\ Fits(r, db[r])
  BY RowsFit DEF BInv, AInv, Typed
<1>4. DOMAIN db' = DOMAIN db /\ \A x \in DOMAIN db : x # r => db'[x] = db[x]
  BY <1>1, <1>3
<1>5. r[1] = "user" => db'[r].active = db[r].active
  <2> SUFFICES ASSUME r[1] = "user"
               PROVE  db'[r].active = db[r].active
    OBVIOUS
  <2>1. db[r] = [active |-> db[r].active, password |-> db[r].password, fails |-> db[r].fails,
                 locked |-> db[r].locked, off |-> db[r].off]
    BY <1>3 DEF Fits
  <2>2. db'[r] = [db[r] EXCEPT !.locked = FALSE]
    BY <1>1, <1>3
  <2> QED BY <2>1, <2>2
<1>6. r[1] \in {"user", "token"}
  BY <1>1
<1> QED BY <1>2, <1>4, <1>5, <1>6 DEF Calmly, Stays

(* A transaction that begins is about an organization that is there. *)
LEMMA BeginKeepsB ==
  ASSUME BInv, NEW t \in Tx, Begin(t)
  PROVE  /\ Calmly /\ (\A u \in Tx \ {t} : Stays(u))
         /\ MemberInv(t)' /\ OffInv(t)' /\ PutInv(t)'
<1>1. PICK o \in MemberOps \cup SwitchOps \cup SignOps :
        op' = [op EXCEPT ![t] = o] /\ pc' = [pc EXCEPT ![t] = FirstStatement(o.kind)]
  BY DEF Begin
<1>2. pc[t] = "idle" /\ UNCHANGED <<db, seen, todo, put, lock, unseen>>
  BY DEF Begin, Waiting
<1>3. op'[t] = o /\ pc'[t] = FirstStatement(o.kind) /\ \A u \in Tx \ {t} : Stays(u)
  BY <1>1, <1>2 DEF BInv, AInv, Shape, Stays
<1>4. Calmly
  BY <1>2 DEF Calmly
<1>5. MemberInv(t)'
  <2>1. SUFFICES ASSUME o.kind \in MemberKinds
                 PROVE  /\ Org(o.org) \in DOMAIN db /\ (o.kind # "first" => o.actor \in User)
                        /\ FirstStatement(o.kind) = "org"
    BY <1>2, <1>3 DEF MemberInv
  <2>2. o \in MemberOps
    <3>1. o \notin SwitchOps
      BY <2>1 DEF SwitchOps, MemberKinds
    <3>2. o \notin SignOps
      <4> DEFINE Logins == UNION {[kind : {"login"}, user : {u}, password : Given(u)] : u \in People}
                 Changes == UNION {[kind : {"changing"}, user : {db[r].user}, password : Given(db[r].user)] : r \in ValidSessions}
                 Requests == [kind : {"request"}, user : People]
                 Resets == {[kind |-> "reset", user |-> db[r].user, token |-> r] : r \in Table(db, "token")}
                 Logouts == {[kind |-> "logout", user |-> db[r].user, session |-> r] : r \in Table(db, "session")}
      <4>1. o \notin Logins /\ o \notin Changes
        BY <2>1 DEF MemberKinds
      <4>2. o \notin Requests /\ o \notin Resets /\ o \notin Logouts
        BY <2>1 DEF MemberKinds
      <4> QED BY <4>1, <4>2 DEF SignOps
    <3> QED BY <3>1, <3>2
  <2>3. o.org \in Orgs /\ (o.kind # "first" => o.actor \in User)
    BY <2>2 DEF MemberOps, People
  <2>4. Org(o.org) \in DOMAIN db
    BY <2>3 DEF Orgs, Table, BInv, OrgsNamed
  <2> QED BY <2>1, <2>3, <2>4 DEF FirstStatement, MemberKinds
<1>6. OffInv(t)'
  BY <1>3 DEF OffInv, FirstStatement, MemberKinds
<1>7. PutInv(t)'
  BY <1>2 DEF BInv, AInv, Shape, Running, PutInv
<1> QED BY <1>3, <1>4, <1>5, <1>6, <1>7

(* It holds in the beginning. *)
LEMMA InitBInv == Init => BInv
<1> SUFFICES ASSUME Init
             PROVE  BInv
  OBVIOUS
<1>1. AInv
  BY InitAInv
<1>2. PICK past \in Pasts : Begun({past.db}, 0)
  BY DEF Init, Idle
<1>3. db = past.db /\ \A t \in Tx : op[t] = [kind |-> "none"] /\ put[t] = <<>>
  BY <1>2 DEF Begun
<1>4. \A r \in DOMAIN db : Begins(r, db[r])
  BY <1>3, AccountsAssumption
<1>5. OrgsNamed
  BY <1>4 DEF OrgsNamed, Begins
<1>6. ASSUME NEW t \in Tx
      PROVE  MemberInv(t) /\ OffInv(t) /\ PutInv(t)
  BY <1>3 DEF MemberInv, OffInv, PutInv, MemberKinds
<1> QED BY <1>1, <1>5, <1>6 DEF BInv

(* It holds after every step. *)
LEMMA NextBInv == BInv /\ [Next]_accountVars => BInv'
<1> SUFFICES ASSUME BInv, [Next]_accountVars
             PROVE  BInv'
  OBVIOUS
<1>1. AInv'
  BY NextAInv DEF BInv
<1>2. ASSUME Grows, \A u \in Tx : MemberInv(u)' /\ OffInv(u)' /\ PutInv(u)'
      PROVE  BInv'
  BY <1>1, <1>2, GrowsNamed DEF BInv
<1>3. ASSUME Calmly, \A u \in Tx : Stays(u) \/ (MemberInv(u)' /\ OffInv(u)' /\ PutInv(u)')
      PROVE  BInv'
  <2>1. \A u \in Tx : MemberInv(u)' /\ OffInv(u)' /\ PutInv(u)'
    BY <1>3, CalmStays DEF BInv
  <2> QED BY <1>2, <1>3, <2>1, CalmKeeps
<1>4. CASE UNCHANGED accountVars
  <2>1. Calmly /\ \A u \in Tx : Stays(u)
    BY <1>4 DEF accountVars, vars, Calmly, Stays
  <2> QED BY <2>1, <1>3
<1>5. CASE TimePasses
  BY <1>3, <1>5, TimeIsCalm
<1>6. ASSUME NEW t \in Tx, Begin(t)
      PROVE  BInv'
  BY <1>3, <1>6, BeginKeepsB
<1>7. ASSUME NEW t \in Tx, Step(t), ~Committing(t)
      PROVE  BInv'
  BY <1>2, <1>7, StatementKeepsB, CalmKeeps
<1>8. ASSUME NEW t \in Tx, Step(t), Committing(t)
      PROVE  BInv'
  <2>1. /\ Calmly /\ op' = op /\ put' = put /\ op[t].kind \in {"login", "logout"}
        /\ \A u \in Tx \ {t} : Stays(u)
    BY <1>8, NowIsCalm
  <2>2. MemberInv(t)' /\ OffInv(t)' /\ PutInv(t)'
    <3>1. MemberInv(t)' /\ OffInv(t)'
      BY <2>1 DEF MemberInv, OffInv, MemberKinds
    <3>2. PutInv(t)'
      BY <2>1 DEF BInv, PutInv, MemberKinds, Calmly
    <3> QED BY <3>1, <3>2
  <2> QED BY <1>3, <2>1, <2>2
<1>9. ASSUME NEW t \in Tx, End(t)
      PROVE  MemberInv(t)' /\ OffInv(t)' /\ PutInv(t)'
  <2>1. op'[t] = [kind |-> "none"] /\ put'[t] = <<>>
    BY <1>9 DEF End, BInv, AInv, Shape
  <2> QED BY <2>1 DEF MemberInv, OffInv, PutInv, MemberKinds
<1>10. ASSUME NEW t \in Tx, Fail(t), unseen' = unseen
       PROVE  BInv'
  <2>1. Calmly /\ End(t)
    BY <1>10 DEF Fail, Calmly
  <2>2. \A u \in Tx \ {t} : Stays(u)
    BY <2>1 DEF End, Stays, BInv, AInv, Shape
  <2> QED BY <1>3, <1>9, <2>1, <2>2
<1>11. ASSUME NEW t \in Tx, Commits(t)
       PROVE  BInv'
  <2>1. Grows /\ End(t)
    BY <1>11, CommitGrows DEF BInv, Commits, Commit
  <2>2. \A u \in Tx : u # t => MemberInv(u)' /\ OffInv(u)' /\ PutInv(u)'
    BY <1>11, CommitSpares
  <2> QED BY <1>2, <1>9, <2>1, <2>2
<1> QED BY <1>4, <1>5, <1>6, <1>7, <1>8, <1>10, <1>11 DEF Next, Finish, Commits

(* Any step keeps the owners there are, and makes owners as it may. *)
LEMMA StepHandsOn ==
  ASSUME BInv, [Next]_accountVars, NEW o \in Orgs
  PROVE  /\ db[Org(o)] # "cancelled" /\ ActiveOwners(db, o) # {} =>
              ActiveOwners(db', o) # {} \/ Org(o) \in unseen'
         /\ \A u \in User : RoleOf(db', o, u) = "owner" /\ RoleOf(db, o, u) # "owner" =>
              \E t \in Tx : Gives(t, o, u)
<1>1. ASSUME Calmly
      PROVE  ActiveOwners(db', o) = ActiveOwners(db, o) /\ \A u : RoleOf(db', o, u) = RoleOf(db, o, u)
  BY <1>1, CalmKeeps DEF Kept, Roles
<1>2. CASE Calmly
  BY <1>1, <1>2
<1>3. ASSUME NEW t \in Tx, Commits(t)
      PROVE  /\ db[Org(o)] # "cancelled" /\ ActiveOwners(db, o) # {} =>
                  ActiveOwners(db', o) # {} \/ Org(o) \in unseen'
             /\ \A u \in User : RoleOf(db', o, u) = "owner" /\ RoleOf(db, o, u) # "owner" => Gives(t, o, u)
  <2>1. Org(o) \in DOMAIN db
    BY DEF Orgs, Table, BInv, OrgsNamed
  <2> QED BY <1>3, <2>1, CommitLeavesOwner, CommitGives
<1>4. Calmly \/ \E t \in Tx : Commits(t)
  <2>1. CASE UNCHANGED accountVars
    BY <2>1 DEF accountVars, vars, Calmly
  <2>2. CASE TimePasses
    BY <2>2, TimeIsCalm
  <2>3. ASSUME NEW t \in Tx, Begin(t) \/ (Step(t) /\ Committing(t)) \/ (Step(t) /\ ~Committing(t))
        PROVE  Calmly
    BY <2>3, BeginKeepsB, NowIsCalm, StatementKeepsB
  <2>4. ASSUME NEW t \in Tx, Finish(t)
        PROVE  Calmly \/ Commits(t)
    BY <2>4 DEF Finish, Commits, Fail, Calmly
  <2> QED BY <2>1, <2>2, <2>3, <2>4 DEF Next
<1> QED BY <1>2, <1>3, <1>4

-----------------------------------------------------------------------------
(* What each of any number of overlapping transactions knows of the owners *)
(* of the organizations it has locked, at each of its statements.          *)
THEOREM OwnersAreKept == Spec => []BInv
<1>1. Init => BInv
  BY InitBInv
<1>2. BInv /\ [Next]_accountVars => BInv'
  BY NextBInv
<1> QED BY <1>1, <1>2, PTL DEF Spec

(* An organization that has an active owner keeps one, whatever is taken   *)
(* away from whom at once, but in one case: an account that was made an    *)
(* owner after its being switched off had looked at what it owns.          *)
(* Ownership is given by an owner, or to the first.                        *)
THEOREM OwnershipIsHandedOnAlways == Spec => OwnershipIsHandedOn
<1> DEFINE HandsOn ==
      \A o \in Orgs :
        /\ db[Org(o)] # "cancelled" /\ ActiveOwners(db, o) # {} =>
             ActiveOwners(db', o) # {} \/ Org(o) \in unseen'
        /\ \A u \in User : RoleOf(db', o, u) = "owner" /\ RoleOf(db, o, u) # "owner" =>
             \E t \in Tx : Gives(t, o, u)
<1>1. BInv /\ [Next]_accountVars => HandsOn
  BY StepHandsOn
<1>2. Spec => [][HandsOn]_accountVars
  <2> HIDE DEF HandsOn
  <2> QED BY <1>1, OwnersAreKept, PTL DEF Spec
<1> QED BY <1>2 DEF OwnershipIsHandedOn

-----------------------------------------------------------------------------
(* The third layer: where a transaction has its locks.                     *)

(* Where a lock of each kind may be held: those of the organizations are   *)
(* taken in the order of their numbers, and so are the tokens of a         *)
(* request; who has a session's has the account's.                         *)
LockAt(t, h) ==
  LET r == h[1] IN
  /\ r[1] = "org" => op[t].kind \in MemberKinds \cup {"off"} /\ (pc[t] = "orgs" => \A s \in todo[t] : r[2] < s[2])
  /\ r[1] = "member" => pc[t] = "commit"
  /\ r[1] = "user" => /\ pc[t] \in {"member", "sweep", "commit"}
                      /\ pc[t] = "member" => h = <<Target(t), Update>>
                      /\ pc[t] = "sweep" => op[t].kind \in {"off", "changing", "reset"}
  /\ r[1] = "session" => /\ pc[t] \in {"sweep", "commit"} /\ op[t].kind \in {"off", "changing", "reset"}
                         /\ pc[t] = "sweep" /\ op[t].kind = "reset" => seen[t] = "sessions"
                         /\ r \in DOMAIN db /\ db[r].user = op[t].user
  /\ r[1] = "token" => /\ pc[t] \in {"holder", "sweep", "insert", "commit"} /\ op[t].kind \in {"request", "reset"}
                       /\ pc[t] = "sweep" /\ op[t].kind = "request" => \A s \in todo[t] : r[2] < s[2]
LockInv(t) == \A h \in lock[t] : LockAt(t, h)

(* What it has locked for certain, and what it is still to lock; the       *)
(* tokens that it writes are of its person.                                *)
TokensFit(t) ==
  \A r \in DOMAIN put[t] \cap DOMAIN db : r[1] = "token" =>
    op[t].kind \in {"request", "reset"} /\ db[r].user = op[t].user
PlaceInv(t) ==
  /\ pc[t] \in {"read", "org"} \/ op[t].kind \in {"login", "logout"} => lock[t] = {}
  /\ pc[t] = "token" => op[t].kind = "reset"
  /\ pc[t] = "revoke" => op[t].kind = "logout"
  /\ pc[t] = "member" => op[t].kind \in {"add", "first"}
  /\ pc[t] = "insert" => op[t].kind \in {"login", "request"}
  /\ pc[t] = "orgs" => op[t].kind = "off" /\ todo[t] # {} /\ todo[t] \subseteq Table(db, "org")
  /\ pc[t] = "sweep" => op[t].kind \in {"off", "changing", "request", "reset"}
  /\ op[t].kind \in {"off", "changing"} /\ pc[t] \in {"sweep", "commit"} => Has(lock[t], Target(t))
  /\ op[t].kind = "reset" /\ pc[t] \in {"sweep", "commit"} => <<Target(t), Update>> \in lock[t]
  /\ op[t].kind = "request" /\ pc[t] = "commit" => <<Target(t), KeyShare>> \in lock[t]
  /\ pc[t] = "sweep" =>
       \A r \in todo[t] :
         CASE op[t].kind = "request"                         -> r \in Table(db, "token") /\ db[r].user = op[t].user
           [] op[t].kind = "reset" /\ seen[t] # "sessions"  -> r \in Unused(db, op[t].user)
           [] OTHER                                          -> r \in Table(db, "session") /\ db[r].user = op[t].user
  /\ TokensFit(t)

(* Organizations and tokens are numbered.                                  *)
IdsInv ==
  /\ \A r \in DOMAIN db : r[1] = "org" => r[2] \in Nat
  /\ \A r \in DOMAIN db : r[1] = "token" => r[2] <= New(MaxTx)

WInv == BInv /\ IdsInv /\ \A t \in Tx : LockInv(t) /\ PlaceInv(t)

-----------------------------------------------------------------------------
(* Who waits for whom.                                                     *)

(* A reset that is going through the tokens; whoever sweeps the sessions.  *)
SweepsTokens(t)   == pc[t] = "sweep" /\ op[t].kind = "reset" /\ seen[t] # "sessions"
SweepsSessions(t) == pc[t] = "sweep" /\ op[t].kind \in {"off", "changing", "reset"} /\ ~SweepsTokens(t)

(* What a transaction wants, by its place. *)
LEMMA WantsAt ==
  ASSUME WInv, NEW t \in Tx, NEW w \in Wants(t)
  PROVE  \/ pc[t] = "org" /\ w[1][1] = "org"
         \/ pc[t] = "orgs" /\ w[1] = First(todo[t]) /\ w[1] \in todo[t] /\ w[1][1] = "org" /\ w[1][2] \in Nat
            /\ \A s \in todo[t] : w[1][2] <= s[2]
         \/ pc[t] = "member" /\ (w[1] = Org(op[t].org) \/ w[1] = Target(t))
         \/ pc[t] \in {"account", "restore", "change", "switch", "password", "failed", "success", "holder", "insert", "revoke"}
            /\ w[1][1] \in {"user", "member", "session"}
         \/ pc[t] = "token" /\ w[1] = op[t].token /\ w[1][1] = "token"
         \/ pc[t] = "sweep" /\ todo[t] # {} /\ w[1] = First(todo[t]) /\ w[1] \in todo[t] /\ w[1][2] \in Nat
            /\ \A s \in todo[t] : w[1][2] <= s[2]
<1>1. BInv /\ AInv /\ Typed(db) /\ PlaceInv(t) /\ TxInv(t)
  BY DEF WInv, BInv, AInv
<1>2. CASE pc[t] = "orgs"
  <2>1. todo[t] # {} /\ \A r \in todo[t] : r \in DOMAIN db /\ r[1] = "org"
    BY <1>1, <1>2 DEF PlaceInv, Table
  <2>2. \A r \in todo[t] : r[2] \in Nat
    BY <2>1 DEF WInv, IdsInv
  <2>3. w[1] = First(todo[t])
    BY <1>2 DEF Wants, NextOwned
  <2> QED BY <1>2, <2>1, <2>2, <2>3, FirstIsLeast
<1>3. CASE pc[t] = "sweep"
  <2>1. \A r \in todo[t] : r \in DOMAIN db /\ r[1] \in {"session", "token"}
    BY <1>1, <1>3 DEF TxInv, Sweeps, Table
  <2>2. \A r \in todo[t] : r[2] \in Nat
    BY <1>1, <2>1, RowsFit
  <2>3. todo[t] # {} /\ w[1] = First(todo[t])
    BY <1>3 DEF Wants
  <2> QED BY <1>3, <2>2, <2>3, FirstIsLeast
<1>4. CASE pc[t] = "token"
  <2>1. w[1] = op[t].token
    BY <1>4 DEF Wants, TokenLock
  <2>2. op[t].token[1] = "token"
    BY <1>1, <1>4 DEF PlaceInv, TxInv, About, Table
  <2> QED BY <1>4, <2>1, <2>2
<1>5. CASE pc[t] = "revoke"
  <2>1. w[1] = op[t].session
    BY <1>5 DEF Wants
  <2>2. op[t].kind = "logout"
    BY <1>1, <1>5 DEF PlaceInv
  <2>3. op[t].session[1] = "session"
    BY <1>1, <2>2 DEF TxInv, About, Table
  <2> QED BY <1>5, <2>1, <2>3
<1>6. CASE pc[t] \notin {"orgs", "sweep", "token", "revoke"}
  BY <1>6, RowNames DEF Wants, AccountLock, Target
<1> QED BY <1>2, <1>3, <1>4, <1>5, <1>6

(* Who sweeps sessions has their account, and waits for nobody; nor does   *)
(* one that is to commit.                                                  *)
LEMMA NobodyBefore ==
  ASSUME WInv, NEW t \in Tx, NEW u \in Tx, SweepsSessions(t) \/ pc[t] = "commit"
  PROVE  ~Blocks(u, t)
<1> SUFFICES ASSUME Blocks(u, t) PROVE FALSE
  OBVIOUS
<1>1. u # t /\ Exclusion /\ LockInv(u) /\ PlaceInv(t) /\ PlaceInv(u)
  BY DEF Blocks, HoldsUp, WInv, BInv, AInv
<1>2. PICK h \in lock[u], w \in Wants(t) : Conflict(h, w)
  BY DEF Blocks, HoldsUp
<1>3. pc[t] # "commit"
  BY <1>2 DEF Wants
<1>4. SweepsSessions(t) /\ w[1] \in todo[t] /\ h[1] = w[1]
  BY <1>2, <1>3, WantsAt DEF SweepsSessions, SweepsTokens, Conflict
<1>5. h[1] \in Table(db, "session") /\ db[h[1]].user = op[t].user
  BY <1>1, <1>4 DEF PlaceInv, SweepsSessions, SweepsTokens
<1>6. pc[u] \in {"sweep", "commit"} /\ op[u].kind \in {"off", "changing", "reset"} /\ op[u].user = op[t].user
  BY <1>1, <1>5 DEF LockInv, LockAt, Table
<1>7. Has(lock[t], Target(t)) /\ Has(lock[u], Target(u)) /\ Target(u) = Target(t)
  BY <1>1, <1>4, <1>6 DEF PlaceInv, SweepsSessions, Has, Target
<1> QED BY <1>1, <1>7, OneHasIt

(* Who has an account waits for nobody, but a reset among the tokens. *)
LEMMA AccountHolder ==
  ASSUME WInv, NEW t \in Tx, NEW u \in Tx, ~SweepsTokens(t), NEW h \in lock[t], h[1][1] \in {"user", "member", "session"}
  PROVE  ~Blocks(u, t)
<1>1. LockInv(t) /\ PlaceInv(t) /\ MemberInv(t) /\ Shape /\ Exclusion
  BY DEF WInv, BInv, AInv
<1>2. CASE pc[t] = "member"
  <2> SUFFICES ASSUME Blocks(u, t) PROVE FALSE
    OBVIOUS
  <2>1. h[1][1] = "user"
    BY <1>1, <1>2 DEF LockInv, LockAt
  <2>2. <<Target(t), Update>> \in lock[t]
    BY <1>1, <1>2, <2>1 DEF LockInv, LockAt
  <2>3. <<Org(op[t].org), Update>> \in lock[t]
    BY <1>1, <1>2 DEF MemberInv, PlaceInv, MemberKinds
  <2>4. PICK k \in lock[u], w \in Wants(t) : Conflict(k, w) /\ u # t
    BY DEF Blocks, HoldsUp
  <2>5. k[1] \in {Org(op[t].org), Target(t)}
    BY <1>2, <2>4, WantsAt DEF Conflict
  <2> QED BY <1>1, <2>2, <2>3, <2>4, <2>5, AloneOnRow
<1>3. CASE pc[t] # "member"
  <2>1. SweepsSessions(t) \/ pc[t] = "commit"
    BY <1>1, <1>3 DEF LockInv, LockAt, SweepsSessions
  <2> QED BY <2>1, NobodyBefore
<1> QED BY <1>2, <1>3

(* In a circle without such a reset every one waits for an organization or *)
(* for a token, and those that others wait for are locking them in the     *)
(* order of their numbers.                                                 *)
Climbs(t, u, place, kind) ==
  /\ pc[u] = place /\ op[u].kind = kind /\ todo[u] # {} /\ First(todo[u])[2] \in Nat
  /\ pc[t] = place /\ op[t].kind = kind => First(todo[t])[2] < First(todo[u])[2]
Onwards(t, u) ==
  \/ pc[t] \in {"org", "orgs"} /\ Climbs(t, u, "orgs", "off")
  \/ pc[t] \in {"token", "sweep"} /\ Climbs(t, u, "sweep", "request")
LEMMA CircleClimbs ==
  ASSUME WInv, NEW S \in SUBSET Tx, Circle(S), \A t \in S : ~SweepsTokens(t), NEW t \in S
  PROVE  \E u \in S : Onwards(t, u)
<1>1. \A x \in S : \E u \in S : Blocks(u, x)
  BY DEF Circle
<1>2. \A x \in S : x \in Tx /\ pc[x] # "commit" /\ ~SweepsSessions(x)
  BY <1>1, NobodyBefore
<1>3. \A x \in S : \A h \in lock[x] : h[1][1] \notin {"user", "member", "session"}
  BY <1>1, AccountHolder
<1>4. \A x \in S : LockInv(x) /\ PlaceInv(x) /\ MemberInv(x) /\ Shape /\ Exclusion
  BY <1>2 DEF WInv, BInv, AInv
<1>5. ASSUME NEW x \in S
      PROVE  \E u \in S : \E h \in lock[u], w \in Wants(x) :
               /\ h[1] = w[1] /\ w[1][1] \notin {"user", "member", "session"}
               /\ pc[x] \in {"org", "orgs", "token"} \/ (pc[x] = "sweep" /\ op[x].kind = "request")
  <2>1. PICK u \in S : Blocks(u, x)
    BY <1>1
  <2>2. PICK h \in lock[u], w \in Wants(x) : h[1] = w[1] /\ u # x
    BY <2>1 DEF Blocks, HoldsUp, Conflict
  <2>3. w[1][1] \notin {"user", "member", "session"}
    BY <1>3, <2>2
  <2>4. pc[x] # "member"
    <3> SUFFICES ASSUME pc[x] = "member" PROVE FALSE
      OBVIOUS
    <3>1. <<Org(op[x].org), Update>> \in lock[x]
      BY <1>4 DEF MemberInv, PlaceInv, MemberKinds
    <3>2. w[1] = Org(op[x].org)
      BY <1>2, <2>3, WantsAt, RowNames DEF Target
    <3> QED BY <1>2, <1>4, <2>2, <3>1, <3>2, AloneOnRow
  <2>5. pc[x] = "sweep" => op[x].kind = "request"
    BY <1>2, <1>4 DEF PlaceInv, SweepsSessions
  <2>6. pc[x] \in {"org", "orgs", "token", "sweep"}
    BY <1>2, <2>3, <2>4, WantsAt
  <2> QED BY <2>2, <2>3, <2>5, <2>6
<1>6. PICK u \in S : \E h \in lock[u], w \in Wants(t) :
        /\ h[1] = w[1]
        /\ pc[t] \in {"org", "orgs", "token"} \/ (pc[t] = "sweep" /\ op[t].kind = "request")
  BY <1>5
<1> PICK h \in lock[u], w \in Wants(t) :
        /\ h[1] = w[1]
        /\ pc[t] \in {"org", "orgs", "token"} \/ (pc[t] = "sweep" /\ op[t].kind = "request")
  BY <1>6
<1>7. PICK k \in Wants(u) : pc[u] \in {"org", "orgs", "token"} \/ (pc[u] = "sweep" /\ op[u].kind = "request")
  BY <1>5
<1>8. t \in Tx /\ u \in Tx /\ lock[u] # {}
  BY <1>6
<1>9. CASE pc[t] \in {"org", "orgs"}
  <2>1. w[1][1] = "org" /\ (pc[t] = "orgs" => w[1] = First(todo[t]))
    BY <1>8, <1>9, WantsAt
  <2>2. op[u].kind \in MemberKinds \cup {"off"} /\ (pc[u] = "orgs" => \A s \in todo[u] : w[1][2] < s[2])
    BY <1>4, <1>6, <2>1 DEF LockInv, LockAt
  <2>3. pc[u] = "orgs" /\ op[u].kind = "off"
    BY <1>4, <1>7, <1>8, <2>2 DEF PlaceInv, MemberKinds
  <2>4. k[1] = First(todo[u]) /\ k[1] \in todo[u] /\ k[1][2] \in Nat
    BY <1>8, <2>3, WantsAt
  <2> QED BY <1>9, <2>1, <2>2, <2>3, <2>4 DEF Climbs, Onwards
<1>10. CASE pc[t] \in {"token", "sweep"}
  <2>1. w[1][1] = "token" /\ (pc[t] = "sweep" => w[1] = First(todo[t]))
    <3>1. CASE pc[t] = "token"
      BY <1>8, <3>1, WantsAt
    <3>2. CASE pc[t] = "sweep"
      <4>1. w[1] = First(todo[t]) /\ w[1] \in todo[t]
        BY <1>8, <3>2, WantsAt
      <4> QED BY <1>4, <1>6, <3>2, <4>1 DEF PlaceInv, Table
    <3> QED BY <1>10, <3>1, <3>2
  <2>2. /\ pc[u] \in {"holder", "sweep", "insert", "commit"}
        /\ pc[u] = "sweep" /\ op[u].kind = "request" => \A s \in todo[u] : w[1][2] < s[2]
    BY <1>4, <1>6, <2>1 DEF LockInv, LockAt
  <2>3. pc[u] = "sweep" /\ op[u].kind = "request"
    BY <1>7, <2>2
  <2>4. k[1] = First(todo[u]) /\ k[1] \in todo[u] /\ k[1][2] \in Nat
    BY <1>8, <2>3, WantsAt
  <2> QED BY <1>10, <2>1, <2>2, <2>3, <2>4 DEF Climbs, Onwards
<1> QED BY <1>6, <1>9, <1>10

(* Which does not go round in a circle. *)
LEMMA NoClimb ==
  ASSUME NEW S \in SUBSET Tx, NEW place, NEW kind, NEW s \in S, pc[s] = place, op[s].kind = kind,
         todo[s] # {}, First(todo[s])[2] \in Nat,
         \A t \in S : pc[t] = place /\ op[t].kind = kind => \E u \in S : Climbs(t, u, place, kind)
  PROVE  FALSE
<1> DEFINE T == {t \in S : pc[t] = place /\ op[t].kind = kind /\ todo[t] # {} /\ First(todo[t])[2] \in Nat}
           f == [t \in Tx |-> First(todo[t])[2]]
<1>1. T \in SUBSET (1..MaxTx) /\ T # {} /\ MaxTx \in Nat /\ \A t \in T : f[t] \in Nat /\ f[t] = First(todo[t])[2]
  BY AccountsAssumption DEF Tx
<1> HIDE DEF f
<1>2. PICK g \in T : \A t \in T : f[t] <= f[g]
  <2> HIDE DEF T
  <2> QED BY <1>1, GreatestOf
<1>3. PICK u \in S : Climbs(g, u, place, kind)
  BY <1>2
<1>4. u \in T /\ f[g] < f[u]
  BY <1>1, <1>2, <1>3 DEF Climbs
<1> QED BY <1>1, <1>2, <1>4

(* So every circle has a reset that is going through the tokens. *)
LEMMA CircleHasReset ==
  ASSUME WInv, NEW S \in SUBSET Tx, Circle(S)
  PROVE  \E t \in S : SweepsTokens(t)
<1> SUFFICES ASSUME \A t \in S : ~SweepsTokens(t)
             PROVE  FALSE
  OBVIOUS
<1>1. \A t \in S : \E u \in S : Onwards(t, u)
  BY CircleClimbs
<1>2. PICK t \in S : TRUE
  BY DEF Circle
<1>3. CASE pc[t] \in {"org", "orgs"}
  <2>1. PICK s \in S : Climbs(t, s, "orgs", "off")
    BY <1>1, <1>3 DEF Onwards
  <2>2. pc[s] = "orgs" /\ op[s].kind = "off" /\ todo[s] # {} /\ First(todo[s])[2] \in Nat
    BY <2>1 DEF Climbs
  <2>3. \A x \in S : pc[x] = "orgs" /\ op[x].kind = "off" => \E u \in S : Climbs(x, u, "orgs", "off")
    BY <1>1 DEF Onwards
  <2> QED BY <2>2, <2>3, NoClimb
<1>4. CASE pc[t] \in {"token", "sweep"}
  <2>1. PICK s \in S : Climbs(t, s, "sweep", "request")
    BY <1>1, <1>4 DEF Onwards
  <2>2. pc[s] = "sweep" /\ op[s].kind = "request" /\ todo[s] # {} /\ First(todo[s])[2] \in Nat
    BY <2>1 DEF Climbs
  <2>3. \A x \in S : pc[x] = "sweep" /\ op[x].kind = "request" => \E u \in S : Climbs(x, u, "sweep", "request")
    BY <1>1 DEF Onwards
  <2> QED BY <2>2, <2>3, NoClimb
<1> QED BY <1>1, <1>3, <1>4 DEF Onwards

(* Two things are two. *)
LEMMA TwoOf ==
  ASSUME NEW T, IsFiniteSet(T), NEW a \in T, NEW b \in T, a # b
  PROVE  Cardinality(T) >= 2
<1>1. IsFiniteSet({a}) /\ Cardinality({a}) = 1
  BY FS_Singleton
<1>2. IsFiniteSet({a} \cup {b}) /\ Cardinality({a} \cup {b}) = 2
  <2> b \notin {a}
    OBVIOUS
  <2>1. IsFiniteSet({a} \cup {b}) /\ (b \in {a} \/ Cardinality({a} \cup {b}) = Cardinality({a}) + 1)
    BY <1>1, FS_AddElement
  <2> QED BY <1>1, <2>1
<1>3. {a} \cup {b} \subseteq T
  OBVIOUS
<1>4. Cardinality({a} \cup {b}) <= Cardinality(T) /\ Cardinality(T) \in Nat
  BY <1>3, FS_Subset, FS_CardinalityType
<1> QED BY <1>2, <1>4

(* The tokens there are are finitely many. *)
LEMMA TokensAreFinite ==
  ASSUME WInv, NEW u
  PROVE  IsFiniteSet(Unused(db, u))
<1> DEFINE top == New(MaxTx)
           ids == 0..top
           f == [n \in ids |-> <<"token", n>>]
           all == {f[n] : n \in ids}
<1>1. top \in Nat
  BY AccountsAssumption DEF New, Past
<1>2. IsFiniteSet(ids)
  BY <1>1, FS_Interval
<1>3. f \in Surjection(ids, all)
  BY DEF Surjection
<1>4. IsFiniteSet(all)
  <2> HIDE DEF f, all, ids
  <2> QED BY <1>2, <1>3, FS_Surjection
<1>5. Unused(db, u) \subseteq all
  <2> SUFFICES ASSUME NEW r \in Unused(db, u)
               PROVE  r \in all
    OBVIOUS
  <2>1. r \in DOMAIN db /\ r[1] = "token"
    BY DEF Unused, Table
  <2>2. r = <<"token", r[2]>> /\ r[2] \in Nat
    BY <2>1, RowsFit DEF WInv, BInv, AInv
  <2>3. r[2] <= top
    BY <2>1 DEF WInv, IdsInv
  <2>4. r[2] \in ids
    BY <1>1, <2>2, <2>3
  <2> QED BY <2>2, <2>4
<1> HIDE DEF all
<1> QED BY <1>4, <1>5, FS_Subset

(* A reset waits there only where its person has another unused token.     *)
LEMMA ResetHasTwo ==
  ASSUME WInv, NEW t \in Tx, SweepsTokens(t), NEW u \in Tx, Blocks(u, t)
  PROVE  Cardinality(Unused(db, op[t].user)) >= 2
<1>1. Shape /\ Exclusion /\ TxInv(t) /\ PlaceInv(t)
  BY DEF WInv, BInv, AInv
<1>2. PICK h \in lock[u], w \in Wants(t) : h[1] = w[1] /\ u # t
  BY DEF Blocks, HoldsUp, Conflict
<1>3. w[1] \in todo[t]
  BY <1>2, WantsAt DEF SweepsTokens
<1>4. w[1] \in Unused(db, op[t].user)
  BY <1>1, <1>3 DEF PlaceInv, SweepsTokens
<1>5. op[t].token \in Unused(db, op[t].user) /\ <<op[t].token, Update>> \in lock[t]
  BY <1>1 DEF TxInv, About, Sweeps, SweepsTokens, Unused
<1>6. op[t].token # w[1]
  BY <1>1, <1>2, <1>5, AloneOnRow
<1> QED BY <1>4, <1>5, <1>6, TokensAreFinite, TwoOf

(* Who waits for each other in a circle: a reset among them whose person   *)
(* has two unused tokens.                                                  *)
LEMMA CirclesAreKnown == WInv => OnlyResetCircles
<1> SUFFICES ASSUME WInv, NEW S \in SUBSET {t \in Tx : Running(t)}, Circle(S)
             PROVE  \E t \in S : op[t].kind = "reset" /\ Cardinality(Unused(db, op[t].user)) >= 2
  BY DEF OnlyResetCircles
<1>1. PICK t \in S : SweepsTokens(t)
  BY CircleHasReset
<1>2. PICK u \in S : Blocks(u, t)
  BY DEF Circle
<1>3. t \in Tx /\ u \in Tx /\ op[t].kind = "reset"
  BY <1>1 DEF SweepsTokens
<1>4. Cardinality(Unused(db, op[t].user)) >= 2
  BY <1>1, <1>2, <1>3, ResetHasTwo
<1> QED BY <1>3, <1>4

-----------------------------------------------------------------------------
(* What others do.                                                         *)

(* What the locks of a transaction rest on.                                *)
Steady(u) ==
  /\ DOMAIN db \subseteq DOMAIN db'
  /\ \A r \in DOMAIN db : r[1] \in {"session", "token"} => db'[r].user = db[r].user
  /\ \A r \in DOMAIN db' : r[1] = "token" /\ r \notin DOMAIN db => r # <<"token", New(u)>>
  /\ SweepsTokens(u) => \A r \in todo[u] : r \in Unused(db, op[u].user) => db'[r].state # "used"

LEMMA LocksStay ==
  ASSUME NEW u \in Tx, TxInv(u), LockInv(u), PlaceInv(u), Stays(u), Steady(u)
  PROVE  LockInv(u)' /\ PlaceInv(u)'
<1>1. /\ op'[u] = op[u] /\ pc'[u] = pc[u] /\ seen'[u] = seen[u] /\ todo'[u] = todo[u]
      /\ put'[u] = put[u] /\ lock'[u] = lock[u] /\ Target(u)' = Target(u) /\ (SweepsTokens(u)' <=> SweepsTokens(u))
  BY DEF Stays, Target, SweepsTokens
<1>2. /\ \A r \in DOMAIN db : r \in DOMAIN db'
      /\ \A r \in DOMAIN db : r[1] \in {"session", "token"} => db'[r].user = db[r].user
  BY DEF Steady
<1>3. LockInv(u)'
  BY <1>1, <1>2 DEF LockInv, LockAt
<1>4. ASSUME pc[u] = "sweep", NEW r \in todo[u]
      PROVE  CASE op[u].kind = "request"                         -> r \in Table(db, "token")' /\ db'[r].user = op[u].user
               [] op[u].kind = "reset" /\ seen[u] # "sessions"  -> r \in Unused(db', op[u].user)
               [] OTHER                                          -> r \in Table(db, "session")' /\ db'[r].user = op[u].user
  <2>1. CASE op[u].kind = "request"
    <3>1. r \in Table(db, "token") /\ db[r].user = op[u].user
      BY <1>4, <2>1 DEF PlaceInv
    <3> QED BY <1>2, <2>1, <3>1 DEF Table
  <2>2. CASE op[u].kind = "reset" /\ seen[u] # "sessions"
    <3>1. r \in Unused(db, op[u].user)
      BY <1>4, <2>2 DEF PlaceInv
    <3>2. db'[r].state # "used"
      BY <1>4, <2>2, <3>1 DEF Steady, SweepsTokens
    <3> QED BY <1>2, <2>2, <3>1, <3>2 DEF Unused, Table
  <2>3. CASE ~(op[u].kind = "request") /\ ~(op[u].kind = "reset" /\ seen[u] # "sessions")
    <3>1. r \in Table(db, "session") /\ db[r].user = op[u].user
      BY <1>4, <2>3 DEF PlaceInv
    <3> QED BY <1>2, <2>3, <3>1 DEF Table
  <2> QED BY <2>1, <2>2, <2>3
<1>5. ASSUME NEW r \in DOMAIN put[u] \cap DOMAIN db', r[1] = "token"
      PROVE  op[u].kind \in {"request", "reset"} /\ db'[r].user = op[u].user
  <2>1. r \in DOMAIN db
    BY <1>5 DEF TxInv, Writes, Own, Steady
  <2> QED BY <1>2, <1>5, <2>1 DEF PlaceInv, TokensFit
<1>6. pc[u] = "orgs" => todo[u] \subseteq Table(db, "org")'
  BY <1>2 DEF PlaceInv, Table
<1> QED BY <1>1, <1>3, <1>4, <1>5, <1>6 DEF PlaceInv, TokensFit

(* A database that does not change is steady. *)
LEMMA SameIsSteady ==
  ASSUME db' = db, NEW u
  PROVE  Steady(u)
BY DEF Steady, Unused

(* Neither does one account or session disturb it. *)
LEMMA RowIsSteady ==
  ASSUME NEW r, NEW v, db' = Over(One(r, v), db), r[1] \in {"user", "session"},
         r[1] = "session" /\ r \in DOMAIN db => v.user = db[r].user
  PROVE  /\ \A u : Steady(u)
         /\ \A x \in DOMAIN db' : x[1] \in {"org", "token"} => x \in DOMAIN db
<1>1. DOMAIN db' = DOMAIN db \cup {r} /\ db'[r] = v /\ \A x \in DOMAIN db : x # r => db'[x] = db[x]
  <2>1. db' = Over(One(r, v), db)
    OBVIOUS
  <2> QED BY ONLY <2>1 DEF Over, One
<1>2. \A u : \A x \in Unused(db, u) : x \in DOMAIN db /\ x # r /\ db[x].state # "used"
  BY DEF Unused, Table
<1>3. \A x \in DOMAIN db : x[1] \in {"session", "token"} => db'[x].user = db[x].user
  BY <1>1
<1> QED BY <1>1, <1>2, <1>3 DEF Steady

(* Nor do the statements that are transactions of their own. *)
LEMMA NowIsSteady ==
  ASSUME AInv, NEW t \in Tx, Committing(t)
  PROVE  /\ \A u : Steady(u)
         /\ \A x \in DOMAIN db' : x[1] \in {"org", "token"} => x \in DOMAIN db
<1>1. ASSUME LoginFailed(t) \/ LoginSucceeded(t)
      PROVE  \E v : db' = Over(One(Target(t), v), db)
  BY <1>1 DEF LoginFailed, LoginSucceeded, Now
<1>2. CASE LoginFailed(t) \/ LoginSucceeded(t)
  <2>1. PICK v : db' = Over(One(Target(t), v), db)
    BY <1>1, <1>2
  <2>2. Target(t)[1] = "user"
    BY RowNames DEF Target
  <2> QED BY <2>1, <2>2, RowIsSteady
<1>3. CASE CreateSession(t)
  <2> DEFINE r == <<"session", New(t)>>
             v == [user |-> op[t].user, proof |-> op[t].password, by |-> t, revoked |-> FALSE]
  <2>1. db' = Over(One(r, v), db) /\ pc[t] = "insert"
    BY <1>3 DEF CreateSession, Now, At
  <2>2. r[1] = "session" /\ r \notin DOMAIN db
    BY <2>1 DEF AInv, TxInv, Fresh
  <2> HIDE DEF r, v
  <2> QED BY <2>1, <2>2, RowIsSteady
<1>4. CASE Logout(t)
  <2> DEFINE r == op[t].session
  <2>1. db' = Over(One(r, Gone(db[r])), db) /\ op[t].kind = "logout"
    BY <1>4 DEF Logout, Now, At
  <2>2. r \in DOMAIN db /\ r[1] = "session"
    BY <2>1 DEF AInv, TxInv, About, Table
  <2>3. Gone(db[r]).user = db[r].user
    BY <2>2, RowsFit, GoneRow DEF AInv
  <2> HIDE DEF r
  <2> QED BY <2>1, <2>2, <2>3, RowIsSteady
<1> QED BY <1>2, <1>3, <1>4 DEF Committing

(* Nor does time. *)
LEMMA TimeIsSteady ==
  ASSUME AInv, TimePasses
  PROVE  DOMAIN db' = DOMAIN db /\ \A u : Steady(u)
<1>1. PICK r \in DOMAIN db :
        \/ r[1] = "user" /\ db' = [db EXCEPT ![r].locked = FALSE]
        \/ r[1] = "token" /\ db' = [db EXCEPT ![r].state = "expired"]
  BY DEF TimePasses
<1>2. db = [x \in DOMAIN db |-> db[x]] /\ Fits(r, db[r])
  BY RowsFit DEF AInv, Typed
<1>3. DOMAIN db' = DOMAIN db /\ \A x \in DOMAIN db : x # r => db'[x] = db[x]
  BY <1>1, <1>2
<1>4. r[1] = "token" => db'[r].user = db[r].user /\ db'[r].state = "expired"
  <2> SUFFICES ASSUME r[1] = "token"
               PROVE  db'[r].user = db[r].user /\ db'[r].state = "expired"
    OBVIOUS
  <2>1. db[r] = [user |-> db[r].user, state |-> db[r].state, spent |-> db[r].spent]
    BY <1>2 DEF Fits
  <2>2. db'[r] = [db[r] EXCEPT !.state = "expired"]
    BY <1>1, <1>2
  <2> QED BY <2>1, <2>2
<1>5. \A x \in DOMAIN db : x[1] \in {"session", "token"} => db'[x].user = db[x].user
  BY <1>1, <1>3, <1>4
<1>6. \A u : \A x \in Unused(db, u) : x \in DOMAIN db /\ x[1] = "token" /\ db[x].state # "used"
  BY DEF Unused, Table
<1>7. \A u : \A x \in Unused(db, u) : db'[x].state # "used"
  BY <1>1, <1>3, <1>4, <1>6
<1> QED BY <1>3, <1>5, <1>7 DEF Steady

(* Nor does another's commit: who uses up tokens has the account, which a  *)
(* reset does not share.                                                   *)
LEMMA CommitIsSteady ==
  ASSUME WInv, NEW t \in Tx, Commit(t), NEW u \in Tx, u # t
  PROVE  Steady(u)
<1>1. /\ AInv /\ Exclusion /\ PlaceInv(t) /\ PlaceInv(u) /\ TxInv(u) /\ Writes(t) /\ pc[t] = "commit"
      /\ DOMAIN db' = DOMAIN put[t] \cup DOMAIN db
      /\ \A r \in DOMAIN put[t] : db'[r] = put[t][r]
      /\ \A r \in DOMAIN db : r \notin DOMAIN put[t] => db'[r] = db[r]
  BY RowsAfterCommit DEF WInv, BInv, AInv, TxInv, Commit
<1>2. \A r \in DOMAIN db : r[1] \in {"session", "token"} => db'[r].user = db[r].user
  BY <1>1 DEF Writes, Own
<1>3. \A r \in DOMAIN db' : r[1] = "token" /\ r \notin DOMAIN db => r # <<"token", New(u)>>
  <2>1. New(t) # New(u)
    BY NewIsNew
  <2> QED BY <1>1, <2>1 DEF Writes, Own
<1>4. ASSUME SweepsTokens(u), NEW r \in todo[u], r \in Unused(db, op[u].user)
      PROVE  db'[r].state # "used"
  <2>1. r \in DOMAIN db /\ r[1] = "token" /\ db[r].user = op[u].user /\ db[r].state # "used"
    BY <1>4 DEF Unused, Table
  <2>2. r \notin DOMAIN put[t]
    <3> SUFFICES ASSUME r \in DOMAIN put[t] PROVE FALSE
      OBVIOUS
    <3>1. op[t].kind \in {"request", "reset"} /\ op[t].user = op[u].user
      BY <1>1, <2>1 DEF PlaceInv, TokensFit
    <3>2. \E m \in {KeyShare, Update} : <<Target(t), m>> \in lock[t]
      BY <1>1, <3>1 DEF PlaceInv
    <3>3. <<Target(t), Update>> \in lock[u]
      BY <1>1, <1>4, <3>1 DEF PlaceInv, SweepsTokens, Target
    <3>4. \A m \in {KeyShare, Update} : m + Update > 4
      BY DEF KeyShare, Update
    <3> QED BY <1>1, <3>2, <3>3, <3>4, ExclusiveRow
  <2> QED BY <1>1, <2>1, <2>2
<1> QED BY <1>1, <1>2, <1>3, <1>4 DEF Steady

-----------------------------------------------------------------------------
(* A statement and its own transaction.                                    *)

(* What it holds and what it takes. *)
LEMMA LocksFit ==
  ASSUME NEW t \in Tx, lock'[t] = lock[t] \cup Wants(t),
         \A h \in lock[t] : LockAt(t, h)', \A h \in Wants(t) : LockAt(t, h)'
  PROVE  LockInv(t)'
BY DEF LockInv

(* Whoever writes no token that is there *)
LEMMA NoTokenWritten ==
  ASSUME NEW t \in Tx, TokensFit(t), db' = db, op' = op, NEW rows, put'[t] = Over(rows, put[t]),
         \A r \in DOMAIN rows \cap DOMAIN db : r[1] # "token"
  PROVE  TokensFit(t)'
<1>1. put'[t] = Over(rows, put[t])
  OBVIOUS
<1>2. DOMAIN put'[t] = DOMAIN rows \cup DOMAIN put[t]
  BY ONLY <1>1 DEF Over
<1> QED BY <1>2 DEF TokensFit

(* One row is one. *)
LEMMA OneRowOf ==
  ASSUME NEW r, NEW v
  PROVE  DOMAIN One(r, v) = {r}
BY DEF One

(* and the statements are such, but for those of a reset and the sweeps.   *)
LEMMA StatementTokens ==
  ASSUME WInv, NEW t \in Tx, Step(t), ~Committing(t)
  PROVE  TokensFit(t)'
<1>1. /\ db' = db /\ op' = op /\ pc[t] # "commit" /\ TokensFit(t) /\ AInv /\ Shape /\ TxInv(t) /\ PlaceInv(t)
      /\ put[t] = [r \in DOMAIN put[t] |-> put[t][r]]
  BY StatementOf DEF WInv, BInv, AInv, Shape, PlaceInv, TokensFit
<1>2. ASSUME put'[t] = Over(<<>>, put[t])
      PROVE  TokensFit(t)'
  BY <1>1, <1>2, NoTokenWritten
<1>3. ASSUME OrgLocked(t) \/ CheckTarget(t) \/ LockOwned(t) \/ Recheck(t) \/ Login(t) \/ CheckPassword(t)
             \/ Request(t) \/ ResetToken(t) \/ SweepEnd(t)
      PROVE  put'[t] = Over(<<>>, put[t])
  BY <1>1, <1>3 DEF OrgLocked, CheckTarget, LockOwned, Recheck, Login, CheckPassword, Request, ResetToken, SweepEnd,
                    Go, GoOn, Sweep, Find, Take, Shape
<1>4. ASSUME ReadOwned(t)
      PROVE  TokensFit(t)'
  BY <1>1, <1>4 DEF ReadOwned, TokensFit
<1>5. ASSUME CreateAccount(t)
      PROVE  TokensFit(t)'
  <2> DEFINE rows == IF Exists(db, op[t].user) THEN <<>> ELSE One(Target(t), NewAccount)
  <2>1. put'[t] = Over(rows, put[t])
    BY <1>1, <1>5 DEF CreateAccount, Go, GoOn, Take, Shape
  <2>2. \A r \in DOMAIN rows : r = Target(t)
    BY DEF One
  <2>3. Target(t)[1] = "user"
    BY RowNames DEF Target
  <2> HIDE DEF rows
  <2> QED BY <1>1, <2>1, <2>2, <2>3, NoTokenWritten
<1>6. ASSUME NEW r, NEW v, r[1] # "token" \/ r \notin DOMAIN db, put'[t] = Over(One(r, v), put[t])
      PROVE  TokensFit(t)'
  <2>1. \A x \in DOMAIN One(r, v) \cap DOMAIN db : x[1] # "token"
    <3>1. DOMAIN One(r, v) = {r}
      BY OneRowOf
    <3> QED BY <1>6, <3>1
  <2> QED BY ONLY <1>1, <1>6, <2>1, NoTokenWritten
<1>7. ASSUME AddMember(t) \/ ChangeMember(t)
      PROVE  TokensFit(t)'
  <2> DEFINE r == Member(op[t].org, op[t].user)
  <2>1. \E v : put'[t] = Over(One(r, v), put[t])
    BY <1>1, <1>7 DEF AddMember, ChangeMember, Go, GoOn, Take, Shape
  <2>2. r[1] # "token"
    BY RowNames
  <2> HIDE DEF r
  <2> QED BY <1>6, <2>1, <2>2
<1>8. ASSUME Switch(t) \/ ChangePassword(t)
      PROVE  TokensFit(t)'
  <2>1. \E v : put'[t] = Over(One(Target(t), v), put[t])
    BY <1>1, <1>8 DEF Switch, ChangePassword, Go, GoOn, Sweep, Find, Take, Shape
  <2>2. Target(t)[1] # "token"
    BY RowNames DEF Target
  <2> QED BY <1>6, <2>1, <2>2
<1>9. ASSUME CreateToken(t)
      PROVE  TokensFit(t)'
  <2> DEFINE r == <<"token", New(t)>>
  <2>1. \E v : put'[t] = Over(One(r, v), put[t])
    BY <1>1, <1>9 DEF CreateToken, Go, GoOn, Take, Shape
  <2>2. r \notin DOMAIN db
    BY <1>1, <1>9 DEF CreateToken, At, TxInv, Fresh
  <2> HIDE DEF r
  <2> QED BY <1>6, <2>1, <2>2
<1>10. ASSUME ResetPassword(t)
       PROVE  TokensFit(t)'
  <2>1. op[t].kind = "reset" /\ db[op[t].token].user = op[t].user
    BY <1>1, <1>10 DEF ResetPassword, At, TxInv, About
  <2>2. PICK v, w : put'[t] = Over(Over(One(Target(t), v), One(op[t].token, w)), put[t])
    BY <1>1, <1>10 DEF ResetPassword, Sweep, Find, Take, Shape
  <2>3. DOMAIN put'[t] = {Target(t), op[t].token} \cup DOMAIN put[t]
    BY ONLY <2>2 DEF Over, One
  <2>4. Target(t)[1] = "user"
    BY RowNames DEF Target
  <2> QED BY <1>1, <2>1, <2>3, <2>4 DEF TokensFit
<1>11. ASSUME SweepRow(t)
       PROVE  TokensFit(t)'
  <2> DEFINE r == First(todo[t])
             rows == IF Open(View(t), r) THEN One(r, Gone(View(t)[r])) ELSE <<>>
  <2>1. put'[t] = Over(rows, put[t]) /\ pc[t] = "sweep" /\ todo[t] # {}
    BY <1>1, <1>11 DEF SweepRow, At, Take, Shape
  <2>2. \A x \in DOMAIN rows : x = r
    BY DEF One
  <2>3. r \in todo[t]
    <3>1. \A x \in todo[t] : x \in DOMAIN db /\ x[1] \in {"session", "token"} /\ Typed(db)
      BY <1>1, <2>1 DEF Table, TxInv, Sweeps, AInv
    <3>2. \A x \in todo[t] : x[2] \in Nat
      BY <3>1, RowsFit
    <3> QED BY <2>1, <3>2, FirstIsOne
  <2>4. r[1] = "token" => op[t].kind \in {"request", "reset"} /\ db[r].user = op[t].user
    BY <1>1, <2>1, <2>3 DEF PlaceInv, Unused, Table
  <2>5. DOMAIN put'[t] = DOMAIN rows \cup DOMAIN put[t]
    BY ONLY <2>1 DEF Over
  <2> HIDE DEF r, rows
  <2> QED BY <1>1, <2>2, <2>4, <2>5 DEF TokensFit
<1> QED BY <1>2, <1>3, <1>4, <1>5, <1>7, <1>8, <1>9, <1>10, <1>11 DEF Step, Committing

(* The statements about members. *)
LEMMA MemberLocks ==
  ASSUME WInv, NEW t \in Tx,
         OrgLocked(t) \/ CreateAccount(t) \/ AddMember(t) \/ CheckTarget(t) \/ ChangeMember(t)
  PROVE  LockInv(t)' /\ PlaceInv(t)'
<1>1. op[t].kind \in MemberKinds /\ Step(t) /\ ~Committing(t)
  BY DEF OrgLocked, CreateAccount, AddMember, CheckTarget, ChangeMember, At, Step, Committing,
         LoginFailed, LoginSucceeded, CreateSession, Logout, MemberKinds
<1>2. /\ db' = db /\ op' = op /\ lock'[t] = lock[t] \cup Wants(t) /\ pc[t] # "commit" /\ Shape
      /\ LockInv(t) /\ PlaceInv(t) /\ TokensFit(t)'
  BY <1>1, StatementOf, StatementTokens DEF WInv, BInv, AInv
<1>3. \/ pc[t] = "org" /\ pc'[t] \in {"target", "account", "restore", "member"}
      \/ pc[t] = "account" /\ pc'[t] = "member"
      \/ pc[t] \in {"member", "restore", "change"} /\ pc'[t] = "commit"
      \/ pc[t] = "target" /\ pc'[t] = "change"
  BY <1>2 DEF OrgLocked, CreateAccount, AddMember, CheckTarget, ChangeMember, At, Go, GoOn, Shape
<1>4. pc'[t] = "member" => op[t].kind \in {"add", "first"}
  BY <1>1, <1>2 DEF OrgLocked, CreateAccount, AddMember, CheckTarget, ChangeMember, At, Go, GoOn, Shape, MemberKinds
<1>5. ASSUME NEW h \in lock[t]
      PROVE  LockAt(t, h)'
  BY <1>1, <1>2, <1>3 DEF LockInv, LockAt, PlaceInv, MemberKinds
<1>6. ASSUME NEW h \in Wants(t)
      PROVE  LockAt(t, h)'
  BY <1>1, <1>2, <1>3, RowNames DEF Wants, LockAt, Target
<1>7. LockInv(t)'
  BY <1>2, <1>5, <1>6, LocksFit
<1>8. PlaceInv(t)'
  BY <1>1, <1>2, <1>3, <1>4 DEF PlaceInv, TokensFit, MemberKinds
<1> QED BY <1>7, <1>8

(* The statements of switching an account off before it is switched. *)
LEMMA OwnedLocks ==
  ASSUME WInv, NEW t \in Tx, ReadOwned(t) \/ LockOwned(t) \/ Recheck(t)
  PROVE  LockInv(t)' /\ PlaceInv(t)'
<1>1. op[t].kind = "off" /\ Step(t) /\ ~Committing(t)
  BY DEF ReadOwned, LockOwned, Recheck, At, Step, Committing, LoginFailed, LoginSucceeded, CreateSession, Logout
<1>2. /\ db' = db /\ op' = op /\ lock'[t] = lock[t] \cup Wants(t) /\ pc[t] # "commit" /\ Shape
      /\ LockInv(t) /\ PlaceInv(t) /\ TokensFit(t)'
  BY <1>1, StatementOf, StatementTokens DEF WInv, BInv, AInv
<1>3. CASE ReadOwned(t)
  <2> DEFINE owned == Owned(db, op[t].user)
  <2>1. pc[t] = "read" /\ todo'[t] = owned /\ pc'[t] = (IF owned = {} THEN "recheck" ELSE "orgs") /\ lock'[t] = {}
    BY <1>2, <1>3 DEF ReadOwned, At, Shape, PlaceInv
  <2>2. owned \subseteq Table(db, "org")
    BY DEF Owned
  <2> HIDE DEF owned
  <2>3. LockInv(t)'
    BY <2>1 DEF LockInv
  <2>4. PlaceInv(t)'
    BY <1>1, <1>2, <2>1, <2>2 DEF PlaceInv, TokensFit
  <2> QED BY <2>3, <2>4
<1>4. CASE LockOwned(t)
  <2> DEFINE first == First(todo[t])
  <2>1. /\ pc[t] = "orgs" /\ todo'[t] = todo[t] \ {first}
        /\ pc'[t] = IF todo'[t] = {} THEN "recheck" ELSE "orgs"
    BY <1>2, <1>4 DEF LockOwned, NextOwned, At, Find, Shape
  <2>2. todo[t] # {} /\ todo[t] \subseteq Table(db, "org")
    BY <1>2, <2>1 DEF PlaceInv
  <2>3. \A x \in todo[t] : x[2] \in Nat /\ x = Org(x[2])
    BY <2>2 DEF WInv, BInv, IdsInv, OrgsNamed, Table
  <2>4. first \in todo[t] /\ \A s \in todo[t] : first[2] <= s[2]
    BY <2>2, <2>3, FirstIsLeast
  <2>5. \A s \in todo'[t] : s \in todo[t] /\ first[2] < s[2]
    <3> SUFFICES ASSUME NEW s \in todo'[t]
                 PROVE  s \in todo[t] /\ first[2] < s[2]
      OBVIOUS
    <3>1. s \in todo[t] /\ s # first
      BY <2>1
    <3>2. s[2] # first[2]
      BY <2>3, <2>4, <3>1
    <3> QED BY <2>3, <2>4, <3>1, <3>2
  <2>6. Wants(t) = {<<first, Update>>} /\ first[1] = "org"
    BY <2>1, <2>2, <2>4 DEF Wants, NextOwned, Table
  <2> HIDE DEF first
  <2>7. \A h \in Wants(t) : LockAt(t, h)'
    BY <1>1, <1>2, <2>5, <2>6 DEF LockAt
  <2>8. \A h \in lock[t] : LockAt(t, h)'
    BY <1>1, <1>2, <2>1, <2>5 DEF LockInv, LockAt
  <2>9. PlaceInv(t)'
    BY <1>1, <1>2, <2>1, <2>2, <2>5 DEF PlaceInv, TokensFit
  <2> QED BY <1>2, <2>7, <2>8, <2>9, LocksFit
<1>5. CASE Recheck(t)
  <2>1. pc[t] = "recheck" /\ pc'[t] = "switch"
    BY <1>2, <1>5 DEF Recheck, At, Go, GoOn, Shape
  <2>2. Wants(t) = {}
    BY <2>1 DEF Wants
  <2>3. \A h \in lock[t] : LockAt(t, h)'
    BY <1>1, <1>2, <2>1 DEF LockInv, LockAt
  <2>4. PlaceInv(t)'
    BY <1>1, <1>2, <2>1 DEF PlaceInv, TokensFit
  <2> QED BY <1>2, <2>2, <2>3, <2>4, LocksFit
<1> QED BY <1>3, <1>4, <1>5

(* Those that lock nothing, or one row on the way.                         *)
LEMMA PlainLocks ==
  ASSUME WInv, NEW t \in Tx, Login(t) \/ CheckPassword(t) \/ ResetToken(t) \/ CreateToken(t)
  PROVE  LockInv(t)' /\ PlaceInv(t)'
<1>1. Step(t) /\ ~Committing(t)
  BY DEF Login, CheckPassword, ResetToken, CreateToken, At, Step, Committing, LoginFailed, LoginSucceeded,
         CreateSession, Logout
<1>2. /\ db' = db /\ op' = op /\ lock'[t] = lock[t] \cup Wants(t) /\ pc[t] # "commit" /\ Shape
      /\ LockInv(t) /\ PlaceInv(t) /\ TokensFit(t)' /\ TxInv(t)
  BY <1>1, StatementOf, StatementTokens DEF WInv, BInv, AInv
<1>3. CASE Login(t) \/ CheckPassword(t)
  <2>1. /\ pc[t] = "read" /\ pc'[t] \in {"success", "failed", "password"}
        /\ op[t].kind \in {"login", "changing"}
    BY <1>2, <1>3 DEF Login, CheckPassword, At, Go, GoOn, Shape
  <2>2. lock'[t] = {}
    BY <1>2, <2>1 DEF Wants, PlaceInv
  <2>3. LockInv(t)'
    BY <2>2 DEF LockInv
  <2>4. PlaceInv(t)'
    BY <1>2, <2>1, <2>2 DEF PlaceInv, TokensFit
  <2> QED BY <2>3, <2>4
<1>4. CASE ResetToken(t)
  <2>1. pc[t] = "token" /\ pc'[t] = "holder" /\ op[t].kind = "reset"
    BY <1>2, <1>4 DEF ResetToken, At, Go, GoOn, Shape
  <2>2. Wants(t) = {<<op[t].token, Update>>} /\ op[t].token[1] = "token"
    BY <1>2, <2>1 DEF Wants, TokenLock, TxInv, About, Table
  <2>3. \A h \in lock[t] : LockAt(t, h)'
    BY <1>2, <2>1 DEF LockInv, LockAt, MemberKinds
  <2>4. \A h \in Wants(t) : LockAt(t, h)'
    BY <1>2, <2>1, <2>2 DEF LockAt
  <2>5. PlaceInv(t)'
    BY <1>2, <2>1 DEF PlaceInv, TokensFit
  <2> QED BY <1>2, <2>3, <2>4, <2>5, LocksFit
<1>5. CASE CreateToken(t)
  <2>1. pc[t] = "insert" /\ pc'[t] = "commit" /\ op[t].kind = "request"
    BY <1>2, <1>5 DEF CreateToken, At, Go, GoOn, Shape
  <2>2. Wants(t) = {<<Target(t), KeyShare>>} /\ Target(t)[1] = "user"
    BY <2>1, RowNames DEF Wants, Target
  <2>3. \A h \in lock[t] : LockAt(t, h)'
    BY <1>2, <2>1 DEF LockInv, LockAt, MemberKinds
  <2>4. \A h \in Wants(t) : LockAt(t, h)'
    BY <2>1, <2>2 DEF LockAt
  <2>5. <<Target(t), KeyShare>> \in lock'[t] /\ Target(t)' = Target(t)
    BY <1>2, <2>2 DEF Target
  <2>6. PlaceInv(t)'
    BY <1>2, <2>1, <2>5 DEF PlaceInv, TokensFit
  <2> QED BY <1>2, <2>3, <2>4, <2>6, LocksFit
<1> QED BY <1>3, <1>4, <1>5

(* Those that find what is to be swept. *)
LEMMA FoundLocks ==
  ASSUME WInv, NEW t \in Tx, Switch(t) \/ ChangePassword(t) \/ Request(t) \/ ResetPassword(t)
  PROVE  LockInv(t)' /\ PlaceInv(t)'
<1>1. Step(t) /\ ~Committing(t)
  BY DEF Switch, ChangePassword, Request, ResetPassword, At, Step, Committing, LoginFailed, LoginSucceeded,
         CreateSession, Logout
<1>2. /\ db' = db /\ op' = op /\ lock'[t] = lock[t] \cup Wants(t) /\ pc[t] # "commit" /\ Shape
      /\ LockInv(t) /\ PlaceInv(t) /\ TokensFit(t)' /\ TxInv(t) /\ Target(t)' = Target(t) /\ Target(t)[1] = "user"
  BY <1>1, RowNames, StatementOf, StatementTokens DEF WInv, BInv, AInv, Target
<1>3. CASE Switch(t) /\ op[t].kind = "on"
  <2>1. pc[t] = "switch" /\ pc'[t] = "commit"
    BY <1>2, <1>3 DEF Switch, At, Go, GoOn, Shape
  <2>2. Wants(t) = {<<Target(t), NoKeyUpdate>>}
    BY <2>1 DEF Wants, AccountLock
  <2>3. \A h \in lock[t] : LockAt(t, h)'
    BY <1>2, <1>3, <2>1 DEF LockInv, LockAt, MemberKinds
  <2>4. \A h \in Wants(t) : LockAt(t, h)'
    BY <1>2, <1>3, <2>1, <2>2 DEF LockAt
  <2>5. PlaceInv(t)'
    BY <1>2, <1>3, <2>1 DEF PlaceInv, TokensFit
  <2> QED BY <1>2, <2>3, <2>4, <2>5, LocksFit
<1>4. CASE (Switch(t) /\ op[t].kind = "off") \/ ChangePassword(t)
  <2> DEFINE found == LiveSessions(db, op[t].user)
  <2>1. pc[t] \in {"switch", "password"} /\ pc'[t] = "sweep" /\ todo'[t] = found /\ op[t].kind \in {"off", "changing"}
    BY <1>2, <1>4 DEF Switch, ChangePassword, Sweep, Find, At, Shape
  <2>2. Wants(t) = {<<Target(t), NoKeyUpdate>>}
    BY <2>1 DEF Wants, AccountLock
  <2>3. found \subseteq Table(db, "session") /\ \A r \in found : db[r].user = op[t].user
    BY DEF LiveSessions
  <2> HIDE DEF found
  <2>4. \A h \in lock[t] : LockAt(t, h)'
    BY <1>2, <2>1 DEF LockInv, LockAt, MemberKinds
  <2>5. \A h \in Wants(t) : LockAt(t, h)'
    BY <1>2, <2>1, <2>2 DEF LockAt
  <2>6. Has(lock'[t], Target(t))
    BY <1>2, <2>2 DEF Has
  <2>7. PlaceInv(t)'
    BY <1>2, <2>1, <2>3, <2>6 DEF PlaceInv, TokensFit
  <2> QED BY <1>2, <2>4, <2>5, <2>7, LocksFit
<1>5. CASE Request(t)
  <2> DEFINE found == Unused(db, op[t].user)
  <2>1. pc[t] = "read" /\ pc'[t] = "sweep" /\ todo'[t] = found /\ op[t].kind = "request"
    BY <1>2, <1>5 DEF Request, Sweep, Find, At, Shape
  <2>2. lock'[t] = {}
    BY <1>2, <2>1 DEF Wants, PlaceInv
  <2>3. found \subseteq Table(db, "token") /\ \A r \in found : db[r].user = op[t].user
    BY DEF Unused
  <2> HIDE DEF found
  <2>4. LockInv(t)'
    BY <2>2 DEF LockInv
  <2>5. PlaceInv(t)'
    BY <1>2, <2>1, <2>2, <2>3 DEF PlaceInv, TokensFit
  <2> QED BY <2>4, <2>5
<1>6. CASE ResetPassword(t)
  <2> DEFINE found == Unused(db, op[t].user)
  <2>1. pc[t] = "holder" /\ pc'[t] = "sweep" /\ todo'[t] = found /\ op[t].kind = "reset" /\ seen'[t] = seen[t]
    BY <1>2, <1>6 DEF ResetPassword, Sweep, Find, At, Shape
  <2>2. seen[t] = "none"
    BY <1>2, <2>1 DEF TxInv, About
  <2>3. Wants(t) = {<<Target(t), Update>>}
    BY <2>1 DEF Wants
  <2>4. \A h \in lock[t] : LockAt(t, h)'
    BY <1>2, <2>1 DEF LockInv, LockAt, MemberKinds
  <2>5. \A h \in Wants(t) : LockAt(t, h)'
    BY <1>2, <2>1, <2>3 DEF LockAt
  <2>6. <<Target(t), Update>> \in lock'[t]
    BY <1>2, <2>3
  <2>7. PlaceInv(t)'
    BY <1>2, <2>1, <2>2, <2>6 DEF PlaceInv, TokensFit
  <2> QED BY <1>2, <2>4, <2>5, <2>7, LocksFit
<1> QED BY <1>3, <1>4, <1>5, <1>6 DEF Switch, At

(* And the sweeps. *)
LEMMA SweepLocks ==
  ASSUME WInv, NEW t \in Tx, SweepRow(t) \/ SweepEnd(t)
  PROVE  LockInv(t)' /\ PlaceInv(t)'
<1>1. Step(t) /\ ~Committing(t)
  BY DEF SweepRow, SweepEnd, At, Step, Committing, LoginFailed, LoginSucceeded, CreateSession, Logout
<1>2. /\ db' = db /\ op' = op /\ lock'[t] = lock[t] \cup Wants(t) /\ pc[t] # "commit" /\ Shape /\ Typed(db)
      /\ LockInv(t) /\ PlaceInv(t) /\ TokensFit(t)' /\ TxInv(t) /\ Target(t)' = Target(t)
  BY <1>1, StatementOf, StatementTokens DEF WInv, BInv, AInv, Target
<1>3. CASE SweepRow(t)
  <2> DEFINE first == First(todo[t])
  <2>1. /\ pc[t] = "sweep" /\ pc'[t] = "sweep" /\ todo'[t] = todo[t] \ {first} /\ seen'[t] = seen[t] /\ todo[t] # {}
        /\ op[t].kind \in {"off", "changing", "request", "reset"}
    BY <1>2, <1>3 DEF SweepRow, At, Shape
  <2>2. \A x \in todo[t] : x \in DOMAIN db /\ x[1] \in {"session", "token"}
    BY <1>2, <2>1 DEF TxInv, Sweeps, Table
  <2>3. \A x \in todo[t] : x[2] \in Nat /\ (x[1] = "token" => x = <<"token", x[2]>>)
    BY <1>2, <2>2, RowsFit
  <2>4. first \in todo[t] /\ \A s \in todo[t] : first[2] <= s[2]
    BY <2>1, <2>3, FirstIsLeast
  <2>5. Wants(t) = {<<first, NoKeyUpdate>>}
    BY <2>1 DEF Wants
  <2>6. op[t].kind = "request" => \A s \in todo'[t] : first[2] < s[2]
    <3> SUFFICES ASSUME op[t].kind = "request", NEW s \in todo'[t]
                 PROVE  first[2] < s[2]
      OBVIOUS
    <3>1. s \in todo[t] /\ s # first
      BY <2>1
    <3>2. s[1] = "token" /\ first[1] = "token"
      BY <1>2, <2>1, <2>4, <3>1 DEF PlaceInv, Table
    <3>3. s[2] # first[2]
      BY <2>3, <2>4, <3>1, <3>2
    <3> QED BY <2>3, <2>4, <3>1, <3>3
  <2>7. todo'[t] \subseteq todo[t]
    BY <2>1
  <2>8. first[1] = "session" =>
          /\ op[t].kind \in {"off", "changing", "reset"} /\ (op[t].kind = "reset" => seen[t] = "sessions")
          /\ first \in DOMAIN db /\ db[first].user = op[t].user
    BY <1>2, <2>1, <2>2, <2>4 DEF PlaceInv, Unused, Table
  <2>9. first[1] = "token" => op[t].kind \in {"request", "reset"}
    BY <1>2, <2>1, <2>4 DEF PlaceInv, Unused, Table
  <2>10. first[1] \in {"session", "token"}
    BY <2>2, <2>4
  <2> HIDE DEF first
  <2>11. \A h \in lock[t] : LockAt(t, h)'
    BY <1>2, <2>1, <2>7 DEF LockInv, LockAt
  <2>12. \A h \in Wants(t) : LockAt(t, h)'
    BY <1>2, <2>1, <2>5, <2>6, <2>8, <2>9, <2>10 DEF LockAt
  <2>13. PlaceInv(t)'
    <3>1. Has(lock[t], Target(t)) => Has(lock'[t], Target(t))
      BY <1>2 DEF Has
    <3> QED BY <1>2, <2>1, <2>7, <3>1 DEF PlaceInv, TokensFit
  <2> QED BY <1>2, <2>11, <2>12, <2>13, LocksFit
<1>4. CASE SweepEnd(t)
  <2>1. pc[t] = "sweep" /\ todo[t] = {} /\ op[t].kind \in {"off", "changing", "request", "reset"}
    BY <1>4 DEF SweepEnd, At
  <2>2. Wants(t) = {} /\ lock'[t] = lock[t]
    <3>1. Wants(t) = {}
      BY <2>1 DEF Wants
    <3> QED BY <1>2, <3>1
  <2>3. \/ op[t].kind = "reset" /\ pc'[t] = "sweep" /\ seen'[t] = "sessions" /\ todo'[t] = LiveSessions(db, op[t].user)
        \/ op[t].kind # "request" /\ pc'[t] = "commit"
        \/ op[t].kind = "request" /\ pc'[t] = "insert"
    <3>1. CASE op[t].kind = "reset" /\ seen[t] # "sessions"
      BY <1>2, <1>4, <3>1 DEF SweepEnd, At, Find, Shape
    <3>2. CASE op[t].kind = "reset" /\ seen[t] = "sessions"
      BY <1>2, <1>4, <3>2 DEF SweepEnd, At, Go, GoOn, Shape
    <3>3. CASE op[t].kind # "reset"
      BY <1>2, <1>4, <3>3 DEF SweepEnd, At, Go, GoOn, Shape
    <3> QED BY <3>1, <3>2, <3>3
  <2>4. \A h \in lock[t] : LockAt(t, h)'
    BY <1>2, <2>1, <2>3 DEF LockInv, LockAt, MemberKinds
  <2>5. \A r \in LiveSessions(db, op[t].user) : r \in Table(db, "session") /\ db[r].user = op[t].user
    BY DEF LiveSessions
  <2>6. PlaceInv(t)'
    BY <1>2, <2>1, <2>2, <2>3, <2>5 DEF PlaceInv, TokensFit
  <2> QED BY <1>2, <2>2, <2>4, <2>6, LocksFit
<1> QED BY <1>3, <1>4

-----------------------------------------------------------------------------
(* Every step.                                                             *)

(* A statement keeps what its own transaction has locked and is to lock. *)
LEMMA StatementLocks ==
  ASSUME WInv, NEW t \in Tx, Step(t), ~Committing(t)
  PROVE  LockInv(t)' /\ PlaceInv(t)'
BY MemberLocks, OwnedLocks, PlainLocks, FoundLocks, SweepLocks DEF Step, Committing

(* One that is a transaction of its own has no locks. *)
LEMMA NowLocks ==
  ASSUME WInv, NEW t \in Tx, Committing(t)
  PROVE  LockInv(t)' /\ PlaceInv(t)'
<1>1. /\ op' = op /\ put' = put /\ op[t].kind \in {"login", "logout"} /\ lock' = lock
      /\ pc'[t] \in {"commit", "insert"} /\ (pc'[t] = "insert" => op[t].kind = "login") /\ PlaceInv(t)
  BY NowIsCalm DEF WInv, BInv, AInv, Shape, Committing, LoginFailed, LoginSucceeded, CreateSession, Logout, At, Now
<1>2. lock'[t] = {}
  BY <1>1 DEF PlaceInv
<1>3. \A r \in DOMAIN put'[t] \cap DOMAIN db' : r[1] # "token"
  BY <1>1, NowIsSteady DEF PlaceInv, TokensFit, WInv, BInv
<1> QED BY <1>1, <1>2, <1>3 DEF LockInv, PlaceInv, TokensFit

(* One that begins has none. *)
LEMMA BeginLocks ==
  ASSUME WInv, NEW t \in Tx, Begin(t)
  PROVE  LockInv(t)' /\ PlaceInv(t)'
<1>1. PICK o \in MemberOps \cup SwitchOps \cup SignOps :
        op' = [op EXCEPT ![t] = o] /\ pc' = [pc EXCEPT ![t] = FirstStatement(o.kind)]
  BY DEF Begin
<1>2. op'[t] = o /\ pc'[t] = FirstStatement(o.kind) /\ lock'[t] = {} /\ DOMAIN put'[t] = {}
  BY <1>1 DEF Begin, Waiting, WInv, BInv, AInv, Shape, Running
<1>3. /\ pc'[t] \in {"org", "token", "revoke", "switch", "read"}
      /\ pc'[t] = "token" => o.kind = "reset"
      /\ pc'[t] = "revoke" => o.kind = "logout"
  BY <1>2 DEF FirstStatement
<1> QED BY <1>2, <1>3 DEF LockInv, PlaceInv, TokensFit

(* Nor has one that is over. *)
LEMMA EndLocks ==
  ASSUME WInv, NEW t \in Tx, End(t)
  PROVE  LockInv(t)' /\ PlaceInv(t)'
<1>1. op'[t].kind = "none" /\ pc'[t] = "done" /\ lock'[t] = {} /\ put'[t] = <<>>
  BY DEF End, WInv, BInv, AInv, Shape
<1> QED BY <1>1 DEF LockInv, PlaceInv, TokensFit

(* Rows keep their numbers. *)
LEMMA IdsStay ==
  ASSUME IdsInv,
         \A r \in DOMAIN db' : r[1] = "org" => r \in DOMAIN db,
         \A r \in DOMAIN db' : r[1] = "token" /\ r \notin DOMAIN db => \E t \in Tx : r = <<"token", New(t)>>
  PROVE  IdsInv'
<1>1. \A t \in Tx : New(t) <= New(MaxTx)
  BY AccountsAssumption DEF Tx, New, Past
<1>2. New(MaxTx)' = New(MaxTx)
  BY DEF New
<1> QED BY <1>1, <1>2 DEF IdsInv

(* It holds in the beginning, *)
LEMMA InitWInv == Init => WInv
<1> SUFFICES ASSUME Init
             PROVE  WInv
  OBVIOUS
<1>1. BInv
  BY InitBInv
<1>2. PICK past \in Pasts : Begun({past.db}, 0)
  BY DEF Init, Idle
<1>3. db = past.db /\ \A t \in Tx : op[t].kind = "none" /\ put[t] = <<>> /\ lock[t] = {} /\ pc[t] \in {"idle", "done"}
  BY <1>2 DEF Begun
<1>4. \A r \in DOMAIN db : Begins(r, db[r])
  BY <1>3, AccountsAssumption
<1>5. IdsInv
  <2>1. \A r \in DOMAIN db : r[1] = "org" => r[2] \in Nat
    BY <1>4 DEF Begins
  <2>2. \A r \in DOMAIN db : r[1] = "token" => r[2] \in Nat /\ r[2] <= Past
    BY <1>1, <1>4, RowsFit DEF Begins, BInv, AInv
  <2>3. Past <= New(MaxTx)
    BY AccountsAssumption DEF New, Past
  <2>4. New(MaxTx) \in Nat /\ Past \in Nat
    BY AccountsAssumption DEF New, Past
  <2> QED BY <2>1, <2>2, <2>3, <2>4 DEF IdsInv
<1>6. ASSUME NEW t \in Tx
      PROVE  LockInv(t) /\ PlaceInv(t)
  BY <1>3 DEF LockInv, PlaceInv, TokensFit
<1> QED BY <1>1, <1>5, <1>6 DEF WInv

(* and after every step. *)
LEMMA NextWInv == WInv /\ [Next]_accountVars => WInv'
<1> SUFFICES ASSUME WInv, [Next]_accountVars
             PROVE  WInv'
  OBVIOUS
<1>1. BInv' /\ BInv /\ AInv
  BY NextBInv DEF WInv, BInv
<1>2. ASSUME NEW u \in Tx, Stays(u), Steady(u)
      PROVE  LockInv(u)' /\ PlaceInv(u)'
  BY <1>2, LocksStay DEF WInv, BInv, AInv
<1>3. CASE UNCHANGED accountVars
  <2>1. db' = db /\ \A u \in Tx : Stays(u)
    BY <1>3 DEF accountVars, vars, Stays
  <2>2. \A u \in Tx : LockInv(u)' /\ PlaceInv(u)'
    BY <1>2, <2>1, SameIsSteady
  <2>3. IdsInv'
    BY <2>1, IdsStay DEF WInv
  <2> QED BY <1>1, <2>2, <2>3 DEF WInv
<1>4. CASE TimePasses
  <2>1. \A u \in Tx : LockInv(u)' /\ PlaceInv(u)'
    BY <1>1, <1>2, <1>4, TimeIsSteady, TimeIsCalm
  <2>2. IdsInv'
    BY <1>1, <1>4, TimeIsSteady, IdsStay DEF WInv
  <2> QED BY <1>1, <2>1, <2>2 DEF WInv
<1>5. ASSUME NEW t \in Tx, Begin(t)
      PROVE  WInv'
  <2>1. db' = db /\ \A u \in Tx \ {t} : Stays(u)
    BY <1>1, <1>5, BeginKeepsB DEF Begin
  <2>2. \A u \in Tx : LockInv(u)' /\ PlaceInv(u)'
    BY <1>2, <1>5, <2>1, SameIsSteady, BeginLocks
  <2>3. IdsInv'
    BY <2>1, IdsStay DEF WInv
  <2> QED BY <1>1, <2>2, <2>3 DEF WInv
<1>6. ASSUME NEW t \in Tx, Step(t), ~Committing(t)
      PROVE  WInv'
  <2>1. db' = db /\ \A u \in Tx \ {t} : Stays(u)
    BY <1>1, <1>6, StatementOf
  <2>2. \A u \in Tx : LockInv(u)' /\ PlaceInv(u)'
    BY <1>2, <1>6, <2>1, SameIsSteady, StatementLocks
  <2>3. IdsInv'
    BY <2>1, IdsStay DEF WInv
  <2> QED BY <1>1, <2>2, <2>3 DEF WInv
<1>7. ASSUME NEW t \in Tx, Step(t), Committing(t)
      PROVE  WInv'
  <2>1. \A u \in Tx \ {t} : Stays(u)
    BY <1>1, <1>7, NowIsCalm
  <2>2. \A u \in Tx : LockInv(u)' /\ PlaceInv(u)'
    BY <1>1, <1>2, <1>7, <2>1, NowIsSteady, NowLocks
  <2>3. IdsInv'
    BY <1>1, <1>7, NowIsSteady, IdsStay DEF WInv
  <2> QED BY <1>1, <2>2, <2>3 DEF WInv
<1>8. ASSUME NEW t \in Tx, End(t), \A u \in Tx \ {t} : Steady(u), IdsInv'
      PROVE  WInv'
  <2>1. \A u \in Tx \ {t} : Stays(u)
    BY <1>1, <1>8 DEF End, Stays, AInv, Shape
  <2>2. \A u \in Tx : LockInv(u)' /\ PlaceInv(u)'
    BY <1>2, <1>8, <2>1, EndLocks
  <2> QED BY <1>1, <1>8, <2>2 DEF WInv
<1>9. ASSUME NEW t \in Tx, Fail(t)
      PROVE  WInv'
  <2>1. End(t) /\ db' = db
    BY <1>9 DEF Fail
  <2>2. IdsInv'
    BY <2>1, IdsStay DEF WInv
  <2> QED BY <1>8, <2>1, <2>2, SameIsSteady
<1>10. ASSUME NEW t \in Tx, Commit(t)
       PROVE  WInv'
  <2>1. \A u \in Tx \ {t} : Steady(u)
    BY <1>10, CommitIsSteady
  <2>2. \A r \in DOMAIN db' : r \in DOMAIN db \/ r \in DOMAIN put[t]
    BY <1>10, RowsAfterCommit
  <2>3. \A r \in DOMAIN put[t] : r[1] # "org" /\ (r[1] = "token" /\ r \notin DOMAIN db => r = <<"token", New(t)>>)
    BY <1>1 DEF BInv, PutInv, AInv, TxInv, Writes, Own
  <2>4. IdsInv'
    BY <2>2, <2>3, IdsStay DEF WInv
  <2> QED BY <1>8, <1>10, <2>1, <2>4 DEF Commit
<1> QED BY <1>3, <1>4, <1>5, <1>6, <1>7, <1>9, <1>10 DEF Next, Finish

(* Where each of any number of overlapping transactions has its locks, and *)
(* in what order it takes those of a kind.                                 *)
THEOREM LocksAreInPlace == Spec => []WInv
<1>1. Init => WInv
  BY InitWInv
<1>2. WInv /\ [Next]_accountVars => WInv'
  BY NextWInv
<1> QED BY <1>1, <1>2, PTL DEF Spec

(* Transactions wait for each other in a circle only where somebody has    *)
(* two unused tokens and is resetting their password: switching accounts   *)
(* off, whatever they own together, changing members, requesting tokens    *)
(* and changing passwords never do.                                        *)
THEOREM OnlyResetCirclesAlways == Spec => []OnlyResetCircles
BY LocksAreInPlace, CirclesAreKnown, PTL
=============================================================================
