-------------------------- MODULE EnrollmentProofs --------------------------
(***************************************************************************)
(* The branch has one identity and decisions stay decided, for any number  *)
(* of overlapping transactions and any databases to begin with: the        *)
(* inductive invariant of Enrollment about references, locks and keys.     *)
(* What a transaction knows it knows by the locks it holds: the invariant  *)
(* says which, statement by statement, and what they keep true.            *)
(* In four layers: references, locks and keys; then codes, installations   *)
(* and the end of a library; then where the locks are, and who waits for   *)
(* whom; then what the inventory of the keys reads of the past.            *)
(***************************************************************************)
EXTENDS KeyInventory, TransactionProofs, FiniteSetTheorems

-----------------------------------------------------------------------------
(* The inductive invariant.                                                *)

(* What a statement may make of a row: nothing is undone that an           *)
(* administrator decided or that was used, and references do not change.   *)
Keeps(r, v, w) ==
  /\ r = Org => (v = "cancelled" => w = "cancelled")
  /\ r[1] = "inst" =>
       /\ w.contract = v.contract /\ (v.status = "retired" => w.status = "retired")
       /\ v.status = "inactive" => w.status # "active"
  /\ r[1] = "code" =>
       /\ w.inst = v.inst /\ w.contract = v.contract
       /\ (w.state = "unused" => v.state = "unused") /\ (v.state = "used" => w.state = "used")
  /\ r[1] = "token" => w.inst = v.inst /\ w.from = v.from /\ (w.active => v.active)
  /\ r[1] = "key"   => w.owner = v.owner /\ (w.active => v.active)

Exclusive == {NoKeyUpdate, Update}

(* The ids of a transaction's rows are its own. *)
Fresh(t) == pc[t] # "done" => \A r \in DOMAIN db : r[2] # New(t)

(* What it works on is there. *)
OpOk(t) ==
  LET o == op[t] IN
    /\ o.kind = "redeem" => o.row \in Table(db, "code")
    /\ o.kind \in {"generate", "recover", "status"} => o.row \in Table(db, "inst")
    /\ o.kind \in {"revoke", "status_v1", "status_v2", "upload"} => o.row \in Table(db, "token")
    /\ o.kind = "retire" => o.row \in Table(db, "key")
    /\ o.kind \in {"status_v2", "upload"} => o.arg \in Table(db, "key")
    /\ o.kind = "status_v1" \/ (o.kind = "status_v2" /\ pc[t] = "contact") => db[o.row].inst # 0
    /\ o.kind = "status" => o.arg \in Transitions(seen[t])
    /\ o.kind = "create" => o.arg \in {1, 2}

(* It writes rows of its own, and rows that it holds.                      *)
Mine(t, r, v) ==
  /\ r \in (Tables \X Nat) \ {Inst(0), <<"code", 0>>} /\ RowOf(r, v) /\ Refers(db, r, v)
  /\ r[2] = New(t) \/ (r \in DOMAIN db /\ Holds(t, r, Exclusive) /\ Keeps(r, db[r], v))
Written(t) == \A r \in DOMAIN put[t] : Mine(t, r, put[t][r])

(* A redemption, statement by statement. *)
RedeemInv(t) ==
  op[t].kind = "redeem" =>
    /\ pc[t] \in {"code", "scope", "branch", "token", "key", "commit"} => <<Org, Share>> \in lock[t]
    /\ pc[t] \in {"scope", "branch", "token", "key"} => <<op[t].row, Update>> \in lock[t]
    /\ pc[t] \in {"org", "code", "scope", "branch", "token"} => DOMAIN put[t] = {}
    /\ pc[t] \in {"branch", "key"} => db[op[t].row].contract = 2
    /\ pc[t] = "key" => \A r \in DOMAIN put[t] : r[1] \in {"code", "token"}
    /\ pc[t] = "key" \/ (pc[t] = "token" /\ db[op[t].row].contract = 2) =>
         /\ <<Branch, Update>> \in lock[t] /\ ~Enrolled(db)
         /\ db[Inst(InstOf(t))].status # "retired"

(* Those that write one row at the end, if at all.                         *)
Single == {"grant", "issue", "status", "revoke", "retire", "create", "cutover", "library"}
SingleInv(t) ==
  /\ op[t].kind \in Single /\ pc[t] # "commit" => DOMAIN put[t] = {}
  /\ op[t].kind = "issue" /\ pc[t] \in {"branch", "commit"} => <<Org, Share>> \in lock[t]
  /\ op[t].kind = "status" /\ op[t].arg = "retired" /\ pc[t] = "row" =>
       <<Branch, NoKeyUpdate>> \in lock[t] /\ op[t].row[2] \notin Owners(db)

(* Those that sweep: what they look for they have found.                   *)
SweepInv(t) ==
  /\ op[t].kind \in {"generate", "recover", "offboard"} => todo[t] \subseteq DOMAIN db
  /\ op[t].kind = "generate" => todo[t] \subseteq Table(db, "code") /\ \A r \in DOMAIN put[t] : r[1] = "code"
  /\ op[t].kind = "recover" =>
       /\ pc[t] # "org" => <<Org, Update>> \in lock[t]
       /\ todo[t] \subseteq Table(db, "token")
       /\ \A r \in DOMAIN put[t] : r[1] = "token"
       /\ pc[t] = "org" => DOMAIN put[t] = {}
       /\ pc[t] # "commit" => DOMAIN put[t] \subseteq DOMAIN db
       /\ pc[t] \in {"sweep", "hold"} => LiveOf(View(t), "token", op[t].row[2]) \subseteq todo[t]
       /\ pc[t] = "hold" => todo[t] = {}
  /\ op[t].kind = "offboard" =>
       /\ pc[t] # "org" => <<Org, Update>> \in lock[t]
       /\ pc[t] = "sweep" => seen[t] \in {"token", "inst", "code", "key"}
       /\ \A r \in todo[t] : r[1] \in {"token", "inst", "code", "key"}
       /\ DOMAIN put[t] \subseteq DOMAIN db
       /\ pc[t] = "commit" \/ (pc[t] = "sweep" /\ seen[t] = "key") => ActiveKeys(View(t)) \subseteq todo[t]
       /\ pc[t] = "commit" => todo[t] = {}

(* A key that it adds is the branch's only one, and its owner in service;  *)
(* one without an owner is added where none ever had one.                  *)
NewKey(t) ==
  LET r == <<"key", New(t)>> IN
  r \in DOMAIN put[t] =>
    /\ pc[t] = "commit" /\ op[t].kind \in {"redeem", "issue"}
    /\ Holds(t, Branch, Exclusive) /\ <<Org, Share>> \in lock[t]
    /\ ActiveKeys(db) = {}
    /\ \A q \in DOMAIN put[t] : q[1] # "inst" /\ (q[1] = "key" => q = r)
    /\ put[t][r].owner # 0 =>
         /\ <<Branch, Update>> \in lock[t] /\ db[Inst(put[t][r].owner)].status # "retired"
         /\ <<"cut", New(t)>> \in DOMAIN put[t]
    /\ put[t][r].owner = 0 =>
         /\ \A q \in Table(db, "key") : db[q].owner = 0
         /\ \A q \in Table(db, "cut") : db[q].by # "enrollment"

(* A token that it adds is the only active one of its installation, and    *)
(* the branch is enrolled, or with this transaction; one without an        *)
(* installation is added where no active key has an owner.                 *)
NewToken(t) ==
  LET r == <<"token", New(t)>>  i == put[t][r].inst IN
  r \in DOMAIN put[t] =>
    /\ op[t].kind \in {"redeem", "grant", "recover"}
    /\ i # 0 => Holds(t, Org, {Share, Update})
    /\ i # 0 /\ db[Inst(i)].contract = 2 =>
         /\ LiveOf(View(t), "token", i) \subseteq {r}
         /\ \/ <<Org, Update>> \in lock[t] /\ Table(db, "cut") # {}
            \/ <<Branch, Update>> \in lock[t] /\ (pc[t] = "key" \/ <<"cut", New(t)>> \in DOMAIN put[t])
    /\ i = 0 => Holds(t, Branch, Exclusive) /\ Owners(db) \subseteq {0}

(* A cutover that it adds is announced on the branch, and an enrollment's  *)
(* is the first.                                                           *)
NewCut(t) ==
  \A r \in DOMAIN put[t] : r[1] = "cut" =>
    /\ r[2] = New(t) /\ Holds(t, Branch, 1..4)
    /\ put[t][r].by = "enrollment" => <<Branch, Update>> \in lock[t] /\ Table(db, "cut") = {}

(* Who retires an installation: an administrator, when it does not own the *)
(* active key, or offboarding, which ends the keys too.                    *)
Retires(t) ==
  \A r \in DOMAIN put[t] : r[1] = "inst" /\ put[t][r].status = "retired" =>
    \/ op[t].kind = "status" /\ <<Branch, NoKeyUpdate>> \in lock[t] /\ r[2] \notin Owners(db)
    \/ op[t].kind = "offboard"

TxInv(t) ==
  /\ Fresh(t) /\ OpOk(t) /\ Written(t) /\ RedeemInv(t) /\ SingleInv(t) /\ SweepInv(t)
  /\ NewKey(t) /\ NewToken(t) /\ NewCut(t) /\ Retires(t)

IInv == Shape /\ Exclusion /\ Typed(db) /\ Kept(db) /\ \A t \in Tx : TxInv(t)

-----------------------------------------------------------------------------
(* Rows and queries.                                                       *)

(* The active tokens of an installation. *)
LEMMA LiveTokens ==
  ASSUME NEW d, NEW i
  PROVE  LiveOf(d, "token", i) = {r \in DOMAIN d : r[1] = "token" /\ d[r].active /\ d[r].inst = i}
BY DEF LiveOf, LiveIn, Live, Table

(* The active keys. *)
LEMMA LiveKeys ==
  ASSUME NEW d
  PROVE  /\ ActiveKeys(d) = {r \in DOMAIN d : r[1] = "key" /\ d[r].active}
         /\ LiveIn(d, "key") = ActiveKeys(d)
BY DEF ActiveKeys, Table, LiveIn, Live

(* A row of a transaction is one of its own or one of the database. *)
LEMMA NewIsNew ==
  ASSUME NEW t \in Tx
  PROVE  New(t) \in Nat /\ New(t) > 3 /\ \A u \in Tx : New(u) = New(t) => u = t
<1>1. \A u \in Tx : u \in Nat /\ u > 0
  BY EnrollmentAssumption DEF Tx
<1> QED BY <1>1 DEF New, Past

(* What revocation makes of a row. *)
LEMMA EndedRow ==
  ASSUME NEW d, NEW r, r[1] \in {"inst", "code", "token", "key"}, r # Org, RowOf(r, d[r]), Live(d, r)
  PROVE  /\ RowOf(r, Ended(d, r))
         /\ \A v : Keeps(r, v, d[r]) => Keeps(r, v, Ended(d, r))
         /\ \A e : Refers(e, r, d[r]) => Refers(e, r, Ended(d, r))
         /\ r[1] = "token" => Ended(d, r).inst = d[r].inst /\ ~Ended(d, r).active
         /\ r[1] = "key" => ~Ended(d, r).active
<1> USE DEF RowOf, Ended, Keeps, Refers, Live
<1>1. CASE r[1] = "inst"
  BY <1>1 DEF Statuses
<1>2. CASE r[1] = "code"
  BY <1>2
<1>3. CASE r[1] = "token"
  BY <1>3
<1>4. CASE r[1] = "key"
  BY <1>4
<1> QED BY <1>1, <1>2, <1>3, <1>4

(* A row that stays as it is keeps what it was. *)
LEMMA KeepsItself ==
  ASSUME NEW r, NEW v, RowOf(r, v)
  PROVE  Keeps(r, v, v)
<1>1. CASE r[1] = "inst"
  BY <1>1 DEF Keeps, RowOf, Org
<1> QED BY <1>1 DEF Keeps

-----------------------------------------------------------------------------
(* What any statement of a transaction does.                               *)

(* It wants locks of the four modes. *)
LEMMA WantsAreLocks ==
  ASSUME NEW t \in Tx
  PROVE  \A w \in Wants(t) : w[2] \in 1..4
BY DEF Wants, OrgLock, BranchLock, KeyShare, Share, NoKeyUpdate, Update

(* Every one is a statement, with the locks it wants. *)
LEMMA StepIsStatement ==
  ASSUME Shape, NEW t \in Tx, Step(t)
  PROVE  Statement(t, Wants(t))
<1> USE DEF At, Go, GoOn, Take, Statement, Running, Shape
<1>1. ASSUME RedeemOrg(t) \/ RedeemCode(t) \/ RedeemScope(t) \/ RedeemBranch(t) \/ RedeemToken(t) \/ RedeemKey(t)
      PROVE  Statement(t, Wants(t))
  BY <1>1 DEF RedeemOrg, RedeemCode, RedeemScope, RedeemBranch, RedeemToken, RedeemKey
<1>2. ASSUME GenerateInsert(t) \/ RecoverTokens(t) \/ RecoverHold(t) \/ OffboardEnd(t) \/ SetLibrary(t)
      PROVE  Statement(t, Wants(t))
  BY <1>2 DEF GenerateInsert, RecoverTokens, RecoverHold, OffboardEnd, SetLibrary
<1>3. ASSUME StatusBranch(t) \/ StatusRow(t) \/ CreatePlace(t) \/ RevokeOrg(t) \/ RevokeRow(t)
      PROVE  Statement(t, Wants(t))
  BY <1>3 DEF StatusBranch, StatusRow, CreatePlace, RevokeOrg, RevokeRow
<1>4. ASSUME GrantOrg(t) \/ GrantBranch(t) \/ IssueOrg(t) \/ IssueBranch(t) \/ RetireRow(t) \/ CutoverInsert(t)
      PROVE  Statement(t, Wants(t))
  BY <1>4 DEF GrantOrg, GrantBranch, IssueOrg, IssueBranch, RetireRow, CutoverInsert
<1>5. ASSUME Touch(t) \/ Beat(t) \/ Contact(t) \/ StoreEvents(t) \/ BranchReady(t)
      PROVE  Statement(t, Wants(t))
  BY <1>5 DEF Touch, Beat, Contact, StoreEvents, BranchReady
<1>6. ASSUME GenerateHold(t) \/ RecoverOrg(t) \/ OffboardOrg(t) \/ OffboardNext(t)
      PROVE  Statement(t, Wants(t))
  BY <1>6 DEF GenerateHold, RecoverOrg, OffboardOrg, OffboardNext, Sweep, Find
<1>7. ASSUME SweepRow(t)
      PROVE  Statement(t, Wants(t))
  BY <1>7 DEF SweepRow
<1> HIDE DEF At, Go, GoOn, Take, Statement, Running, Shape
<1> QED BY <1>1, <1>2, <1>3, <1>4, <1>5, <1>6, <1>7 DEF Step

(* A statement that is one of a kind at its place and goes on. *)
LEMMA GoDoes ==
  ASSUME Shape, NEW t \in Tx, NEW kind, NEW where, NEW next, NEW rows, At(t, kind, where), Go(t, next, rows)
  PROVE  /\ op[t].kind = kind /\ pc[t] = where /\ pc'[t] = next
         /\ put'[t] = Over(rows, put[t]) /\ lock'[t] = lock[t] \cup Wants(t)
         /\ db' = db /\ op'[t] = op[t] /\ seen'[t] = seen[t] /\ todo'[t] = todo[t]
BY DEF Shape, At, Go, GoOn, Take

(* One that begins a sweep. *)
LEMMA SweepDoes ==
  ASSUME Shape, NEW t \in Tx, NEW kind, NEW where, NEW stage, NEW found, NEW rows,
         At(t, kind, where), Sweep(t, stage, found, rows)
  PROVE  /\ op[t].kind = kind /\ pc[t] = where /\ pc'[t] = "sweep"
         /\ put'[t] = Over(rows, put[t]) /\ lock'[t] = lock[t] \cup Wants(t)
         /\ db' = db /\ op'[t] = op[t] /\ seen'[t] = stage /\ todo'[t] = found
BY DEF Shape, At, Sweep, Find, Take

(* What changes nothing of a transaction keeps its invariant. *)
LEMMA SameStays ==
  ASSUME NEW u \in Tx, TxInv(u),
         db' = db, op'[u] = op[u], pc'[u] = pc[u], seen'[u] = seen[u], todo'[u] = todo[u],
         put'[u] = put[u], lock'[u] = lock[u]
  PROVE  TxInv(u)'
<1>1. /\ db' = db /\ op'[u] = op[u] /\ pc'[u] = pc[u] /\ seen'[u] = seen[u] /\ todo'[u] = todo[u]
      /\ put'[u] = put[u] /\ lock'[u] = lock[u]
  OBVIOUS
<1>2. View(u)' = View(u)
  BY <1>1 DEF View
<1>3. Fresh(u)' /\ OpOk(u)'
  BY <1>1 DEF TxInv, Fresh, OpOk, New
<1>4. Written(u)'
  BY <1>1 DEF TxInv, Written, Mine, New, Holds
<1>5. RedeemInv(u)'
  BY <1>1 DEF TxInv, RedeemInv, InstOf
<1>6. SingleInv(u)'
  BY <1>1 DEF TxInv, SingleInv
<1>7. SweepInv(u)'
  BY <1>1, <1>2 DEF TxInv, SweepInv
<1>8. NewKey(u)'
  BY <1>1 DEF TxInv, NewKey, New, Holds
<1>9. NewToken(u)'
  BY <1>1, <1>2 DEF TxInv, NewToken, New, Holds
<1>10. NewCut(u)' /\ Retires(u)'
  BY <1>1 DEF TxInv, NewCut, Retires, New, Holds
<1> QED BY <1>3, <1>4, <1>5, <1>6, <1>7, <1>8, <1>9, <1>10 DEF TxInv

(* A statement of one transaction changes nothing of another. *)
LEMMA OthersStay ==
  ASSUME Shape, NEW t \in Tx, NEW wanted, Statement(t, wanted), NEW u \in Tx, u # t, TxInv(u)
  PROVE  TxInv(u)'
BY StatementFrame, SameStays

-----------------------------------------------------------------------------
(* A statement and its own transaction: the rows.                          *)

(* It writes nothing. *)
LEMMA Silent ==
  ASSUME Shape, NEW t \in Tx, TxInv(t), Statement(t, Wants(t)), put'[t] = Over(<<>>, put[t]),
         pc[t] \notin {"commit", "key"}
  PROVE  put'[t] = put[t] /\ Fresh(t)' /\ Written(t)' /\ NewKey(t)' /\ NewToken(t)' /\ NewCut(t)' /\ Retires(t)'
<1>1. put'[t] = put[t]
  BY OverNothing DEF Shape
<1>2. /\ db' = db /\ op'[t] = op[t] /\ lock[t] \subseteq lock'[t] /\ pc[t] # "done"
  BY StatementFrame DEF Statement, Running
<1>3. View(t)' = View(t)
  BY <1>1, <1>2 DEF View
<1>4. Fresh(t)' /\ Written(t)'
  BY <1>1, <1>2 DEF TxInv, Fresh, Written, Mine, New, Holds
<1>5. NewKey(t)'
  BY <1>1, <1>2 DEF TxInv, NewKey, New
<1>6. NewToken(t)'
  BY <1>1, <1>2, <1>3 DEF TxInv, NewToken, New, Holds
<1>7. NewCut(t)' /\ Retires(t)'
  BY <1>1, <1>2 DEF TxInv, NewCut, Retires, New, Holds
<1> QED BY <1>1, <1>4, <1>5, <1>6, <1>7

(* It writes a row, or two, that are its own or that it holds by now.      *)
MayWrite(t, r, v) ==
  /\ r \in (Tables \X Nat) \ {Inst(0), <<"code", 0>>} /\ RowOf(r, v) /\ Refers(db, r, v)
  /\ r[2] = New(t) \/ (r \in DOMAIN db /\ Keeps(r, db[r], v) /\ \E m \in Exclusive : <<r, m>> \in lock'[t])

(* Whatever else was written before. *)
LEMMA WritesSome ==
  ASSUME Shape, NEW t \in Tx, TxInv(t), Statement(t, Wants(t)),
         \A x \in DOMAIN put'[t] : MayWrite(t, x, put'[t][x]) \/ (x \in DOMAIN put[t] /\ put'[t][x] = put[t][x])
  PROVE  Fresh(t)' /\ Written(t)'
<1>1. /\ db' = db /\ lock[t] \subseteq lock'[t] /\ pc[t] # "done"
  BY StatementFrame DEF Statement, Running
<1>2. Fresh(t)'
  BY <1>1 DEF TxInv, Fresh, New
<1>3. ASSUME NEW x \in DOMAIN put'[t]
      PROVE  Mine(t, x, put[t][x])'
  <2>1. CASE MayWrite(t, x, put'[t][x])
    BY <2>1, <1>1 DEF MayWrite, Mine, Holds, New
  <2>2. CASE x \in DOMAIN put[t] /\ put'[t][x] = put[t][x]
    BY <2>2, <1>1 DEF TxInv, Written, Mine, Holds, New
  <2> QED BY <2>1, <2>2
<1> QED BY <1>2, <1>3 DEF Written

(* One row. *)
LEMMA WritesOne ==
  ASSUME Shape, NEW t \in Tx, TxInv(t), Statement(t, Wants(t)), NEW r, NEW v, put'[t] = Over(One(r, v), put[t]),
         MayWrite(t, r, v)
  PROVE  /\ Fresh(t)' /\ Written(t)'
         /\ DOMAIN put'[t] = DOMAIN put[t] \cup {r} /\ put'[t][r] = v
         /\ \A x \in DOMAIN put[t] : x # r => put'[t][x] = put[t][x]
<1>1. /\ DOMAIN put'[t] = DOMAIN put[t] \cup {r} /\ put'[t][r] = v
      /\ \A x \in DOMAIN put[t] : x # r => put'[t][x] = put[t][x]
  <2>1. put'[t] = Over(One(r, v), put[t])
    OBVIOUS
  <2> QED BY ONLY <2>1 DEF Over, One
<1>2. \A x \in DOMAIN put'[t] : MayWrite(t, x, put'[t][x]) \/ (x \in DOMAIN put[t] /\ put'[t][x] = put[t][x])
  BY <1>1
<1> QED BY <1>1, <1>2, WritesSome

(* Two rows. *)
LEMMA WritesTwo ==
  ASSUME Shape, NEW t \in Tx, TxInv(t), Statement(t, Wants(t)), NEW r, NEW v, NEW s, NEW w, r # s,
         put'[t] = Over(Over(One(r, v), One(s, w)), put[t]), MayWrite(t, r, v), MayWrite(t, s, w)
  PROVE  /\ Fresh(t)' /\ Written(t)'
         /\ DOMAIN put'[t] = DOMAIN put[t] \cup {r, s} /\ put'[t][r] = v /\ put'[t][s] = w
         /\ \A x \in DOMAIN put[t] : x \notin {r, s} => put'[t][x] = put[t][x]
<1>1. /\ DOMAIN put'[t] = DOMAIN put[t] \cup {r, s} /\ put'[t][r] = v /\ put'[t][s] = w
      /\ \A x \in DOMAIN put[t] : x \notin {r, s} => put'[t][x] = put[t][x]
  <2>1. put'[t] = Over(Over(One(r, v), One(s, w)), put[t]) /\ r # s
    OBVIOUS
  <2> QED BY ONLY <2>1 DEF Over, One
<1>2. \A x \in DOMAIN put'[t] : MayWrite(t, x, put'[t][x]) \/ (x \in DOMAIN put[t] /\ put'[t][x] = put[t][x])
  BY <1>1
<1> QED BY <1>1, <1>2, WritesSome

(* And it is not a new key or token, nor a cutover. *)
LEMMA Harmless ==
  ASSUME Shape, NEW t \in Tx, TxInv(t), Statement(t, Wants(t)), NEW r, NEW v,
         DOMAIN put'[t] = DOMAIN put[t] \cup {r}, put'[t][r] = v,
         \A x \in DOMAIN put[t] : x # r => put'[t][x] = put[t][x],
         r[1] # "cut", r \notin {<<"key", New(t)>>, <<"token", New(t)>>},
         r[1] = "inst" /\ v.status = "retired" =>
           \/ op[t].kind = "status" /\ <<Branch, NoKeyUpdate>> \in lock[t] /\ r[2] \notin Owners(db)
           \/ op[t].kind = "offboard",
         pc[t] # "commit", op[t].kind \notin {"redeem", "grant", "recover"}
  PROVE  NewKey(t)' /\ NewToken(t)' /\ NewCut(t)' /\ Retires(t)'
<1>1. /\ db' = db /\ op'[t] = op[t] /\ lock[t] \subseteq lock'[t]
  BY StatementFrame
<1>2. NewKey(t)'
  BY <1>1 DEF TxInv, NewKey, New
<1>3. NewToken(t)'
  BY <1>1 DEF TxInv, NewToken, New
<1>4. NewCut(t)'
  BY <1>1 DEF TxInv, NewCut, New, Holds
<1>5. Retires(t)'
  BY <1>1 DEF TxInv, Retires
<1> QED BY <1>2, <1>3, <1>4, <1>5

(* A row of a table is its name and its id. *)
LEMMA RowsArePairs ==
  ASSUME NEW d, Typed(d), NEW r \in DOMAIN d
  PROVE  /\ r = <<r[1], r[2]>> /\ r[1] \in Tables /\ r[2] \in Nat /\ RowOf(r, d[r]) /\ Refers(d, r, d[r])
         /\ r \in (Tables \X Nat) \ {Inst(0), <<"code", 0>>}
         /\ r[1] = "inst" => r = Inst(r[2]) /\ r[2] # 0
<1>1. r \in (Tables \X Nat) \ {Inst(0), <<"code", 0>>} /\ RowOf(r, d[r]) /\ Refers(d, r, d[r])
  BY DEF Typed
<1>2. r = <<r[1], r[2]>> /\ r[1] \in Tables /\ r[2] \in Nat
  BY <1>1
<1>3. r[1] = "inst" => r = Inst(r[2]) /\ r[2] # 0
  BY <1>1, <1>2 DEF Inst
<1> QED BY <1>1, <1>2, <1>3

-----------------------------------------------------------------------------
(* A statement and its own transaction: redemptions.                       *)

(* It does not write yet. *)
LEMMA RedeemSilent ==
  ASSUME Shape, Typed(db), NEW t \in Tx, TxInv(t), Statement(t, Wants(t)),
         RedeemOrg(t) \/ RedeemCode(t) \/ RedeemScope(t) \/ RedeemBranch(t)
  PROVE  TxInv(t)'
<1>1. /\ op[t].kind = "redeem" /\ pc[t] \in {"org", "code", "scope", "branch"}
      /\ db' = db /\ op'[t] = op[t] /\ put'[t] = Over(<<>>, put[t]) /\ lock'[t] = lock[t] \cup Wants(t)
      /\ seen'[t] = seen[t]
  BY GoDoes DEF RedeemOrg, RedeemCode, RedeemScope, RedeemBranch
<1>2. put'[t] = put[t] /\ Fresh(t)' /\ Written(t)' /\ NewKey(t)' /\ NewToken(t)' /\ NewCut(t)' /\ Retires(t)'
  BY <1>1, Silent
<1>3. OpOk(t)' /\ SingleInv(t)' /\ SweepInv(t)'
  BY <1>1 DEF TxInv, OpOk, SingleInv, SweepInv, Single
<1>4. InstOf(t)' = InstOf(t)
  BY <1>1 DEF InstOf
<1>5. RedeemInv(t)'
  <2>1. CASE RedeemOrg(t)
    <3>1. pc[t] = "org" /\ pc'[t] = "code"
      BY <2>1, GoDoes DEF RedeemOrg
    <3>2. <<Org, Share>> \in Wants(t)
      BY <3>1, <1>1 DEF Wants, OrgLock, ExclusiveOnOrg
    <3> QED BY <1>1, <1>2, <3>1, <3>2 DEF TxInv, RedeemInv
  <2>2. CASE RedeemCode(t)
    <3>1. pc[t] = "code" /\ pc'[t] = "scope"
      BY <2>2, GoDoes DEF RedeemCode
    <3>2. <<op[t].row, Update>> \in Wants(t)
      BY <3>1, <1>1 DEF Wants
    <3> QED BY <1>1, <1>2, <3>1, <3>2 DEF TxInv, RedeemInv
  <2>3. CASE RedeemScope(t)
    <3>1. pc[t] = "scope" /\ pc'[t] = IF db[op[t].row].contract = 2 THEN "branch" ELSE "token"
      BY <2>3, GoDoes DEF RedeemScope
    <3> QED BY <1>1, <1>2, <3>1 DEF TxInv, RedeemInv
  <2>4. CASE RedeemBranch(t)
    <3>1. /\ pc[t] = "branch" /\ pc'[t] = "token" /\ ~Enrolled(db) /\ db[Inst(InstOf(t))].status # "retired"
      BY <2>4, GoDoes DEF RedeemBranch
    <3>2. <<Branch, Update>> \in Wants(t)
      BY <3>1, <1>1 DEF Wants, BranchLock
    <3>3. Enrolled(db)' = Enrolled(db) /\ db'[Inst(InstOf(t)')] = db[Inst(InstOf(t))]
      BY <1>1, <1>4
    <3> QED BY <1>1, <1>2, <1>4, <3>1, <3>2, <3>3 DEF TxInv, RedeemInv
  <2> QED BY <2>1, <2>2, <2>3, <2>4
<1> QED BY <1>2, <1>3, <1>5 DEF TxInv

(* It claims the code and adds the token. *)
LEMMA RedeemTokenKeeps ==
  ASSUME Shape, Typed(db), Kept(db), NEW t \in Tx, TxInv(t), Statement(t, Wants(t)), RedeemToken(t)
  PROVE  TxInv(t)'
<1> DEFINE c == op[t].row
           i == db[c].inst
           k == <<"token", New(t)>>
           v == [db[c] EXCEPT !.state = "used", !.at = New(t)]
           w == [inst |-> i, active |-> TRUE, from |-> c[2]]
<1>1. /\ op[t].kind = "redeem" /\ pc[t] = "token" /\ pc'[t] = IF db[c].contract = 2 THEN "key" ELSE "commit"
      /\ db' = db /\ op'[t] = op[t] /\ put'[t] = Over(Over(One(c, v), One(k, w)), put[t])
      /\ lock'[t] = lock[t] \cup Wants(t) /\ seen'[t] = seen[t]
  <2>1. InstOf(t) = i
    BY DEF RedeemToken, At, InstOf
  <2> QED BY <2>1, GoDoes DEF RedeemToken
<1>2. c \in DOMAIN db /\ c[1] = "code" /\ c[2] \in Nat
      /\ db[c] \in [inst : Nat, contract : {1, 2}, state : {"unused", "used", "revoked"}, at : Nat]
      /\ Inst(i) \in DOMAIN db /\ db[c].contract = db[Inst(i)].contract /\ c \in (Tables \X Nat) \ {Inst(0), <<"code", 0>>}
  <2>1. c \in DOMAIN db /\ c[1] = "code"
    BY <1>1 DEF TxInv, OpOk, Table
  <2> QED BY <2>1, RowsArePairs DEF RowOf, Refers
<1>3. i # 0
  BY <1>2 DEF Typed
<1>4. /\ DOMAIN put[t] = {} /\ <<Org, Share>> \in lock[t] /\ <<c, Update>> \in lock[t]
      /\ db[c].contract = 2 =>
           <<Branch, Update>> \in lock[t] /\ ~Enrolled(db) /\ db[Inst(i)].status # "retired"
  BY <1>1 DEF TxInv, RedeemInv, InstOf
<1>5. MayWrite(t, c, v)
  <2>1. v \in [inst : Nat, contract : {1, 2}, state : {"unused", "used", "revoked"}, at : Nat]
        /\ v.inst = i /\ v.contract = db[c].contract /\ v.state = "used"
    BY <1>2, NewIsNew
  <2>2. Keeps(c, db[c], v)
    BY <1>2, <2>1 DEF Keeps, Org
  <2>3. RowOf(c, v) /\ Refers(db, c, v)
    BY <1>2, <2>1 DEF RowOf, Refers
  <2>4. \E m \in Exclusive : <<c, m>> \in lock'[t]
    BY <1>1, <1>4 DEF Exclusive
  <2> HIDE DEF v
  <2> QED BY <1>2, <2>2, <2>3, <2>4 DEF MayWrite
<1>6. MayWrite(t, k, w)
  <2>1. RowOf(k, w) /\ Refers(db, k, w)
    BY <1>2 DEF RowOf, Refers
  <2>2. k \in (Tables \X Nat) \ {Inst(0), <<"code", 0>>} /\ k[2] = New(t)
    BY NewIsNew DEF Tables, Inst
  <2> HIDE DEF w, k
  <2> QED BY <2>1, <2>2 DEF MayWrite
<1>7. /\ Fresh(t)' /\ Written(t)' /\ DOMAIN put'[t] = {c, k} /\ put'[t][c] = v /\ put'[t][k] = w
  <2>1. c # k
    BY <1>2
  <2>2. put'[t] = Over(Over(One(c, v), One(k, w)), put[t])
    BY <1>1
  <2> HIDE DEF c, k, v, w
  <2>3. /\ Fresh(t)' /\ Written(t)' /\ DOMAIN put'[t] = DOMAIN put[t] \cup {c, k}
        /\ put'[t][c] = v /\ put'[t][k] = w
    BY <1>5, <1>6, <2>1, <2>2, WritesTwo
  <2> QED BY <1>4, <2>3
<1>8. OpOk(t)' /\ SingleInv(t)' /\ SweepInv(t)'
  BY <1>1 DEF TxInv, OpOk, SingleInv, SweepInv, Single
<1>9. RedeemInv(t)'
  <2>1. InstOf(t)' = i
    BY <1>1 DEF InstOf
  <2>2. Enrolled(db)' = Enrolled(db) /\ db'[Inst(InstOf(t)')] = db[Inst(i)] /\ db'[op'[t].row] = db[c]
    BY <1>1, <2>1
  <2>3. \A r \in DOMAIN put'[t] : r[1] \in {"code", "token"}
    BY <1>2, <1>7
  <2> HIDE DEF v, w
  <2> QED BY <1>1, <1>4, <2>1, <2>2, <2>3 DEF RedeemInv
<1>10. NewToken(t)'
  <2>1. ASSUME db[Inst(i)].contract = 2
        PROVE  /\ LiveOf(View(t)', "token", i) \subseteq {k}
               /\ <<Branch, Update>> \in lock'[t] /\ pc'[t] = "key"
    <3>1. db[c].contract = 2 /\ Table(db, "cut") = {}
      BY <2>1, <1>2, <1>4 DEF Enrolled
    <3>2. LiveOf(db, "token", i) = {}
      <4>1. Inst(i) \in Table(db, "inst") /\ Inst(i)[2] = i
        BY <1>2 DEF Table, Inst
      <4> QED BY <2>1, <3>1, <4>1 DEF Kept
    <3>3. \A r \in DOMAIN View(t)' : r[1] = "token" /\ r # k => r \in DOMAIN db /\ View(t)'[r] = db[r]
      <4>1. View(t)' = Over(put'[t], db)
        BY <1>1 DEF View
      <4> HIDE DEF v, w
      <4> QED BY <4>1, <1>2, <1>7 DEF Over
    <3> HIDE DEF v, w, k
    <3> QED BY <1>1, <1>4, <3>1, <3>2, <3>3, LiveTokens
  <2>2. put'[t][k].inst = i /\ New(t)' = New(t)
    BY <1>7 DEF New
  <2>3. Holds(t, Org, {Share, Update})'
    BY <1>1, <1>4 DEF Holds
  <2> HIDE DEF w, v
  <2> QED BY <1>1, <1>3, <2>1, <2>2, <2>3 DEF NewToken
<1>11. NewKey(t)' /\ NewCut(t)' /\ Retires(t)'
  <2> HIDE DEF v, w
  <2> QED BY <1>2, <1>7 DEF NewKey, NewCut, Retires
<1> QED BY <1>7, <1>8, <1>9, <1>10, <1>11 DEF TxInv

(* It adds the key and the cutover. *)
LEMMA RedeemKeyKeeps ==
  ASSUME Shape, Typed(db), Kept(db), NEW t \in Tx, TxInv(t), Statement(t, Wants(t)), RedeemKey(t)
  PROVE  TxInv(t)'
<1> DEFINE c == op[t].row
           i == db[c].inst
           k == <<"key", New(t)>>
           q == <<"cut", New(t)>>
           v == [owner |-> i, active |-> TRUE, heard |-> 0]
           w == [by |-> "enrollment", code |-> c[2], inst |-> i]
<1>1. /\ op[t].kind = "redeem" /\ pc[t] = "key" /\ pc'[t] = "commit" /\ Table(db, "cut") = {}
      /\ db' = db /\ op'[t] = op[t] /\ put'[t] = Over(Over(One(k, v), One(q, w)), put[t])
      /\ lock'[t] = lock[t] \cup Wants(t) /\ seen'[t] = seen[t]
  <2>1. InstOf(t) = i
    BY DEF RedeemKey, At, InstOf
  <2> QED BY <2>1, GoDoes DEF RedeemKey
<1>2. Inst(i) \in DOMAIN db /\ db[Inst(i)].contract = 2 /\ i \in Nat /\ i # 0
  <2>1. c \in DOMAIN db /\ c[1] = "code"
    BY <1>1 DEF TxInv, OpOk, Table
  <2>2. db[c].contract = 2
    BY <1>1 DEF TxInv, RedeemInv
  <2>3. Inst(i) \in DOMAIN db /\ db[Inst(i)].contract = 2 /\ i \in Nat
    BY <2>1, <2>2, RowsArePairs DEF RowOf, Refers
  <2> QED BY <2>3 DEF Typed
<1>3. /\ \A r \in DOMAIN put[t] : r[1] \in {"code", "token"}
      /\ <<Org, Share>> \in lock[t] /\ <<Branch, Update>> \in lock[t]
      /\ ~Enrolled(db) /\ db[Inst(i)].status # "retired"
  BY <1>1 DEF TxInv, RedeemInv, InstOf
<1>4. MayWrite(t, k, v) /\ MayWrite(t, q, w) /\ k # q
  <2>1. RowOf(k, v) /\ Refers(db, k, v) /\ RowOf(q, w) /\ Refers(db, q, w)
    BY <1>2 DEF RowOf, Refers
  <2>2. \A x \in {k, q} : x \in (Tables \X Nat) \ {Inst(0), <<"code", 0>>} /\ x[2] = New(t)
    BY NewIsNew DEF Tables, Inst
  <2>3. k # q
    OBVIOUS
  <2> HIDE DEF v, w, k, q
  <2> QED BY <2>1, <2>2, <2>3 DEF MayWrite
<1>5. /\ Fresh(t)' /\ Written(t)' /\ DOMAIN put'[t] = DOMAIN put[t] \cup {k, q} /\ put'[t][k] = v /\ put'[t][q] = w
      /\ \A r \in DOMAIN put[t] : put'[t][r] = put[t][r]
  <2>1. \A r \in DOMAIN put[t] : r \notin {k, q}
    BY <1>3
  <2>2. put'[t] = Over(Over(One(k, v), One(q, w)), put[t])
    BY <1>1
  <2> HIDE DEF k, q, v, w
  <2>3. /\ Fresh(t)' /\ Written(t)' /\ DOMAIN put'[t] = DOMAIN put[t] \cup {k, q} /\ put'[t][k] = v /\ put'[t][q] = w
        /\ \A r \in DOMAIN put[t] : r \notin {k, q} => put'[t][r] = put[t][r]
    BY <1>4, <2>2, WritesTwo
  <2> QED BY <2>1, <2>3
<1>6. OpOk(t)' /\ SingleInv(t)' /\ SweepInv(t)' /\ RedeemInv(t)'
  BY <1>1, <1>3 DEF TxInv, OpOk, SingleInv, SweepInv, Single, RedeemInv
<1>7. NewKey(t)'
  <2>1. ActiveKeys(db)' = {} /\ Holds(t, Branch, Exclusive)' /\ <<Org, Share>> \in lock'[t] /\ <<Branch, Update>> \in lock'[t]
    BY <1>1, <1>3 DEF Enrolled, Holds, Exclusive
  <2>2. \A r \in DOMAIN put'[t] : r[1] # "inst" /\ (r[1] = "key" => r = k)
    BY <1>3, <1>5
  <2>3. put'[t][k].owner = i /\ q \in DOMAIN put'[t] /\ db'[Inst(i)].status # "retired"
    <3>1. v.owner = i
      OBVIOUS
    <3>2. put'[t][k] = v /\ q \in DOMAIN put'[t]
      <4> HIDE DEF v, w, k, q
      <4> QED BY <1>5
    <3>3. db'[Inst(i)].status # "retired"
      BY <1>1, <1>3
    <3> QED BY <3>1, <3>2, <3>3
  <2>4. New(t)' = New(t)
    BY DEF New
  <2> HIDE DEF v, w, i
  <2> QED BY <1>1, <1>2, <2>1, <2>2, <2>3, <2>4 DEF NewKey
<1>8. NewToken(t)'
  <2> DEFINE r == <<"token", New(t)>>
  <2>1. r \in DOMAIN put'[t] => r \in DOMAIN put[t] /\ put'[t][r] = put[t][r]
    BY <1>5
  <2>2. \A j : LiveOf(View(t)', "token", j) = LiveOf(View(t), "token", j)
    <3>1. /\ \A x : x[1] = "token" => (x \in DOMAIN View(t)' <=> x \in DOMAIN View(t))
          /\ \A x \in DOMAIN View(t) : x[1] = "token" => View(t)'[x] = View(t)[x]
      <4>1. View(t)' = Over(put'[t], db) /\ View(t) = Over(put[t], db)
        BY <1>1 DEF View
      <4>2. \A x : x[1] = "token" => x \notin {k, q}
        OBVIOUS
      <4> HIDE DEF v, w, k, q
      <4> QED BY <4>1, <4>2, <1>5 DEF Over
    <3>2. ASSUME NEW j
          PROVE  LiveOf(View(t)', "token", j) = LiveOf(View(t), "token", j)
      <4>1. LiveOf(View(t), "token", j) = {x \in DOMAIN View(t) : x[1] = "token" /\ View(t)[x].active /\ View(t)[x].inst = j}
        BY LiveTokens
      <4>2. LiveOf(View(t)', "token", j) = {x \in DOMAIN View(t)' : x[1] = "token" /\ View(t)'[x].active /\ View(t)'[x].inst = j}
        BY LiveTokens
      <4> QED BY <3>1, <4>1, <4>2
    <3> QED BY <3>2
  <2>3. lock[t] \subseteq lock'[t] /\ New(t)' = New(t) /\ q \in DOMAIN put'[t]
    BY <1>1, <1>5 DEF New
  <2>4. <<Branch, Update>> \in lock'[t] /\ Holds(t, Org, {Share, Update})'
    BY <1>1, <1>3 DEF Holds
  <2> HIDE DEF v, w, k
  <2> QED BY <1>1, <2>1, <2>2, <2>3, <2>4 DEF TxInv, NewToken, Holds
<1>9. NewCut(t)' /\ Retires(t)'
  <2>1. Holds(t, Branch, 1..4)' /\ <<Branch, Update>> \in lock'[t] /\ New(t)' = New(t)
    BY <1>1, <1>3 DEF Holds, New, Update
  <2>2. \A x \in DOMAIN put'[t] : x[1] # "inst" /\ (x[1] = "cut" => x = q)
    BY <1>3, <1>5
  <2> HIDE DEF v, w
  <2> QED BY <1>1, <2>1, <2>2 DEF NewCut, Retires
<1> QED BY <1>5, <1>6, <1>7, <1>8, <1>9 DEF TxInv

-----------------------------------------------------------------------------
(* A statement and its own transaction: those that write at the end.       *)

Reports == {"status_v1", "status_v2", "upload"}

(* The statements before the one that writes. *)
LEMMA SingleSilent ==
  ASSUME Shape, Typed(db), NEW t \in Tx, TxInv(t), Statement(t, Wants(t)),
         GrantOrg(t) \/ IssueOrg(t) \/ RevokeOrg(t) \/ StatusBranch(t)
  PROVE  TxInv(t)'
<1>1. /\ op[t].kind \in {"grant", "issue", "revoke", "status"} /\ pc[t] \in {"org", "branch"} /\ pc'[t] \in {"branch", "row"}
      /\ db' = db /\ op'[t] = op[t] /\ put'[t] = Over(<<>>, put[t]) /\ lock'[t] = lock[t] \cup Wants(t)
      /\ seen'[t] = seen[t]
  BY GoDoes DEF GrantOrg, IssueOrg, RevokeOrg, StatusBranch
<1>2. put'[t] = put[t] /\ Fresh(t)' /\ Written(t)' /\ NewKey(t)' /\ NewToken(t)' /\ NewCut(t)' /\ Retires(t)'
  BY <1>1, Silent
<1>3. OpOk(t)' /\ RedeemInv(t)' /\ SweepInv(t)'
  BY <1>1 DEF TxInv, OpOk, RedeemInv, SweepInv
<1>4. SingleInv(t)'
  <2>1. DOMAIN put[t] = {}
    BY <1>1 DEF TxInv, SingleInv, Single
  <2>2. CASE GrantOrg(t) \/ RevokeOrg(t)
    <3>1. op[t].kind \in {"grant", "revoke"}
      BY <2>2, GoDoes DEF GrantOrg, RevokeOrg
    <3> QED BY <1>1, <1>2, <2>1, <3>1 DEF SingleInv
  <2>3. CASE IssueOrg(t)
    <3>1. op[t].kind = "issue" /\ pc[t] = "org"
      BY <2>3, GoDoes DEF IssueOrg
    <3>2. <<Org, Share>> \in lock'[t]
      BY <1>1, <3>1 DEF Wants, OrgLock, ExclusiveOnOrg
    <3> QED BY <1>1, <1>2, <2>1, <3>1, <3>2 DEF SingleInv
  <2>4. CASE StatusBranch(t)
    <3>1. op[t].kind = "status" /\ pc[t] = "branch" /\ op[t].row[2] \notin Owners(db)
      BY <2>4, GoDoes DEF StatusBranch
    <3>2. <<Branch, NoKeyUpdate>> \in lock'[t]
      BY <1>1, <3>1 DEF Wants, BranchLock
    <3>3. Owners(db)' = Owners(db)
      BY <1>1
    <3> QED BY <1>1, <1>2, <2>1, <3>1, <3>2, <3>3 DEF SingleInv
  <2> QED BY <2>2, <2>3, <2>4
<1> QED BY <1>2, <1>3, <1>4 DEF TxInv

(* An authenticated request, where it only reads and takes locks. *)
LEMMA ReportSilent ==
  ASSUME Shape, Typed(db), NEW t \in Tx, TxInv(t), Statement(t, Wants(t)), Touch(t) \/ StoreEvents(t)
  PROVE  TxInv(t)'
<1>1. /\ op[t].kind \in Reports /\ pc[t] \in {"touch", "events"} /\ pc'[t] \in {"contact", "beat", "events", "ready", "commit"}
      /\ pc'[t] = "contact" => op[t].kind = "status_v1"
      /\ db' = db /\ op'[t] = op[t] /\ put'[t] = Over(<<>>, put[t]) /\ seen'[t] = seen[t]
  BY GoDoes DEF Touch, StoreEvents, Reports
<1>2. put'[t] = put[t] /\ Fresh(t)' /\ Written(t)' /\ NewKey(t)' /\ NewToken(t)' /\ NewCut(t)' /\ Retires(t)'
  BY <1>1, Silent
<1>3. OpOk(t)' /\ RedeemInv(t)' /\ SweepInv(t)' /\ SingleInv(t)'
  BY <1>1 DEF TxInv, OpOk, RedeemInv, SweepInv, SingleInv, Single, Reports
<1> QED BY <1>2, <1>3 DEF TxInv

(* One that writes no new key, token or cutover. *)
LEMMA Lightly ==
  ASSUME Shape, NEW t \in Tx, TxInv(t), Statement(t, Wants(t)), NEW r, NEW v, put'[t] = Over(One(r, v), put[t]),
         MayWrite(t, r, v), op[t].kind \in Reports \cup (Single \ {"grant", "issue"}), pc[t] # "commit",
         pc'[t] \in {"commit", "contact"},
         pc'[t] = "contact" => op[t].kind = "status_v2" /\ db[op[t].row].inst # 0,
         r[1] # "cut", r \notin {<<"key", New(t)>>, <<"token", New(t)>>}, seen'[t] = seen[t],
         r[1] = "inst" /\ v.status = "retired" =>
           op[t].kind = "status" /\ <<Branch, NoKeyUpdate>> \in lock[t] /\ r[2] \notin Owners(db)
  PROVE  TxInv(t)'
<1>1. db' = db /\ op'[t] = op[t]
  BY StatementFrame
<1>2. /\ Fresh(t)' /\ Written(t)'
      /\ DOMAIN put'[t] = DOMAIN put[t] \cup {r} /\ put'[t][r] = v
      /\ \A x \in DOMAIN put[t] : x # r => put'[t][x] = put[t][x]
  BY WritesOne
<1>3. NewKey(t)' /\ NewToken(t)' /\ NewCut(t)' /\ Retires(t)'
  <2>1. op[t].kind \notin {"redeem", "grant", "recover"}
    BY DEF Reports, Single
  <2> QED BY <1>2, <2>1, Harmless
<1>4. OpOk(t)' /\ RedeemInv(t)' /\ SweepInv(t)' /\ SingleInv(t)'
  <2>1. OpOk(t)'
    BY <1>1 DEF TxInv, OpOk
  <2>2. op[t].kind \notin {"redeem", "generate", "recover", "offboard", "issue"}
    BY DEF Reports, Single
  <2>3. op'[t].kind \in Single => pc'[t] = "commit"
    BY <1>1 DEF Single
  <2> QED BY <1>1, <2>1, <2>2, <2>3 DEF RedeemInv, SweepInv, SingleInv
<1> QED BY <1>2, <1>3, <1>4 DEF TxInv

(* The library is suspended or taken into service. *)
LEMMA SetLibraryKeeps ==
  ASSUME Shape, Typed(db), NEW t \in Tx, TxInv(t), Statement(t, Wants(t)), SetLibrary(t)
  PROVE  TxInv(t)'
<1>1. /\ op[t].kind = "library" /\ pc[t] = "org" /\ pc'[t] = "commit" /\ db[Org] # "cancelled"
      /\ put'[t] = Over(One(Org, op[t].arg), put[t]) /\ lock'[t] = lock[t] \cup Wants(t) /\ seen'[t] = seen[t]
  BY GoDoes DEF SetLibrary
<1>2. MayWrite(t, Org, op[t].arg)
  <2>1. <<Org, Update>> \in lock'[t]
    BY <1>1 DEF Wants, OrgLock, ExclusiveOnOrg
  <2>2. Org \in DOMAIN db /\ Org \in (Tables \X Nat) \ {Inst(0), <<"code", 0>>}
    BY DEF Typed
  <2>3. RowOf(Org, op[t].arg) /\ Refers(db, Org, op[t].arg) /\ Keeps(Org, db[Org], op[t].arg)
    BY <1>1 DEF RowOf, Refers, Keeps, Org
  <2> QED BY <2>1, <2>2, <2>3 DEF MayWrite, Exclusive
<1>3. Org[1] = "org" /\ Org[2] = 0
  BY DEF Org
<1> QED BY <1>1, <1>2, <1>3, Lightly DEF Reports, Single

(* The branch has had its first events. *)
LEMMA BranchReadyKeeps ==
  ASSUME Shape, Typed(db), NEW t \in Tx, TxInv(t), Statement(t, Wants(t)), BranchReady(t)
  PROVE  TxInv(t)'
<1>1. /\ op[t].kind = "upload" /\ pc[t] = "ready" /\ pc'[t] = "commit"
      /\ put'[t] = Over(One(Branch, "ready"), put[t]) /\ lock'[t] = lock[t] \cup Wants(t) /\ seen'[t] = seen[t]
  BY GoDoes DEF BranchReady
<1>2. MayWrite(t, Branch, "ready")
  <2>1. <<Branch, NoKeyUpdate>> \in lock'[t]
    BY <1>1 DEF Wants
  <2>2. Branch \in DOMAIN db /\ Branch \in (Tables \X Nat) \ {Inst(0), <<"code", 0>>}
    BY DEF Typed
  <2>3. RowOf(Branch, "ready") /\ Refers(db, Branch, "ready") /\ Keeps(Branch, db[Branch], "ready")
    BY <1>1 DEF RowOf, Refers, Keeps, Branch, Org
  <2> QED BY <2>1, <2>2, <2>3 DEF MayWrite, Exclusive
<1>3. Branch[1] = "branch"
  BY DEF Branch
<1> QED BY <1>1, <1>2, <1>3, Lightly DEF Reports, Single

(* An administrator decides on an installation. *)
LEMMA StatusRowKeeps ==
  ASSUME Shape, Typed(db), NEW t \in Tx, TxInv(t), Statement(t, Wants(t)), StatusRow(t)
  PROVE  TxInv(t)'
<1> DEFINE r == op[t].row
           v == [db[r] EXCEPT !.status = op[t].arg]
<1>1. /\ op[t].kind = "status" /\ pc[t] = "row" /\ pc'[t] = "commit" /\ db[r].status = seen[t]
      /\ put'[t] = Over(One(r, v), put[t]) /\ lock'[t] = lock[t] \cup Wants(t) /\ seen'[t] = seen[t]
  BY GoDoes DEF StatusRow
<1>2. r \in DOMAIN db /\ r[1] = "inst" /\ op[t].arg \in Transitions(db[r].status)
  BY <1>1 DEF TxInv, OpOk, Table
<1>3. db[r] \in [status : Statuses, contract : {1, 2}, heard : Nat] /\ r \in (Tables \X Nat) \ {Inst(0), <<"code", 0>>}
  BY <1>2, RowsArePairs DEF RowOf
<1>4. v \in [status : Statuses, contract : {1, 2}, heard : Nat] /\ v.contract = db[r].contract /\ v.status = op[t].arg
  <2>1. op[t].arg \in Statuses
    BY <1>2, <1>3 DEF Transitions, Statuses
  <2> QED BY <2>1, <1>3
<1>5. MayWrite(t, r, v)
  <2>1. <<r, NoKeyUpdate>> \in lock'[t]
    BY <1>1 DEF Wants
  <2>2. RowOf(r, v) /\ Refers(db, r, v)
    BY <1>2, <1>4 DEF RowOf, Refers
  <2>3. Keeps(r, db[r], v)
    <3>1. /\ db[r].status = "retired" => FALSE
          /\ db[r].status = "inactive" => op[t].arg # "active"
      BY <1>2 DEF Transitions
    <3> QED BY <1>2, <1>4, <3>1 DEF Keeps, Org
  <2> HIDE DEF v, r
  <2> QED BY <1>2, <1>3, <2>1, <2>2, <2>3 DEF MayWrite, Exclusive
<1>6. op[t].arg = "retired" => <<Branch, NoKeyUpdate>> \in lock[t] /\ r[2] \notin Owners(db)
  BY <1>1 DEF TxInv, SingleInv
<1> HIDE DEF v, r
<1> QED BY <1>1, <1>2, <1>4, <1>5, <1>6, Lightly DEF Reports, Single

(* An installation is added. *)
LEMMA CreatePlaceKeeps ==
  ASSUME Shape, Typed(db), NEW t \in Tx, TxInv(t), Statement(t, Wants(t)), CreatePlace(t)
  PROVE  TxInv(t)'
<1> DEFINE r == Inst(New(t))
           v == [status |-> "provisioning", contract |-> op[t].arg, heard |-> 0]
<1>1. /\ op[t].kind = "create" /\ pc[t] = "place" /\ pc'[t] = "commit"
      /\ put'[t] = Over(One(r, v), put[t]) /\ seen'[t] = seen[t]
  BY GoDoes DEF CreatePlace
<1>2. MayWrite(t, r, v)
  <2>1. r \in (Tables \X Nat) \ {Inst(0), <<"code", 0>>} /\ r[2] = New(t) /\ r[1] = "inst"
    BY NewIsNew DEF Inst, Tables
  <2>2. op[t].arg \in {1, 2}
    BY <1>1 DEF TxInv, OpOk
  <2>3. RowOf(r, v) /\ Refers(db, r, v)
    BY <2>1, <2>2 DEF RowOf, Refers, Statuses
  <2> QED BY <2>1, <2>3 DEF MayWrite
<1>3. r[1] = "inst" /\ v.status # "retired"
  BY DEF Inst
<1> HIDE DEF v, r
<1> QED BY <1>1, <1>2, <1>3, Lightly DEF Reports, Single

(* A token is revoked, a key retired. *)
LEMMA RevokeRowKeeps ==
  ASSUME Shape, Typed(db), NEW t \in Tx, TxInv(t), Statement(t, Wants(t)), RevokeRow(t) \/ RetireRow(t)
  PROVE  TxInv(t)'
<1> DEFINE r == op[t].row
<1>1. /\ op[t].kind \in {"revoke", "retire"} /\ pc[t] = "row" /\ pc'[t] = "commit"
      /\ put'[t] = Over(One(r, Ended(db, r)), put[t]) /\ lock'[t] = lock[t] \cup Wants(t) /\ seen'[t] = seen[t]
  BY GoDoes DEF RevokeRow, RetireRow
<1>2. r \in DOMAIN db /\ r[1] \in {"token", "key"}
  BY <1>1 DEF TxInv, OpOk, Table
<1>3. /\ r \in (Tables \X Nat) \ {Inst(0), <<"code", 0>>} /\ RowOf(r, db[r]) /\ Refers(db, r, db[r]) /\ r # Org
      /\ Keeps(r, db[r], db[r])
  BY <1>2, RowsArePairs, KeepsItself DEF Org
<1>4. MayWrite(t, r, Ended(db, r))
  <2>1. <<r, NoKeyUpdate>> \in lock'[t]
    BY <1>1 DEF Wants
  <2>2. RowOf(r, Ended(db, r)) /\ Refers(db, r, Ended(db, r)) /\ Keeps(r, db[r], Ended(db, r))
    <3>1. Live(db, r)
      BY <1>2 DEF RevokeRow, RetireRow, Live
    <3> QED BY <1>2, <1>3, <3>1, EndedRow
  <2> QED BY <1>2, <1>3, <2>1, <2>2 DEF MayWrite, Exclusive
<1>5. r[2] # New(t)
  BY <1>1, <1>2 DEF TxInv, Fresh
<1>6. r \notin {<<"key", New(t)>>, <<"token", New(t)>>}
  BY <1>5
<1> HIDE DEF r
<1> QED BY <1>1, <1>2, <1>4, <1>6, Lightly DEF Reports, Single

(* A key is heard of. *)
LEMMA BeatKeeps ==
  ASSUME Shape, Typed(db), NEW t \in Tx, TxInv(t), Statement(t, Wants(t)), Beat(t)
  PROVE  TxInv(t)'
<1> DEFINE r == op[t].arg
           v == [db[r] EXCEPT !.heard = New(t)]
<1>1. /\ op[t].kind = "status_v2" /\ pc[t] = "beat"
      /\ pc'[t] = IF db[op[t].row].inst = 0 THEN "commit" ELSE "contact"
      /\ put'[t] = Over(One(r, v), put[t]) /\ lock'[t] = lock[t] \cup Wants(t) /\ seen'[t] = seen[t]
  BY GoDoes DEF Beat
<1>2. r \in DOMAIN db /\ r[1] = "key"
  BY <1>1 DEF TxInv, OpOk, Table
<1>3. /\ db[r] \in [owner : Nat, active : BOOLEAN, heard : Nat] /\ Refers(db, r, db[r])
      /\ r \in (Tables \X Nat) \ {Inst(0), <<"code", 0>>}
  BY <1>2, RowsArePairs DEF RowOf
<1>4. v \in [owner : Nat, active : BOOLEAN, heard : Nat] /\ v.owner = db[r].owner /\ v.active = db[r].active
  BY <1>3, NewIsNew
<1>5. MayWrite(t, r, v)
  <2>1. <<r, NoKeyUpdate>> \in lock'[t]
    BY <1>1 DEF Wants
  <2>2. RowOf(r, v) /\ Refers(db, r, v) /\ Keeps(r, db[r], v)
    <3> HIDE DEF v, r
    <3> QED BY <1>2, <1>3, <1>4 DEF RowOf, Refers, Keeps, Org
  <2> HIDE DEF v, r
  <2> QED BY <1>2, <1>3, <2>1, <2>2 DEF MayWrite, Exclusive
<1>6. r[2] # New(t)
  BY <1>1, <1>2 DEF TxInv, Fresh
<1>7. r \notin {<<"key", New(t)>>, <<"token", New(t)>>}
  BY <1>6
<1> HIDE DEF r, v
<1> QED BY <1>1, <1>2, <1>5, <1>7, Lightly DEF Reports, Single

(* An installation is heard of. *)
LEMMA ContactKeeps ==
  ASSUME Shape, Typed(db), NEW t \in Tx, TxInv(t), Statement(t, Wants(t)), Contact(t)
  PROVE  TxInv(t)'
<1> DEFINE r == Inst(db[op[t].row].inst)
           v == [db[r] EXCEPT !.status = "active", !.heard = New(t)]
<1>1. /\ op[t].kind \in {"status_v1", "status_v2"} /\ pc[t] = "contact" /\ pc'[t] = "commit"
      /\ db[r].status \in {"provisioning", "active"}
      /\ put'[t] = Over(One(r, v), put[t]) /\ lock'[t] = lock[t] \cup Wants(t) /\ seen'[t] = seen[t]
  BY GoDoes DEF Contact
<1>2. r \in DOMAIN db /\ r[1] = "inst"
  <2>1. op[t].row \in DOMAIN db /\ op[t].row[1] = "token" /\ db[op[t].row].inst # 0
    BY <1>1 DEF TxInv, OpOk, Table
  <2>2. Refers(db, op[t].row, db[op[t].row])
    BY <2>1, RowsArePairs
  <2> QED BY <2>1, <2>2 DEF Refers, Inst
<1>3. /\ db[r] \in [status : Statuses, contract : {1, 2}, heard : Nat]
      /\ r \in (Tables \X Nat) \ {Inst(0), <<"code", 0>>}
  BY <1>2, RowsArePairs DEF RowOf
<1>4. v \in [status : Statuses, contract : {1, 2}, heard : Nat] /\ v.contract = db[r].contract /\ v.status = "active"
  <2> HIDE DEF r
  <2> QED BY <1>3, NewIsNew DEF Statuses
<1>5. MayWrite(t, r, v)
  <2>1. <<r, NoKeyUpdate>> \in lock'[t]
    BY <1>1 DEF Wants
  <2>2. RowOf(r, v) /\ Refers(db, r, v) /\ Keeps(r, db[r], v)
    <3> HIDE DEF v, r
    <3> QED BY <1>1, <1>2, <1>3, <1>4 DEF RowOf, Refers, Keeps, Org
  <2> HIDE DEF v, r
  <2> QED BY <1>2, <1>3, <2>1, <2>2 DEF MayWrite, Exclusive
<1> HIDE DEF r, v
<1> QED BY <1>1, <1>2, <1>4, <1>5, Lightly DEF Reports, Single

(* One that adds a row of a new id to nothing. *)
LEMMA AddsOne ==
  ASSUME Shape, NEW t \in Tx, TxInv(t), Statement(t, Wants(t)), NEW r, NEW v, put'[t] = Over(One(r, v), put[t]),
         MayWrite(t, r, v), op[t].kind \in {"grant", "issue", "cutover"}, pc[t] # "commit", pc'[t] = "commit",
         seen'[t] = seen[t], op[t].kind = "issue" => <<Org, Share>> \in lock[t]
  PROVE  /\ Fresh(t)' /\ OpOk(t)' /\ Written(t)' /\ RedeemInv(t)' /\ SingleInv(t)' /\ SweepInv(t)'
         /\ DOMAIN put'[t] = {r} /\ put'[t][r] = v
<1>1. db' = db /\ op'[t] = op[t] /\ lock[t] \subseteq lock'[t]
  BY StatementFrame
<1>2. DOMAIN put[t] = {}
  BY DEF TxInv, SingleInv, Single
<1>3. /\ Fresh(t)' /\ Written(t)' /\ DOMAIN put'[t] = DOMAIN put[t] \cup {r} /\ put'[t][r] = v
  BY WritesOne
<1>4. OpOk(t)' /\ RedeemInv(t)' /\ SingleInv(t)' /\ SweepInv(t)'
  BY <1>1 DEF TxInv, OpOk, RedeemInv, SingleInv, SweepInv
<1> QED BY <1>2, <1>3, <1>4

(* An unbound token is added. *)
LEMMA GrantBranchKeeps ==
  ASSUME Shape, Typed(db), NEW t \in Tx, TxInv(t), Statement(t, Wants(t)), GrantBranch(t)
  PROVE  TxInv(t)'
<1> DEFINE r == <<"token", New(t)>>
           v == [inst |-> 0, active |-> TRUE, from |-> 0]
<1>1. /\ op[t].kind = "grant" /\ pc[t] = "branch" /\ pc'[t] = "commit" /\ Owners(db) \subseteq {0}
      /\ put'[t] = Over(One(r, v), put[t]) /\ lock'[t] = lock[t] \cup Wants(t) /\ seen'[t] = seen[t]
      /\ db' = db /\ op'[t] = op[t]
  BY GoDoes DEF GrantBranch
<1>2. MayWrite(t, r, v)
  <2>1. r \in (Tables \X Nat) \ {Inst(0), <<"code", 0>>} /\ r[2] = New(t)
    BY NewIsNew DEF Inst, Tables
  <2>2. RowOf(r, v) /\ Refers(db, r, v)
    BY DEF RowOf, Refers
  <2> HIDE DEF r, v
  <2> QED BY <2>1, <2>2 DEF MayWrite
<1>3. /\ Fresh(t)' /\ OpOk(t)' /\ Written(t)' /\ RedeemInv(t)' /\ SingleInv(t)' /\ SweepInv(t)'
      /\ DOMAIN put'[t] = {r} /\ put'[t][r] = v
  <2> HIDE DEF r, v
  <2> QED BY <1>1, <1>2, AddsOne
<1>4. <<Branch, NoKeyUpdate>> \in lock'[t]
  BY <1>1 DEF Wants, BranchLock
<1>5. Holds(t, Branch, Exclusive)' /\ Owners(db)' \subseteq {0} /\ New(t)' = New(t)
  BY <1>1, <1>4 DEF Holds, Exclusive, New
<1>6. NewToken(t)'
  BY <1>1, <1>3, <1>5 DEF NewToken
<1>7. NewKey(t)' /\ NewCut(t)' /\ Retires(t)'
  BY <1>3 DEF NewKey, NewCut, Retires
<1> QED BY <1>3, <1>6, <1>7 DEF TxInv

(* An unowned key is added. *)
LEMMA IssueBranchKeeps ==
  ASSUME Shape, Typed(db), NEW t \in Tx, TxInv(t), Statement(t, Wants(t)), IssueBranch(t)
  PROVE  TxInv(t)'
<1> DEFINE r == <<"key", New(t)>>
           v == [owner |-> 0, active |-> TRUE, heard |-> 0]
<1>1. /\ op[t].kind = "issue" /\ pc[t] = "branch" /\ pc'[t] = "commit" /\ ActiveKeys(db) = {}
      /\ \A q \in Table(db, "key") : db[q].owner = 0
      /\ \A q \in Table(db, "cut") : db[q].by # "enrollment"
      /\ put'[t] = Over(One(r, v), put[t]) /\ lock'[t] = lock[t] \cup Wants(t) /\ seen'[t] = seen[t]
      /\ db' = db /\ op'[t] = op[t]
  BY GoDoes DEF IssueBranch
<1>2. MayWrite(t, r, v)
  <2>1. r \in (Tables \X Nat) \ {Inst(0), <<"code", 0>>} /\ r[2] = New(t)
    BY NewIsNew DEF Inst, Tables
  <2>2. RowOf(r, v) /\ Refers(db, r, v)
    BY DEF RowOf, Refers
  <2> HIDE DEF r, v
  <2> QED BY <2>1, <2>2 DEF MayWrite
<1>3. <<Org, Share>> \in lock[t]
  BY <1>1 DEF TxInv, SingleInv
<1>4. /\ Fresh(t)' /\ OpOk(t)' /\ Written(t)' /\ RedeemInv(t)' /\ SingleInv(t)' /\ SweepInv(t)'
      /\ DOMAIN put'[t] = {r} /\ put'[t][r] = v
  <2> HIDE DEF r, v
  <2> QED BY <1>1, <1>2, <1>3, AddsOne
<1>5. <<Branch, NoKeyUpdate>> \in lock'[t]
  BY <1>1 DEF Wants, BranchLock
<1>6. Holds(t, Branch, Exclusive)' /\ ActiveKeys(db)' = {} /\ New(t)' = New(t)
  BY <1>1, <1>5 DEF Holds, Exclusive, New
<1>7. NewKey(t)'
  <2>1. v.owner = 0 /\ r[1] # "inst"
    OBVIOUS
  <2>2. /\ \A q \in Table(db', "key") : db'[q].owner = 0
        /\ \A q \in Table(db', "cut") : db'[q].by # "enrollment"
    BY <1>1
  <2> HIDE DEF v
  <2> QED BY <1>1, <1>3, <1>4, <1>6, <2>1, <2>2 DEF NewKey
<1>8. NewToken(t)' /\ NewCut(t)' /\ Retires(t)'
  BY <1>4 DEF NewToken, NewCut, Retires
<1> QED BY <1>4, <1>7, <1>8 DEF TxInv

(* An operator's cutover is added. *)
LEMMA CutoverKeeps ==
  ASSUME Shape, Typed(db), NEW t \in Tx, TxInv(t), Statement(t, Wants(t)), CutoverInsert(t)
  PROVE  TxInv(t)'
<1> DEFINE r == <<"cut", New(t)>>
           v == [by |-> "operator", code |-> 0, inst |-> 0]
<1>1. /\ op[t].kind = "cutover" /\ pc[t] = "events" /\ pc'[t] = "commit"
      /\ put'[t] = Over(One(r, v), put[t]) /\ lock'[t] = lock[t] \cup Wants(t) /\ seen'[t] = seen[t]
      /\ db' = db /\ op'[t] = op[t]
  BY GoDoes DEF CutoverInsert
<1>2. MayWrite(t, r, v)
  <2>1. r \in (Tables \X Nat) \ {Inst(0), <<"code", 0>>} /\ r[2] = New(t)
    BY NewIsNew DEF Inst, Tables
  <2>2. RowOf(r, v) /\ Refers(db, r, v)
    BY DEF RowOf, Refers
  <2> HIDE DEF r, v
  <2> QED BY <2>1, <2>2 DEF MayWrite
<1>3. /\ Fresh(t)' /\ OpOk(t)' /\ Written(t)' /\ RedeemInv(t)' /\ SingleInv(t)' /\ SweepInv(t)'
      /\ DOMAIN put'[t] = {r} /\ put'[t][r] = v
  <2> HIDE DEF r, v
  <2> QED BY <1>1, <1>2, AddsOne
<1>4. <<Branch, KeyShare>> \in lock'[t]
  BY <1>1 DEF Wants
<1>5. Holds(t, Branch, 1..4)' /\ New(t)' = New(t)
  BY <1>1, <1>4 DEF Holds, New, KeyShare
<1>6. NewCut(t)'
  BY <1>1, <1>3, <1>5 DEF NewCut
<1>7. NewKey(t)' /\ NewToken(t)' /\ Retires(t)'
  BY <1>3 DEF NewKey, NewToken, Retires
<1> QED BY <1>3, <1>6, <1>7 DEF TxInv

-----------------------------------------------------------------------------
(* A statement and its own transaction: those that sweep.                  *)

Sweeps == {"generate", "recover", "offboard"}

(* Of the other parts a sweep knows nothing. *)
LEMMA SweepRest ==
  ASSUME Shape, NEW t \in Tx, TxInv(t), Statement(t, Wants(t)), op[t].kind \in Sweeps
  PROVE  OpOk(t)' /\ RedeemInv(t)' /\ SingleInv(t)'
<1>1. db' = db /\ op'[t] = op[t]
  BY StatementFrame
<1> QED BY <1>1 DEF TxInv, OpOk, RedeemInv, SingleInv, Single, Sweeps

(* The installation's unused codes are found. *)
LEMMA GenerateHoldKeeps ==
  ASSUME Shape, NEW t \in Tx, TxInv(t), Statement(t, Wants(t)), GenerateHold(t)
  PROVE  TxInv(t)'
<1>1. /\ op[t].kind = "generate" /\ pc[t] = "hold" /\ pc'[t] = "sweep" /\ put'[t] = Over(<<>>, put[t])
      /\ todo'[t] = LiveOf(db, "code", op[t].row[2]) /\ db' = db /\ op'[t] = op[t]
  BY SweepDoes DEF GenerateHold
<1>2. put'[t] = put[t] /\ Fresh(t)' /\ Written(t)' /\ NewKey(t)' /\ NewToken(t)' /\ NewCut(t)' /\ Retires(t)'
  BY <1>1, Silent
<1>3. SweepInv(t)'
  <2>1. LiveOf(db, "code", op[t].row[2]) \subseteq Table(db, "code") /\ Table(db, "code") \subseteq DOMAIN db
    BY DEF LiveOf, LiveIn, Table
  <2> QED BY <1>1, <1>2, <2>1 DEF TxInv, SweepInv
<1> QED BY <1>1, <1>2, <1>3, SweepRest DEF TxInv, Sweeps

(* The new code is added. *)
LEMMA GenerateInsertKeeps ==
  ASSUME Shape, Typed(db), NEW t \in Tx, TxInv(t), Statement(t, Wants(t)), GenerateInsert(t)
  PROVE  TxInv(t)'
<1> DEFINE r == <<"code", New(t)>>
           v == [inst |-> op[t].row[2], contract |-> db[op[t].row].contract, state |-> "unused", at |-> 0]
<1>1. /\ op[t].kind = "generate" /\ pc[t] = "sweep" /\ pc'[t] = "commit" /\ todo'[t] = todo[t]
      /\ put'[t] = Over(One(r, v), put[t]) /\ db' = db /\ op'[t] = op[t]
  BY GoDoes DEF GenerateInsert
<1>2. op[t].row \in DOMAIN db /\ op[t].row[1] = "inst"
  BY <1>1 DEF TxInv, OpOk, Table
<1>3. op[t].row = Inst(op[t].row[2]) /\ op[t].row[2] \in Nat /\ db[op[t].row].contract \in {1, 2}
  BY <1>2, RowsArePairs DEF RowOf
<1>4. MayWrite(t, r, v)
  <2>1. r \in (Tables \X Nat) \ {Inst(0), <<"code", 0>>} /\ r[2] = New(t)
    BY NewIsNew DEF Inst, Tables
  <2>2. RowOf(r, v)
    BY <1>3 DEF RowOf
  <2>3. Refers(db, r, v)
    <3>1. v.inst = op[t].row[2] /\ v.contract = db[op[t].row].contract /\ r[1] = "code"
      OBVIOUS
    <3> HIDE DEF v
    <3> QED BY <1>2, <1>3, <3>1 DEF Refers
  <2> HIDE DEF r, v
  <2> QED BY <2>1, <2>2, <2>3 DEF MayWrite
<1>5. /\ Fresh(t)' /\ Written(t)' /\ DOMAIN put'[t] = DOMAIN put[t] \cup {r} /\ put'[t][r] = v
      /\ \A x \in DOMAIN put[t] : x # r => put'[t][x] = put[t][x]
  <2> HIDE DEF r, v
  <2> QED BY <1>1, <1>4, WritesOne
<1>6. NewKey(t)' /\ NewToken(t)' /\ NewCut(t)' /\ Retires(t)'
  <2>1. r[1] = "code" /\ r \notin {<<"key", New(t)>>, <<"token", New(t)>>}
    OBVIOUS
  <2> HIDE DEF r, v
  <2> QED BY <1>1, <1>5, <2>1, Harmless
<1>7. SweepInv(t)'
  BY <1>1, <1>5 DEF TxInv, SweepInv
<1> QED BY <1>1, <1>5, <1>6, <1>7, SweepRest DEF TxInv, Sweeps

(* The installation's tokens are found, and then are all ended. *)
LEMMA RecoverSilent ==
  ASSUME Shape, NEW t \in Tx, TxInv(t), Statement(t, Wants(t)), RecoverOrg(t) \/ RecoverTokens(t)
  PROVE  TxInv(t)'
<1>1. /\ op[t].kind = "recover" /\ pc[t] \in {"org", "sweep"} /\ put'[t] = Over(<<>>, put[t])
      /\ lock'[t] = lock[t] \cup Wants(t) /\ db' = db /\ op'[t] = op[t]
  BY GoDoes, SweepDoes DEF RecoverOrg, RecoverTokens
<1>2. put'[t] = put[t] /\ Fresh(t)' /\ Written(t)' /\ NewKey(t)' /\ NewToken(t)' /\ NewCut(t)' /\ Retires(t)'
  BY <1>1, Silent
<1>3. View(t)' = View(t)
  BY <1>1, <1>2 DEF View
<1>4. SweepInv(t)'
  <2>1. CASE RecoverOrg(t)
    <3>1. pc[t] = "org" /\ pc'[t] = "sweep" /\ todo'[t] = LiveOf(db, "token", op[t].row[2])
      BY <2>1, SweepDoes DEF RecoverOrg
    <3>2. <<Org, Update>> \in lock'[t]
      BY <1>1, <3>1 DEF Wants, OrgLock, ExclusiveOnOrg
    <3>3. DOMAIN put[t] = {}
      BY <1>1, <3>1 DEF TxInv, SweepInv
    <3>4. LiveOf(View(t), "token", op[t].row[2]) \subseteq LiveOf(db, "token", op[t].row[2])
      BY <3>3, ViewRows, LiveTokens
    <3>5. LiveOf(db, "token", op[t].row[2]) \subseteq Table(db, "token") /\ Table(db, "token") \subseteq DOMAIN db
      BY DEF LiveOf, LiveIn, Table
    <3> QED BY <1>1, <1>2, <1>3, <3>1, <3>2, <3>3, <3>4, <3>5 DEF SweepInv
  <2>2. CASE RecoverTokens(t)
    <3>1. pc[t] = "sweep" /\ pc'[t] = "hold" /\ todo'[t] = todo[t] /\ todo[t] = {}
      BY <2>2, GoDoes DEF RecoverTokens
    <3> QED BY <1>1, <1>2, <1>3, <3>1 DEF TxInv, SweepInv
  <2> QED BY <2>1, <2>2
<1> QED BY <1>1, <1>2, <1>4, SweepRest DEF TxInv, Sweeps

(* The new token is added. *)
LEMMA RecoverHoldKeeps ==
  ASSUME Shape, Typed(db), Kept(db), NEW t \in Tx, TxInv(t), Statement(t, Wants(t)), RecoverHold(t)
  PROVE  TxInv(t)'
<1> DEFINE i == op[t].row[2]
           r == <<"token", New(t)>>
           v == [inst |-> i, active |-> TRUE, from |-> 0]
<1>1. /\ op[t].kind = "recover" /\ pc[t] = "hold" /\ pc'[t] = "commit" /\ Owners(db) = {i} /\ todo'[t] = todo[t]
      /\ put'[t] = Over(One(r, v), put[t]) /\ lock'[t] = lock[t] \cup Wants(t) /\ db' = db /\ op'[t] = op[t]
  BY GoDoes DEF RecoverHold
<1>2. Inst(i) \in DOMAIN db /\ i \in Nat /\ i # 0
  <2>1. op[t].row \in DOMAIN db /\ op[t].row[1] = "inst"
    BY <1>1 DEF TxInv, OpOk, Table
  <2> QED BY <2>1, RowsArePairs
<1>3. Table(db, "cut") # {}
  <2>1. PICK q \in ActiveKeys(db) : db[q].owner = i
    BY <1>1 DEF Owners
  <2>2. q \in Table(db, "key")
    BY DEF ActiveKeys
  <2> QED BY <1>2, <2>1, <2>2 DEF Kept
<1>4. /\ <<Org, Update>> \in lock[t] /\ todo[t] = {} /\ LiveOf(View(t), "token", i) = {}
      /\ \A x \in DOMAIN put[t] : x[1] = "token"
      /\ DOMAIN put[t] \subseteq DOMAIN db
  BY <1>1 DEF TxInv, SweepInv
<1>5. MayWrite(t, r, v)
  <2>1. r \in (Tables \X Nat) \ {Inst(0), <<"code", 0>>} /\ r[2] = New(t)
    BY NewIsNew DEF Inst, Tables
  <2>2. RowOf(r, v) /\ Refers(db, r, v)
    BY <1>2 DEF RowOf, Refers
  <2> HIDE DEF r, v
  <2> QED BY <2>1, <2>2 DEF MayWrite
<1>6. /\ Fresh(t)' /\ Written(t)' /\ DOMAIN put'[t] = DOMAIN put[t] \cup {r} /\ put'[t][r] = v
      /\ \A x \in DOMAIN put[t] : x # r => put'[t][x] = put[t][x]
  <2> HIDE DEF r, v
  <2> QED BY <1>1, <1>5, WritesOne
<1>7. \A x \in DOMAIN put'[t] : x[1] = "token"
  BY <1>4, <1>6
<1>8. NewToken(t)'
  <2>1. LiveOf(View(t)', "token", i) \subseteq {r}
    <3>1. View(t)' = Over(put'[t], db) /\ View(t) = Over(put[t], db)
      BY <1>1 DEF View
    <3>2. \A x \in DOMAIN View(t)' : x # r => x \in DOMAIN View(t) /\ View(t)'[x] = View(t)[x]
      <4> HIDE DEF r, v
      <4> QED BY <1>6, <3>1 DEF Over
    <3>3. LiveOf(View(t), "token", i) = {x \in DOMAIN View(t) : x[1] = "token" /\ View(t)[x].active /\ View(t)[x].inst = i}
      BY LiveTokens
    <3>4. LiveOf(View(t)', "token", i) = {x \in DOMAIN View(t)' : x[1] = "token" /\ View(t)'[x].active /\ View(t)'[x].inst = i}
      BY LiveTokens
    <3> HIDE DEF r, v
    <3> QED BY <1>4, <3>2, <3>3, <3>4
  <2>2. /\ put'[t][r].inst = i /\ New(t)' = New(t)
    BY <1>6 DEF New
  <2>3. Holds(t, Org, {Share, Update})' /\ <<Org, Update>> \in lock'[t] /\ Table(db', "cut") # {}
    BY <1>1, <1>3, <1>4 DEF Holds
  <2> HIDE DEF v, i
  <2> QED BY <1>1, <1>2, <2>1, <2>2, <2>3 DEF NewToken
<1>9. NewKey(t)' /\ NewCut(t)' /\ Retires(t)'
  BY <1>7 DEF NewKey, NewCut, Retires
<1>10. SweepInv(t)'
  <2>1. \A x \in Table(db, "token") : x \in DOMAIN db
    BY DEF Table
  <2> HIDE DEF r, v, i
  <2> QED BY <1>1, <1>4, <1>7, <2>1 DEF SweepInv
<1> QED BY <1>1, <1>6, <1>8, <1>9, <1>10, SweepRest DEF TxInv, Sweeps

(* A row of a sweep: the invariant of what is left to sweep. *)
LEMMA SweepRowKeeps ==
  ASSUME Shape, Typed(db), NEW t \in Tx, TxInv(t), Statement(t, Wants(t)), SweepRow(t)
  PROVE  TxInv(t)'
<1> DEFINE r == First(todo[t])
           v == Ended(View(t), r)
<1>1. /\ op[t].kind \in Sweeps /\ pc[t] = "sweep" /\ pc'[t] = "sweep" /\ seen'[t] = seen[t] /\ todo[t] # {}
      /\ todo'[t] = todo[t] \ {r} /\ lock'[t] = lock[t] \cup Wants(t) /\ db' = db /\ op'[t] = op[t]
      /\ put'[t] = Over(IF Live(View(t), r) THEN One(r, v) ELSE <<>>, put[t])
  BY DEF SweepRow, At, Take, Shape, Sweeps
<1>2. /\ todo[t] \subseteq DOMAIN db
      /\ \A x \in todo[t] : /\ x[1] \in {"inst", "code", "token", "key"}
                            /\ op[t].kind = "generate" => x[1] = "code"
                            /\ op[t].kind = "recover" => x[1] = "token"
  BY <1>1 DEF TxInv, SweepInv, Sweeps, Table
<1>3. r \in todo[t] /\ r \in DOMAIN db
  <2>1. \A x \in todo[t] : x[2] \in Nat
    BY <1>2, RowsArePairs
  <2> QED BY <1>1, <1>2, <2>1, FirstIsOne
<1>4. /\ DOMAIN View(t) = DOMAIN put[t] \cup DOMAIN db
      /\ \A x \in DOMAIN put[t] : View(t)[x] = put[t][x]
      /\ \A x \in DOMAIN db : x \notin DOMAIN put[t] => View(t)[x] = db[x]
  BY ViewRows
<1>5. /\ RowOf(r, View(t)[r]) /\ Refers(db, r, View(t)[r]) /\ Keeps(r, db[r], View(t)[r])
      /\ r \in (Tables \X Nat) \ {Inst(0), <<"code", 0>>}
  <2> HIDE DEF r
  <2>1. r \in (Tables \X Nat) \ {Inst(0), <<"code", 0>>} /\ RowOf(r, db[r]) /\ Refers(db, r, db[r]) /\ Keeps(r, db[r], db[r])
    BY <1>3, RowsArePairs, KeepsItself
  <2>2. CASE r \in DOMAIN put[t]
    <3>1. Mine(t, r, put[t][r]) /\ r[2] # New(t)
      BY <1>1, <1>3, <2>2 DEF TxInv, Written, Fresh
    <3> QED BY <1>4, <2>1, <2>2, <3>1 DEF Mine
  <2>3. CASE r \notin DOMAIN put[t]
    BY <1>3, <1>4, <2>1, <2>3
  <2> QED BY <2>2, <2>3
<1>6. r[2] # New(t)
  BY <1>1, <1>3 DEF TxInv, Fresh
<1>7. /\ Fresh(t)' /\ Written(t)' /\ NewKey(t)' /\ NewToken(t)' /\ NewCut(t)' /\ Retires(t)'
      /\ DOMAIN put[t] \subseteq DOMAIN put'[t] /\ DOMAIN put'[t] \subseteq DOMAIN put[t] \cup {r}
      /\ \A x \in DOMAIN put[t] : x # r => put'[t][x] = put[t][x]
      /\ r[1] \in {"token", "key"} =>
           IF r \in DOMAIN put'[t] THEN ~put'[t][r].active ELSE ~View(t)[r].active
  <2>1. CASE ~Live(View(t), r)
    <3>1. put'[t] = put[t] /\ Fresh(t)' /\ Written(t)' /\ NewKey(t)' /\ NewToken(t)' /\ NewCut(t)' /\ Retires(t)'
      BY <1>1, <2>1, Silent
    <3>2. r[1] \in {"token", "key"} => ~View(t)[r].active
      BY <2>1 DEF Live
    <3> HIDE DEF r
    <3> QED BY <1>4, <3>1, <3>2
  <2>2. CASE Live(View(t), r)
    <3>1. /\ RowOf(r, v) /\ Keeps(r, db[r], v) /\ Refers(db, r, v)
          /\ r[1] \in {"token", "key"} => ~v.active
      <4>1. r # Org /\ r[1] \in {"inst", "code", "token", "key"}
        BY <1>2, <1>3 DEF Org
      <4> HIDE DEF r
      <4> QED BY <2>2, <1>5, <4>1, EndedRow
    <3>2. MayWrite(t, r, v)
      <4>1. <<r, NoKeyUpdate>> \in lock'[t]
        BY <1>1 DEF Wants
      <4> HIDE DEF r, v
      <4> QED BY <1>3, <1>5, <3>1, <4>1 DEF MayWrite, Exclusive
    <3>3. /\ Fresh(t)' /\ Written(t)' /\ DOMAIN put'[t] = DOMAIN put[t] \cup {r} /\ put'[t][r] = v
          /\ \A x \in DOMAIN put[t] : x # r => put'[t][x] = put[t][x]
      <4>1. put'[t] = Over(One(r, v), put[t])
        BY <1>1, <2>2
      <4> HIDE DEF r, v
      <4> QED BY <3>2, <4>1, WritesOne
    <3>4. NewKey(t)' /\ NewToken(t)' /\ NewCut(t)' /\ Retires(t)'
      <4> HIDE DEF r, v
      <4>1. CASE op[t].kind = "recover"
        <5>1. \A x \in DOMAIN put'[t] : x[1] = "token" /\ x[2] # New(t)
          BY <1>1, <1>2, <1>3, <1>6, <3>3, <4>1 DEF TxInv, SweepInv, Fresh
        <5> QED BY <5>1 DEF NewKey, NewToken, NewCut, Retires, New
      <4>2. CASE op[t].kind # "recover"
        <5>1. op[t].kind \in {"generate", "offboard"}
          BY <1>1, <4>2 DEF Sweeps
        <5>2. r[1] # "cut" /\ r \notin {<<"key", New(t)>>, <<"token", New(t)>>} /\ (r[1] = "inst" => op[t].kind = "offboard")
          BY <1>2, <1>3, <1>6, <5>1
        <5> QED BY <1>1, <3>3, <5>1, <5>2, Harmless
      <4> QED BY <4>1, <4>2
    <3> HIDE DEF r, v
    <3> QED BY <3>1, <3>3, <3>4
  <2> QED BY <2>1, <2>2
<1>8. SweepInv(t)'
  <2> HIDE DEF r
  <2>1. \A x \in DOMAIN View(t)' : x[1] \in {"token", "key"} /\ View(t)'[x].active =>
          x # r /\ x \in DOMAIN View(t) /\ View(t)'[x] = View(t)[x]
    <3>1. /\ DOMAIN View(t)' = DOMAIN put'[t] \cup DOMAIN db
          /\ \A x \in DOMAIN put'[t] : View(t)'[x] = put'[t][x]
          /\ \A x \in DOMAIN db : x \notin DOMAIN put'[t] => View(t)'[x] = db[x]
      <4>1. View(t)' = Over(put'[t], db)
        BY <1>1 DEF View
      <4> QED BY ONLY <4>1 DEF Over
    <3> QED BY <1>3, <1>4, <1>7, <3>1
  <2>2. CASE op[t].kind = "generate"
    BY <2>2, <1>1, <1>2, <1>3, <1>7 DEF TxInv, SweepInv
  <2>3. CASE op[t].kind = "recover"
    <3> DEFINE i == op[t].row[2]
    <3>1. /\ <<Org, Update>> \in lock[t] /\ todo[t] \subseteq Table(db, "token") /\ DOMAIN put[t] \subseteq DOMAIN db
          /\ \A x \in DOMAIN put[t] : x[1] = "token"
          /\ LiveOf(View(t), "token", i) \subseteq todo[t]
      BY <2>3, <1>1 DEF TxInv, SweepInv
    <3>2. LiveOf(View(t)', "token", i) \subseteq todo[t] \ {r}
      <4>1. LiveOf(View(t), "token", i) = {x \in DOMAIN View(t) : x[1] = "token" /\ View(t)[x].active /\ View(t)[x].inst = i}
        BY LiveTokens
      <4>2. LiveOf(View(t)', "token", i) = {x \in DOMAIN View(t)' : x[1] = "token" /\ View(t)'[x].active /\ View(t)'[x].inst = i}
        BY LiveTokens
      <4> HIDE DEF i
      <4> QED BY <2>1, <3>1, <4>1, <4>2
    <3> QED BY <2>3, <1>1, <1>2, <1>3, <1>7, <3>1, <3>2 DEF SweepInv
  <2>4. CASE op[t].kind = "offboard"
    <3>1. /\ <<Org, Update>> \in lock[t] /\ DOMAIN put[t] \subseteq DOMAIN db
          /\ seen[t] \in {"token", "inst", "code", "key"}
          /\ seen[t] = "key" => ActiveKeys(View(t)) \subseteq todo[t]
      BY <2>4, <1>1 DEF TxInv, SweepInv
    <3>2. seen[t] = "key" => ActiveKeys(View(t)') \subseteq todo[t] \ {r}
      <4>1. ActiveKeys(View(t)) = {x \in DOMAIN View(t) : x[1] = "key" /\ View(t)[x].active}
        BY LiveKeys
      <4>2. ActiveKeys(View(t)') = {x \in DOMAIN View(t)' : x[1] = "key" /\ View(t)'[x].active}
        BY LiveKeys
      <4> QED BY <2>1, <3>1, <4>1, <4>2
    <3> QED BY <2>4, <1>1, <1>2, <1>3, <1>7, <3>1, <3>2 DEF SweepInv
  <2> QED BY <1>1, <2>2, <2>3, <2>4 DEF Sweeps
<1> QED BY <1>1, <1>7, <1>8, SweepRest DEF TxInv

(* The library is cancelled. *)
LEMMA OffboardOrgKeeps ==
  ASSUME Shape, Typed(db), NEW t \in Tx, TxInv(t), Statement(t, Wants(t)), OffboardOrg(t)
  PROVE  TxInv(t)'
<1>1. /\ op[t].kind = "offboard" /\ pc[t] = "org" /\ pc'[t] = "sweep" /\ seen'[t] = "token" /\ db[Org] # "cancelled"
      /\ todo'[t] = LiveIn(db, "token") /\ put'[t] = Over(One(Org, "cancelled"), put[t])
      /\ lock'[t] = lock[t] \cup Wants(t) /\ db' = db /\ op'[t] = op[t]
  BY SweepDoes DEF OffboardOrg
<1>2. <<Org, Update>> \in lock'[t]
  BY <1>1 DEF Wants, OrgLock, ExclusiveOnOrg
<1>3. Org \in DOMAIN db /\ Org \in (Tables \X Nat) \ {Inst(0), <<"code", 0>>}
  BY DEF Typed
<1>4. MayWrite(t, Org, "cancelled")
  <2>1. RowOf(Org, "cancelled") /\ Refers(db, Org, "cancelled") /\ Keeps(Org, db[Org], "cancelled")
    BY <1>1 DEF RowOf, Refers, Keeps, Org
  <2> QED BY <1>2, <1>3, <2>1 DEF MayWrite, Exclusive
<1>5. /\ Fresh(t)' /\ Written(t)' /\ DOMAIN put'[t] = DOMAIN put[t] \cup {Org} /\ put'[t][Org] = "cancelled"
      /\ \A x \in DOMAIN put[t] : x # Org => put'[t][x] = put[t][x]
  BY <1>1, <1>4, WritesOne
<1>6. NewKey(t)' /\ NewToken(t)' /\ NewCut(t)' /\ Retires(t)'
  <2>1. Org[1] = "org" /\ Org \notin {<<"key", New(t)>>, <<"token", New(t)>>}
    BY DEF Org
  <2> QED BY <1>1, <1>5, <2>1, Harmless
<1>7. SweepInv(t)'
  <2>1. \A x \in LiveIn(db, "token") : x \in DOMAIN db /\ x[1] = "token"
    BY DEF LiveIn, Table
  <2>2. DOMAIN put'[t] \subseteq DOMAIN db
    BY <1>1, <1>3, <1>5 DEF TxInv, SweepInv
  <2> QED BY <1>1, <1>2, <2>1, <2>2 DEF SweepInv
<1> QED BY <1>1, <1>5, <1>6, <1>7, SweepRest DEF TxInv, Sweeps

(* One table has been swept and the next is begun. *)
LEMMA OffboardSilent ==
  ASSUME Shape, NEW t \in Tx, TxInv(t), Statement(t, Wants(t)), OffboardNext(t) \/ OffboardEnd(t)
  PROVE  TxInv(t)'
<1>1. /\ op[t].kind = "offboard" /\ pc[t] = "sweep" /\ put'[t] = Over(<<>>, put[t]) /\ todo[t] = {}
      /\ lock'[t] = lock[t] \cup Wants(t) /\ db' = db /\ op'[t] = op[t]
  BY GoDoes, SweepDoes DEF OffboardNext, OffboardEnd
<1>2. put'[t] = put[t] /\ Fresh(t)' /\ Written(t)' /\ NewKey(t)' /\ NewToken(t)' /\ NewCut(t)' /\ Retires(t)'
  BY <1>1, Silent
<1>3. View(t)' = View(t)
  BY <1>1, <1>2 DEF View
<1>4. /\ <<Org, Update>> \in lock[t] /\ DOMAIN put[t] \subseteq DOMAIN db
      /\ seen[t] \in {"token", "inst", "code", "key"}
      /\ seen[t] = "key" => ActiveKeys(View(t)) \subseteq todo[t]
  BY <1>1 DEF TxInv, SweepInv
<1>5. SweepInv(t)'
  <2>1. CASE OffboardNext(t)
    <3>1. pc'[t] = "sweep" /\ seen'[t] = NextStage(seen[t]) /\ todo'[t] = LiveIn(View(t), NextStage(seen[t])) /\ seen[t] # "key"
      BY <2>1, SweepDoes DEF OffboardNext
    <3>2. NextStage(seen[t]) \in {"inst", "code", "key"}
      BY <1>4, <3>1 DEF NextStage
    <3>3. DOMAIN View(t) = DOMAIN db
      BY <1>4, ViewRows
    <3>4. LiveIn(View(t), "key") = ActiveKeys(View(t))
      BY LiveKeys
    <3>5. \A x \in todo'[t] : x \in DOMAIN db /\ x[1] = NextStage(seen[t])
      BY <3>1, <3>3 DEF LiveIn, Table
    <3>6. seen'[t] = "key" => ActiveKeys(View(t)') \subseteq todo'[t]
      BY <1>3, <3>1, <3>4
    <3>7. /\ \A x \in todo'[t] : x \in DOMAIN db /\ x[1] \in {"token", "inst", "code", "key"}
          /\ seen'[t] \in {"token", "inst", "code", "key"}
      BY <3>1, <3>2, <3>5
    <3> QED BY <1>1, <1>2, <1>4, <3>1, <3>6, <3>7 DEF SweepInv
  <2>2. CASE OffboardEnd(t)
    <3>1. pc'[t] = "commit" /\ todo'[t] = todo[t] /\ seen'[t] = seen[t] /\ seen[t] = "key"
      BY <2>2, GoDoes DEF OffboardEnd
    <3> QED BY <1>1, <1>2, <1>3, <1>4, <3>1 DEF SweepInv
  <2> QED BY <2>1, <2>2
<1> QED BY <1>1, <1>2, <1>5, SweepRest DEF TxInv, Sweeps

(* Every statement keeps the invariant of its own transaction. *)
LEMMA StepKeeps ==
  ASSUME Shape, Typed(db), Kept(db), NEW t \in Tx, TxInv(t), Step(t)
  PROVE  TxInv(t)'
<1>1. Statement(t, Wants(t))
  BY StepIsStatement
<1>2. CASE RedeemOrg(t) \/ RedeemCode(t) \/ RedeemScope(t) \/ RedeemBranch(t) \/ RedeemToken(t) \/ RedeemKey(t)
  BY <1>1, <1>2, RedeemSilent, RedeemTokenKeeps, RedeemKeyKeeps
<1>3. CASE GenerateHold(t) \/ GenerateInsert(t) \/ RecoverOrg(t) \/ RecoverTokens(t) \/ RecoverHold(t)
  BY <1>1, <1>3, GenerateHoldKeeps, GenerateInsertKeeps, RecoverSilent, RecoverHoldKeeps
<1>4. CASE SweepRow(t) \/ OffboardOrg(t) \/ OffboardNext(t) \/ OffboardEnd(t)
  BY <1>1, <1>4, SweepRowKeeps, OffboardOrgKeeps, OffboardSilent
<1>5. CASE SetLibrary(t) \/ StatusBranch(t) \/ StatusRow(t) \/ CreatePlace(t) \/ RevokeOrg(t) \/ RevokeRow(t)
  BY <1>1, <1>5, SetLibraryKeeps, SingleSilent, StatusRowKeeps, CreatePlaceKeeps, RevokeRowKeeps
<1>6. CASE GrantOrg(t) \/ GrantBranch(t) \/ IssueOrg(t) \/ IssueBranch(t) \/ RetireRow(t) \/ CutoverInsert(t)
  BY <1>1, <1>6, SingleSilent, GrantBranchKeeps, IssueBranchKeeps, RevokeRowKeeps, CutoverKeeps
<1>7. CASE Touch(t) \/ Beat(t) \/ Contact(t) \/ StoreEvents(t) \/ BranchReady(t)
  BY <1>1, <1>7, ReportSilent, BeatKeeps, ContactKeeps, BranchReadyKeeps
<1> QED BY <1>2, <1>3, <1>4, <1>5, <1>6, <1>7 DEF Step

-----------------------------------------------------------------------------
(* The beginning of a transaction and its end.                             *)

(* A transaction that begins. *)
LEMMA BeginKeeps ==
  ASSUME Shape, Exclusion, NEW t \in Tx, \A u \in Tx : TxInv(u), Begin(t)
  PROVE  Shape' /\ Exclusion' /\ db' = db /\ \A u \in Tx : TxInv(u)'
<1>1. PICK o \in AdminOps \cup ScriptOps \cup AgentOps :
        /\ o.kind = "status" => o.arg \in Transitions(db[o.row].status)
        /\ op' = [op EXCEPT ![t] = o] /\ pc' = [pc EXCEPT ![t] = FirstStatement(o)]
        /\ seen' = [seen EXCEPT ![t] = IF o.kind = "status" THEN db[o.row].status ELSE "none"]
  BY DEF Begin
<1>2. /\ pc[t] = "idle" /\ db' = db /\ todo' = todo /\ put' = put /\ lock' = lock
  BY DEF Begin, Waiting
<1>3. lock[t] = {} /\ todo[t] = {} /\ DOMAIN put[t] = {}
  BY <1>2 DEF Shape, Running
<1>4. /\ o.kind \in {"redeem", "generate", "recover", "status", "revoke", "create", "library", "offboard", "cutover",
                     "grant", "issue", "retire", "status_v1", "status_v2", "upload"}
      /\ o.kind = "redeem" => o.row \in Table(db, "code")
      /\ o.kind \in {"generate", "recover", "status"} => o.row \in Table(db, "inst")
      /\ o.kind \in {"revoke", "status_v1", "status_v2", "upload"} => o.row \in Table(db, "token")
      /\ o.kind = "retire" => o.row \in Table(db, "key")
      /\ o.kind \in {"status_v2", "upload"} => o.arg \in Table(db, "key")
      /\ o.kind = "status_v1" => db[o.row].inst # 0
      /\ o.kind = "create" => o.arg \in {1, 2}
  <2>1. CASE o \in AdminOps
    BY <2>1 DEF AdminOps, Op, LiveOf, LiveIn, Table
  <2>2. CASE o \in ScriptOps
    BY <2>2 DEF ScriptOps, Op, ActiveKeys, Table
  <2>3. CASE o \in AgentOps
    BY <2>3 DEF AgentOps, Op, Table
  <2> QED BY <2>1, <2>2, <2>3
<1>5. /\ FirstStatement(o) \in {"org", "hold", "branch", "row", "place", "events", "touch"}
      /\ o.kind \in {"redeem", "issue", "recover", "offboard"} => FirstStatement(o) = "org"
      /\ o.kind = "generate" => FirstStatement(o) = "hold"
      /\ o.kind = "status" /\ o.arg = "retired" => FirstStatement(o) = "branch"
  BY <1>4 DEF FirstStatement, ExclusiveOnOrg
<1>6. op'[t] = o /\ pc'[t] = FirstStatement(o) /\ seen'[t] = IF o.kind = "status" THEN db[o.row].status ELSE "none"
  BY <1>1 DEF Shape
<1>7. \A u \in Tx \ {t} : op'[u] = op[u] /\ pc'[u] = pc[u] /\ seen'[u] = seen[u]
  BY <1>1 DEF Shape
<1>8. Shape' /\ Exclusion'
  <2>1. \A u \in Tx : ~Running(u)' => u # t /\ ~Running(u)
    BY <1>5, <1>6, <1>7 DEF Running
  <2>2. \A u \in Tx : ~Running(u)' => lock'[u] = {} /\ todo'[u] = {} /\ DOMAIN put'[u] = {} /\ op'[u].kind = "none"
    BY <1>2, <1>7, <2>1 DEF Shape
  <2>3. pc' = [u \in Tx |-> pc'[u]] /\ op' = [u \in Tx |-> op'[u]] /\ seen' = [u \in Tx |-> seen'[u]]
    BY <1>1 DEF Shape
  <2> QED BY <1>2, <2>2, <2>3 DEF Shape, Exclusion, Conflict
<1>9. TxInv(t)'
  <2>1. Fresh(t)'
    BY <1>2 DEF TxInv, Fresh, New
  <2>2. OpOk(t)'
    BY <1>1, <1>2, <1>4, <1>5, <1>6 DEF OpOk
  <2>3. Written(t)' /\ NewKey(t)' /\ NewToken(t)' /\ NewCut(t)' /\ Retires(t)'
    BY <1>2, <1>3 DEF Written, NewKey, NewToken, NewCut, Retires
  <2>4. RedeemInv(t)'
    BY <1>2, <1>3, <1>5, <1>6 DEF RedeemInv
  <2>5. SingleInv(t)'
    BY <1>2, <1>3, <1>5, <1>6 DEF SingleInv
  <2>6. SweepInv(t)'
    BY <1>2, <1>3, <1>5, <1>6 DEF SweepInv
  <2> QED BY <2>1, <2>2, <2>3, <2>4, <2>5, <2>6 DEF TxInv
<1>10. ASSUME NEW u \in Tx, u # t
       PROVE  TxInv(u)'
  <2>1. /\ db' = db /\ op'[u] = op[u] /\ pc'[u] = pc[u] /\ seen'[u] = seen[u] /\ todo'[u] = todo[u]
        /\ put'[u] = put[u] /\ lock'[u] = lock[u]
    BY <1>2, <1>7, <1>10
  <2> QED BY <2>1, SameStays
<1> QED BY <1>2, <1>8, <1>9, <1>10

(* A transaction that is over has nothing to answer for. *)
LEMMA EndKeeps ==
  ASSUME Shape, NEW t \in Tx, End(t)
  PROVE  TxInv(t)'
<1>1. op'[t].kind = "none" /\ pc'[t] = "done" /\ todo'[t] = {} /\ DOMAIN put'[t] = {}
  BY DEF End, Shape
<1> QED BY <1>1 DEF TxInv, Fresh, OpOk, Written, RedeemInv, SingleInv, Single, SweepInv, NewKey, NewToken, NewCut, Retires

(* What a commit makes of the database.                                    *)
LEMMA CommitRows ==
  ASSUME Shape, Typed(db), NEW t \in Tx, TxInv(t), Commit(t)
  PROVE  /\ DOMAIN db' = DOMAIN put[t] \cup DOMAIN db
         /\ \A r \in DOMAIN put[t] : db'[r] = put[t][r] /\ Mine(t, r, put[t][r])
         /\ \A r \in DOMAIN db : r \notin DOMAIN put[t] => db'[r] = db[r]
         /\ \A r \in DOMAIN put[t] : r \in DOMAIN db => r[2] # New(t) /\ Holds(t, r, Exclusive)
         /\ \A r \in DOMAIN put[t] : r \notin DOMAIN db => r[2] = New(t)
         /\ \A r \in DOMAIN db : Keeps(r, db[r], db'[r])
<1>1. /\ DOMAIN db' = DOMAIN put[t] \cup DOMAIN db
      /\ \A r \in DOMAIN put[t] : db'[r] = put[t][r]
      /\ \A r \in DOMAIN db : r \notin DOMAIN put[t] => db'[r] = db[r]
  BY ViewRows DEF Commit
<1>2. \A r \in DOMAIN put[t] : Mine(t, r, put[t][r])
  BY DEF TxInv, Written
<1>3. \A r \in DOMAIN db : r[2] # New(t)
  BY DEF TxInv, Fresh, Commit
<1>4. \A r \in DOMAIN put[t] : r \in DOMAIN db => r[2] # New(t) /\ Holds(t, r, Exclusive) /\ Keeps(r, db[r], put[t][r])
  BY <1>2, <1>3 DEF Mine
<1>5. \A r \in DOMAIN put[t] : r \notin DOMAIN db => r[2] = New(t)
  BY <1>2 DEF Mine
<1>6. \A r \in DOMAIN db : Keeps(r, db[r], db[r])
  BY RowsArePairs, KeepsItself
<1>7. \A r \in DOMAIN db : Keeps(r, db[r], db'[r])
  BY <1>1, <1>4, <1>6
<1> QED BY <1>1, <1>2, <1>4, <1>5, <1>7

(* References stay good.                                                   *)
LEMMA StillRefers ==
  ASSUME NEW d, NEW e, DOMAIN d \subseteq DOMAIN e, \A r \in DOMAIN d : Keeps(r, d[r], e[r]),
         NEW r, NEW v, Refers(d, r, v)
  PROVE  Refers(e, r, v)
<1>1. \A i : Inst(i) \in DOMAIN d => Inst(i) \in DOMAIN e /\ e[Inst(i)].contract = d[Inst(i)].contract
  BY DEF Keeps, Inst
<1> QED BY <1>1 DEF Refers

(* The rows keep their types and references. *)
LEMMA CommitTyped ==
  ASSUME Shape, Typed(db), NEW t \in Tx, TxInv(t), Commit(t)
  PROVE  Typed(db)'
<1>1. /\ DOMAIN db' = DOMAIN put[t] \cup DOMAIN db
      /\ \A r \in DOMAIN put[t] : db'[r] = put[t][r] /\ Mine(t, r, put[t][r])
      /\ \A r \in DOMAIN db : r \notin DOMAIN put[t] => db'[r] = db[r]
      /\ \A r \in DOMAIN db : Keeps(r, db[r], db'[r])
  BY CommitRows
<1>2. \A r \in DOMAIN db' : r \in (Tables \X Nat) \ {Inst(0), <<"code", 0>>} /\ RowOf(r, db'[r]) /\ Refers(db, r, db'[r])
  <2>1. \A r \in DOMAIN put[t] : r \in (Tables \X Nat) \ {Inst(0), <<"code", 0>>} /\ RowOf(r, db'[r]) /\ Refers(db, r, db'[r])
    BY <1>1 DEF Mine
  <2>2. \A r \in DOMAIN db : r \notin DOMAIN put[t] =>
          r \in (Tables \X Nat) \ {Inst(0), <<"code", 0>>} /\ RowOf(r, db'[r]) /\ Refers(db, r, db'[r])
    BY <1>1 DEF Typed
  <2> QED BY <1>1, <2>1, <2>2
<1>3. \A r \in DOMAIN db' : Refers(db', r, db'[r])
  BY <1>1, <1>2, StillRefers
<1> QED BY <1>1, <1>2, <1>3 DEF Typed

(* What a commit leaves true of the database. *)
LEMMA CommitKept ==
  ASSUME Shape, Typed(db), Kept(db), NEW t \in Tx, TxInv(t), Commit(t)
  PROVE  Kept(db)'
<1> DEFINE k == <<"key", New(t)>>
           n == <<"token", New(t)>>
<1>1. /\ DOMAIN db' = DOMAIN put[t] \cup DOMAIN db
      /\ \A r \in DOMAIN put[t] : db'[r] = put[t][r] /\ Mine(t, r, put[t][r])
      /\ \A r \in DOMAIN db : r \notin DOMAIN put[t] => db'[r] = db[r]
      /\ \A r \in DOMAIN put[t] : r \in DOMAIN db => r[2] # New(t) /\ Holds(t, r, Exclusive)
      /\ \A r \in DOMAIN put[t] : r \notin DOMAIN db => r[2] = New(t)
      /\ \A r \in DOMAIN db : Keeps(r, db[r], db'[r])
  BY CommitRows
<1>2. pc[t] = "commit" /\ View(t) = db'
  BY DEF Commit
<1>3. \A r \in DOMAIN db' : r \in DOMAIN db \/ (r \in DOMAIN put[t] /\ r = <<r[1], New(t)>>)
  <2>1. \A r \in DOMAIN put[t] : r = <<r[1], r[2]>>
    BY <1>1 DEF Mine
  <2> QED BY <1>1, <2>1
<1>4. \A r \in ActiveKeys(db') : r \in ActiveKeys(db) \/ (r = k /\ k \in DOMAIN put[t])
  <2>1. \A r \in DOMAIN db : r[1] = "key" /\ db'[r].active => db[r].active
    BY <1>1 DEF Keeps
  <2> QED BY <1>3, <2>1, LiveKeys
<1>5. k \in DOMAIN put[t] =>
        /\ ActiveKeys(db) = {} /\ \A q \in DOMAIN put[t] : q[1] # "inst"
        /\ put[t][k].owner # 0 => db[Inst(put[t][k].owner)].status # "retired" /\ <<"cut", New(t)>> \in DOMAIN put[t]
  BY DEF TxInv, NewKey
<1>6. AtMostOne(ActiveKeys(db'))
  BY <1>4, <1>5 DEF Kept, AtMostOne
<1>7. ASSUME NEW r \in ActiveKeys(db'), db'[r].owner # 0
      PROVE  db'[Inst(db'[r].owner)].status # "retired"
  <2>1. CASE r \in ActiveKeys(db)
    <3> DEFINE i == Inst(db[r].owner)
    <3>1. r \in DOMAIN db /\ r[1] = "key" /\ db'[r].owner = db[r].owner
      BY <2>1, <1>1, LiveKeys DEF Keeps
    <3>2. i \in DOMAIN db /\ db[i].status # "retired" /\ i[2] \in Owners(db) /\ i[1] = "inst"
      <4>1. Refers(db, r, db[r])
        BY <3>1, RowsArePairs
      <4> QED BY <2>1, <1>7, <3>1, <4>1 DEF Refers, Kept, Owners, Inst
    <3> HIDE DEF i
    <3>3. CASE i \in DOMAIN put[t] /\ put[t][i].status = "retired"
      <4>1. op[t].kind = "offboard"
        BY <3>2, <3>3 DEF TxInv, Retires
      <4>2. ActiveKeys(View(t)) = {}
        BY <1>2, <4>1 DEF TxInv, SweepInv
      <4> QED BY <1>2, <4>2
    <3>4. CASE i \notin DOMAIN put[t] \/ put[t][i].status # "retired"
      <4>1. db'[i].status # "retired"
        BY <3>2, <3>4, <1>1
      <4> QED BY <3>1, <4>1 DEF i
    <3> QED BY <3>3, <3>4
  <2>2. CASE r = k /\ k \in DOMAIN put[t]
    <3> DEFINE i == Inst(put[t][k].owner)
    <3>1. db'[r] = put[t][k] /\ put[t][k].owner # 0 /\ Refers(db, k, put[t][k])
      BY <2>2, <1>1, <1>7 DEF Mine
    <3>2. i \in DOMAIN db /\ db[i].status # "retired" /\ i[1] = "inst"
      BY <2>2, <3>1, <1>5 DEF Refers, Inst
    <3>3. i \notin DOMAIN put[t]
      BY <2>2, <3>2, <1>5
    <3> HIDE DEF k, i
    <3>4. db'[i].status # "retired"
      BY <1>1, <3>2, <3>3
    <3> QED BY <3>1, <3>4 DEF i
  <2> QED BY <2>1, <2>2, <1>4
<1>8. Table(db, "cut") # {} => Table(db', "cut") # {}
  BY <1>1 DEF Table
<1>9. <<"cut", New(t)>> \in DOMAIN put[t] => Table(db', "cut") # {}
  BY <1>1 DEF Table
<1>10. ASSUME NEW r \in Table(db', "key"), db'[r].owner # 0
       PROVE  Table(db', "cut") # {}
  <2>1. r \in DOMAIN db' /\ r[1] = "key"
    BY DEF Table
  <2>2. CASE r \in DOMAIN db
    <3>1. r \in Table(db, "key") /\ db[r].owner # 0
      BY <2>1, <2>2, <1>1, <1>10 DEF Keeps, Table
    <3> QED BY <3>1, <1>8 DEF Kept
  <2>3. CASE r \in DOMAIN put[t] /\ r = k
    <3>1. put[t][k].owner # 0
      BY <2>3, <1>1, <1>10
    <3> HIDE DEF k
    <3> QED BY <2>3, <3>1, <1>5, <1>9
  <2> QED BY <2>1, <2>2, <2>3, <1>3
<1>11. ASSUME NEW j \in Table(db', "inst"), db'[j].contract = 2
       PROVE  /\ AtMostOne(LiveOf(db', "token", j[2]))
              /\ LiveOf(db', "token", j[2]) # {} => Table(db', "cut") # {}
  <2> DEFINE i == j[2]
  <2>1. j \in DOMAIN db' /\ j = Inst(i) /\ i # 0
    <3>1. Typed(db')
      BY CommitTyped
    <3>2. j \in DOMAIN db' /\ j[1] = "inst"
      BY DEF Table
    <3> QED BY <3>1, <3>2, RowsArePairs
  <2>2. LiveOf(db', "token", i) = {r \in DOMAIN db' : r[1] = "token" /\ db'[r].active /\ db'[r].inst = i}
        /\ LiveOf(db, "token", i) = {r \in DOMAIN db : r[1] = "token" /\ db[r].active /\ db[r].inst = i}
    BY LiveTokens
  <2>3. \A r \in LiveOf(db', "token", i) : r \in LiveOf(db, "token", i) \/ (r = n /\ n \in DOMAIN put[t])
    <3> HIDE DEF i
    <3> QED BY <1>1, <1>3, <2>2 DEF Keeps
  <2>4. CASE n \in DOMAIN put[t] /\ put[t][n].inst = i
    <3>1. Inst(i) \in DOMAIN db /\ db[Inst(i)].contract = 2
      <4>1. Refers(db, n, put[t][n])
        BY <2>4, <1>1 DEF Mine
      <4>2. Inst(i) \in DOMAIN db
        BY <2>1, <2>4, <4>1 DEF Refers
      <4>3. Keeps(Inst(i), db[Inst(i)], db'[Inst(i)])
        BY <1>1, <4>2
      <4> HIDE DEF i
      <4> QED BY <1>11, <2>1, <4>2, <4>3 DEF Keeps, Inst
    <3>2. /\ LiveOf(db', "token", i) \subseteq {n}
          /\ Table(db, "cut") # {} \/ <<"cut", New(t)>> \in DOMAIN put[t]
      <4> HIDE DEF i
      <4> QED BY <1>2, <2>1, <2>4, <3>1 DEF TxInv, NewToken
    <3> HIDE DEF n, i
    <3>3. AtMostOne(LiveOf(db', "token", i))
      BY <3>2 DEF AtMostOne
    <3> QED BY <3>2, <3>3, <1>8, <1>9 DEF i
  <2>5. CASE ~(n \in DOMAIN put[t] /\ put[t][n].inst = i)
    <3>1. LiveOf(db', "token", i) \subseteq LiveOf(db, "token", i)
      <4>1. ASSUME NEW r \in LiveOf(db', "token", i), r = n, n \in DOMAIN put[t]
            PROVE  FALSE
        <5>1. db'[n].inst = i
          BY <2>2, <4>1
        <5> HIDE DEF n, i
        <5> QED BY <1>1, <2>5, <4>1, <5>1
      <4> HIDE DEF n, i
      <4> QED BY <2>3, <4>1
    <3>2. CASE j \in DOMAIN db
      <4>1. j \in Table(db, "inst") /\ db[j].contract = 2
        BY <3>2, <1>1, <1>11 DEF Table, Keeps
      <4> HIDE DEF i
      <4>2. AtMostOne(LiveOf(db, "token", i)) /\ (LiveOf(db, "token", i) # {} => Table(db, "cut") # {})
        BY <4>1 DEF Kept, i
      <4> QED BY <3>1, <4>2, <1>8 DEF AtMostOne, i
    <3>3. CASE j \notin DOMAIN db
      <4>1. \A r \in LiveOf(db, "token", i) : FALSE
        <5>1. \A r \in DOMAIN db : Refers(db, r, db[r])
          BY DEF Typed
        <5> HIDE DEF i
        <5> QED BY <2>1, <2>2, <3>3, <5>1 DEF Refers
      <4> HIDE DEF i
      <4> QED BY <3>1, <4>1 DEF AtMostOne, i
    <3> QED BY <3>2, <3>3
  <2> QED BY <2>4, <2>5
<1> QED BY <1>6, <1>7, <1>10, <1>11 DEF Kept

(* What a commit leaves to the other transactions, by the locks they hold. *)
Respects(u) ==
  /\ DOMAIN db \subseteq DOMAIN db' /\ \A r \in DOMAIN db : Keeps(r, db[r], db'[r])
  /\ \A r \in DOMAIN db : Holds(u, r, Exclusive) => db'[r] = db[r]
  /\ \A r \in DOMAIN db' : r \notin DOMAIN db => r[2] # New(u)
  /\ Holds(u, Branch, Exclusive) \/ Holds(u, Org, {Update}) => \A r \in DOMAIN db' : r[1] = "key" => r \in DOMAIN db
  /\ <<Branch, Update>> \in lock[u] => \A r \in DOMAIN db' : r[1] = "cut" => r \in DOMAIN db
  /\ Holds(u, Branch, Exclusive) =>
       \A r \in DOMAIN db' : r[1] = "cut" /\ db'[r].by = "enrollment" => r \in DOMAIN db /\ db[r].by = "enrollment"
  /\ Holds(u, Branch, Exclusive) /\ Holds(u, Org, {Share, Update}) =>
       \A r \in DOMAIN db : r[1] = "inst" /\ db[r].status # "retired" => db'[r].status # "retired"
  /\ Holds(u, Org, {Update}) =>
       \A r \in DOMAIN db' : r[1] = "token" /\ db'[r].inst # 0 => r \in DOMAIN db
  /\ <<Branch, Update>> \in lock[u] /\ Holds(u, Org, {Share, Update}) =>
       \A r \in DOMAIN db' : r[1] = "token" /\ db'[r].inst # 0 /\ db[Inst(db'[r].inst)].contract = 2 => r \in DOMAIN db

(* It leaves them that. *)
LEMMA CommitRespects ==
  ASSUME Shape, Exclusion, Typed(db), NEW t \in Tx, NEW u \in Tx, u # t, TxInv(t), Commit(t)
  PROVE  Respects(u)
<1>1. /\ DOMAIN db' = DOMAIN put[t] \cup DOMAIN db
      /\ \A r \in DOMAIN put[t] : db'[r] = put[t][r] /\ Mine(t, r, put[t][r])
      /\ \A r \in DOMAIN db : r \notin DOMAIN put[t] => db'[r] = db[r]
      /\ \A r \in DOMAIN put[t] : r \in DOMAIN db => r[2] # New(t) /\ Holds(t, r, Exclusive)
      /\ \A r \in DOMAIN put[t] : r \notin DOMAIN db => r[2] = New(t)
      /\ \A r \in DOMAIN db : Keeps(r, db[r], db'[r])
  BY CommitRows
<1>2. pc[t] = "commit" /\ New(t) # New(u) /\ pc[t] # "key"
  BY NewIsNew DEF Commit
<1>3. \A r \in DOMAIN db' : r \notin DOMAIN db => r \in DOMAIN put[t] /\ r = <<r[1], New(t)>> /\ db'[r] = put[t][r]
  <2>1. \A r \in DOMAIN put[t] : r = <<r[1], r[2]>>
    BY <1>1 DEF Mine
  <2> QED BY <1>1, <2>1
<1>4. \A r : Holds(t, r, Exclusive) => ~Holds(u, r, {Share, NoKeyUpdate, Update})
  BY ExclusiveRow DEF Holds, Exclusive, Share, NoKeyUpdate, Update
<1>5. \A r : Holds(t, r, {Share, Update}) => ~Holds(u, r, Exclusive) /\ <<r, Update>> \notin lock[u]
  BY ExclusiveRow DEF Holds, Exclusive, Share, NoKeyUpdate, Update
<1>6. \A r : Holds(t, r, 1..4) => <<r, Update>> \notin lock[u]
  BY ExclusiveRow DEF Holds, Update
<1>7. \A r : <<r, Update>> \in lock[t] => ~Holds(u, r, {KeyShare, Share, NoKeyUpdate, Update})
  BY ExclusiveRow DEF Holds, KeyShare, Share, NoKeyUpdate, Update
<1>8. \A r \in DOMAIN db : Holds(u, r, Exclusive) => db'[r] = db[r]
  BY <1>1, <1>4 DEF Holds, Exclusive
<1>9. \A r \in DOMAIN db' : r \notin DOMAIN db => r[2] # New(u)
  BY <1>1, <1>2
<1>10. ASSUME Holds(u, Branch, Exclusive) \/ Holds(u, Org, {Update}), NEW r \in DOMAIN db', r[1] = "key", r \notin DOMAIN db
       PROVE  FALSE
  <2>1. <<"key", New(t)>> \in DOMAIN put[t]
    BY <1>3, <1>10
  <2>2. Holds(t, Branch, Exclusive) /\ <<Org, Share>> \in lock[t]
    BY <2>1 DEF TxInv, NewKey
  <2> QED BY <2>2, <1>4, <1>5, <1>10 DEF Holds, Exclusive
<1>11. ASSUME NEW r \in DOMAIN db', r[1] = "cut", r \in DOMAIN put[t]
       PROVE  r \notin DOMAIN db /\ <<Branch, Update>> \notin lock[u]
              /\ (db'[r].by = "enrollment" => ~Holds(u, Branch, Exclusive))
  <2>1. /\ r[2] = New(t) /\ Holds(t, Branch, 1..4)
        /\ put[t][r].by = "enrollment" => <<Branch, Update>> \in lock[t]
    BY <1>11 DEF TxInv, NewCut
  <2> QED BY <2>1, <1>1, <1>4, <1>6, <1>11 DEF Holds, Exclusive
<1>12. ASSUME Holds(u, Branch, Exclusive), Holds(u, Org, {Share, Update}),
              NEW r \in DOMAIN db, r[1] = "inst", db[r].status # "retired", db'[r].status = "retired"
       PROVE  FALSE
  <2>1. r \in DOMAIN put[t] /\ put[t][r].status = "retired"
    BY <1>1, <1>12
  <2>2. <<Branch, NoKeyUpdate>> \in lock[t] \/ op[t].kind = "offboard"
    BY <2>1, <1>12 DEF TxInv, Retires
  <2>3. op[t].kind = "offboard" => <<Org, Update>> \in lock[t]
    BY <1>2 DEF TxInv, SweepInv
  <2> QED BY <2>2, <2>3, <1>4, <1>7, <1>12 DEF Holds, Exclusive
<1>13. ASSUME NEW r \in DOMAIN db', r[1] = "token", db'[r].inst # 0, r \notin DOMAIN db
       PROVE  /\ ~Holds(u, Org, {Update})
              /\ db[Inst(db'[r].inst)].contract = 2 => ~(<<Branch, Update>> \in lock[u] /\ Holds(u, Org, {Share, Update}))
  <2>1. r = <<"token", New(t)>> /\ r \in DOMAIN put[t] /\ put[t][r].inst = db'[r].inst
    BY <1>3, <1>13
  <2>2. /\ Holds(t, Org, {Share, Update})
        /\ db[Inst(db'[r].inst)].contract = 2 => <<Org, Update>> \in lock[t] \/ <<Branch, Update>> \in lock[t]
    BY <2>1, <1>13 DEF TxInv, NewToken
  <2> QED BY <2>2, <1>5, <1>7 DEF Holds
<1> QED BY <1>1, <1>8, <1>9, <1>10, <1>11, <1>12, <1>13 DEF Respects

(* The active keys are no more than they were, for who holds the branch or *)
(* the library.                                                            *)
LEMMA NoNewKeys ==
  ASSUME NEW u \in Tx, Respects(u), Holds(u, Branch, Exclusive) \/ Holds(u, Org, {Update})
  PROVE  ActiveKeys(db') \subseteq ActiveKeys(db) /\ Owners(db') \subseteq Owners(db)
<1>1. \A r \in ActiveKeys(db') : r \in ActiveKeys(db) /\ db'[r].owner = db[r].owner
  BY LiveKeys DEF Respects, Keeps
<1> QED BY <1>1 DEF Owners

(* And so the tokens of an installation. *)
LEMMA NoNewTokens ==
  ASSUME NEW u \in Tx, Respects(u), put'[u] = put[u], NEW i \in Nat \ {0},
         \/ Holds(u, Org, {Update})
         \/ <<Branch, Update>> \in lock[u] /\ Holds(u, Org, {Share, Update}) /\ db[Inst(i)].contract = 2
  PROVE  LiveOf(View(u)', "token", i) \subseteq LiveOf(View(u), "token", i)
<1>1. LiveOf(View(u), "token", i) = {r \in DOMAIN View(u) : r[1] = "token" /\ View(u)[r].active /\ View(u)[r].inst = i}
  BY LiveTokens
<1>2. LiveOf(View(u)', "token", i) = {r \in DOMAIN View(u)' : r[1] = "token" /\ View(u)'[r].active /\ View(u)'[r].inst = i}
  BY LiveTokens
<1>3. View(u)' = Over(put[u], db') /\ View(u) = Over(put[u], db)
  BY DEF View
<1>4. ASSUME NEW r \in DOMAIN db', r[1] = "token", db'[r].active, db'[r].inst = i
      PROVE  r \in DOMAIN db /\ db[r].active /\ db[r].inst = i
  BY <1>4 DEF Respects, Keeps
<1>5. /\ DOMAIN View(u)' = DOMAIN put[u] \cup DOMAIN db' /\ DOMAIN View(u) = DOMAIN put[u] \cup DOMAIN db
      /\ \A r \in DOMAIN put[u] : View(u)'[r] = put[u][r] /\ View(u)[r] = put[u][r]
      /\ \A r \in DOMAIN db' : r \notin DOMAIN put[u] => View(u)'[r] = db'[r]
      /\ \A r \in DOMAIN db : r \notin DOMAIN put[u] => View(u)[r] = db[r]
  BY ONLY <1>3 DEF Over
<1>6. \A r \in DOMAIN View(u)' : r[1] = "token" /\ View(u)'[r].active /\ View(u)'[r].inst = i =>
        r \in DOMAIN View(u) /\ View(u)[r].active /\ View(u)[r].inst = i
  BY ONLY <1>4, <1>5
<1> QED BY ONLY <1>1, <1>2, <1>6

(* A commit keeps the invariants of the other transactions.                *)
LEMMA CommitOthers ==
  ASSUME Shape, Typed(db), NEW u \in Tx, TxInv(u), Respects(u),
         op'[u] = op[u], pc'[u] = pc[u], seen'[u] = seen[u], todo'[u] = todo[u], put'[u] = put[u], lock'[u] = lock[u]
  PROVE  TxInv(u)'
<1>1. /\ op'[u] = op[u] /\ pc'[u] = pc[u] /\ seen'[u] = seen[u] /\ todo'[u] = todo[u]
      /\ put'[u] = put[u] /\ lock'[u] = lock[u] /\ New(u)' = New(u)
  BY DEF New
<1>2. DOMAIN db \subseteq DOMAIN db' /\ \A r \in DOMAIN db : Keeps(r, db[r], db'[r])
  BY DEF Respects
<1>3. \A name : \A r \in Table(db, name) : r \in Table(db', name) /\ r \in DOMAIN db /\ r[1] = name
  BY <1>2 DEF Table
<1>4. \A i : Inst(i) \in DOMAIN db => Inst(i) \in DOMAIN db' /\ db'[Inst(i)].contract = db[Inst(i)].contract
  BY <1>2 DEF Keeps, Inst
<1>5. \A r \in DOMAIN db : r[1] = "code" \/ r[1] = "token" => db'[r].inst = db[r].inst
  BY <1>2 DEF Keeps
<1>6. \A r, modes : Holds(u, r, modes)' <=> Holds(u, r, modes)
  BY <1>1 DEF Holds
<1>7. Fresh(u)'
  BY <1>1 DEF TxInv, Fresh, Respects
<1>8. OpOk(u)'
  <2>1. OpOk(u)
    BY DEF TxInv
  <2> QED BY <1>1, <1>3, <1>5, <2>1 DEF OpOk
<1>9. Written(u)'
  <2>1. ASSUME NEW r \in DOMAIN put[u]
        PROVE  Mine(u, r, put[u][r])'
    <3>1. Mine(u, r, put[u][r])
      BY DEF TxInv, Written
    <3>2. Refers(db', r, put[u][r])
      BY <1>2, <3>1, StillRefers DEF Mine
    <3>3. r \in DOMAIN db /\ Holds(u, r, Exclusive) => db'[r] = db[r]
      BY DEF Respects
    <3> QED BY <1>1, <1>2, <1>6, <3>1, <3>2, <3>3 DEF Mine
  <2> QED BY <1>1, <2>1 DEF Written
<1>10. <<Branch, Update>> \in lock[u] => /\ Holds(u, Branch, Exclusive) /\ (Enrolled(db') => Enrolled(db))
                                         /\ (Table(db, "cut") = {} => Table(db', "cut") = {})
  <2>1. <<Branch, Update>> \in lock[u] => Holds(u, Branch, Exclusive)
    BY DEF Holds, Exclusive
  <2>2. <<Branch, Update>> \in lock[u] => \A r \in Table(db', "cut") : r \in Table(db, "cut")
    BY DEF Respects, Table
  <2> QED BY <2>1, <2>2, NoNewKeys DEF Enrolled
<1>11. Holds(u, Branch, Exclusive) => Owners(db') \subseteq Owners(db) /\ (ActiveKeys(db) = {} => ActiveKeys(db') = {})
  BY NoNewKeys
<1>12. Holds(u, Branch, Exclusive) /\ Holds(u, Org, {Share, Update}) =>
         \A i : Inst(i) \in DOMAIN db /\ db[Inst(i)].status # "retired" => db'[Inst(i)].status # "retired"
  BY DEF Respects, Inst
<1>13. RedeemInv(u)'
  <2>1. CASE op[u].kind = "redeem"
    <3>1. op[u].row \in DOMAIN db /\ op[u].row[1] = "code"
      BY <2>1 DEF TxInv, OpOk, Table
    <3>2. Inst(InstOf(u)) \in DOMAIN db /\ InstOf(u)' = InstOf(u) /\ db'[op[u].row].contract = db[op[u].row].contract
      <4>1. Refers(db, op[u].row, db[op[u].row])
        BY <3>1, RowsArePairs
      <4>2. InstOf(u) = db[op[u].row].inst /\ InstOf(u)' = db'[op[u].row].inst
        BY <1>1, <2>1 DEF InstOf
      <4>3. Keeps(op[u].row, db[op[u].row], db'[op[u].row])
        BY <1>2, <3>1
      <4> QED BY <3>1, <4>1, <4>2, <4>3 DEF Refers, Keeps
    <3>3. RedeemInv(u)
      BY DEF TxInv
    <3>4. pc[u] = "key" \/ (pc[u] = "token" /\ db[op[u].row].contract = 2) =>
            ~Enrolled(db') /\ db'[Inst(InstOf(u)')].status # "retired"
      <4>1. <<Org, Share>> \in lock[u] => Holds(u, Org, {Share, Update})
        BY DEF Holds
      <4> QED BY <2>1, <3>2, <3>3, <4>1, <1>10, <1>12 DEF RedeemInv
    <3> QED BY <1>1, <2>1, <3>2, <3>3, <3>4 DEF RedeemInv
  <2>2. CASE op[u].kind # "redeem"
    BY <1>1, <2>2 DEF RedeemInv
  <2> QED BY <2>1, <2>2
<1>14. SingleInv(u)'
  <2>1. <<Branch, NoKeyUpdate>> \in lock[u] => Holds(u, Branch, Exclusive)
    BY DEF Holds, Exclusive
  <2> QED BY <1>1, <1>11, <2>1 DEF TxInv, SingleInv
<1>15. Holds(u, Org, {Update}) => \A i \in Nat \ {0} : LiveOf(View(u)', "token", i) \subseteq LiveOf(View(u), "token", i)
  BY <1>1, NoNewTokens
<1>16. <<Org, Update>> \in lock[u] => Holds(u, Org, {Update})
  BY DEF Holds
<1>17. SweepInv(u)'
  <2>1. op[u].kind = "recover" => op[u].row[2] \in Nat \ {0}
    <3>1. op[u].kind = "recover" => op[u].row \in DOMAIN db /\ op[u].row[1] = "inst"
      BY DEF TxInv, OpOk, Table
    <3> QED BY <3>1, RowsArePairs
  <2>2. Holds(u, Org, {Update}) => ActiveKeys(View(u)') \subseteq ActiveKeys(View(u))
    <3>1. View(u)' = Over(put[u], db') /\ View(u) = Over(put[u], db)
      BY <1>1 DEF View
    <3>2. /\ ActiveKeys(View(u)) = {r \in DOMAIN View(u) : r[1] = "key" /\ View(u)[r].active}
          /\ ActiveKeys(View(u)') = {r \in DOMAIN View(u)' : r[1] = "key" /\ View(u)'[r].active}
      BY LiveKeys
    <3>3. Holds(u, Org, {Update}) => \A r \in DOMAIN db' : r[1] = "key" /\ db'[r].active => r \in DOMAIN db /\ db[r].active
      BY <1>2 DEF Respects, Keeps
    <3>4. /\ DOMAIN View(u)' = DOMAIN put[u] \cup DOMAIN db' /\ DOMAIN View(u) = DOMAIN put[u] \cup DOMAIN db
          /\ \A r \in DOMAIN put[u] : View(u)'[r] = put[u][r] /\ View(u)[r] = put[u][r]
          /\ \A r \in DOMAIN db' : r \notin DOMAIN put[u] => View(u)'[r] = db'[r]
          /\ \A r \in DOMAIN db : r \notin DOMAIN put[u] => View(u)[r] = db[r]
      BY ONLY <3>1 DEF Over
    <3> QED BY ONLY <3>2, <3>3, <3>4
  <2>3. SweepInv(u)
    BY DEF TxInv
  <2>4. CASE op[u].kind = "generate"
    BY <1>1, <1>2, <1>3, <2>3, <2>4 DEF SweepInv
  <2>5. CASE op[u].kind = "recover"
    <3> DEFINE i == op[u].row[2]
    <3>1. /\ pc[u] # "org" => <<Org, Update>> \in lock[u]
          /\ pc[u] \in {"sweep", "hold"} => LiveOf(View(u), "token", i) \subseteq todo[u]
      BY <2>3, <2>5 DEF SweepInv
    <3>2. pc[u] \in {"sweep", "hold"} => LiveOf(View(u)', "token", i) \subseteq todo[u]
      BY <1>15, <1>16, <2>1, <2>5, <3>1
    <3>3. todo[u] \subseteq Table(db', "token") /\ todo[u] \subseteq DOMAIN db'
      BY <1>2, <1>3, <2>3, <2>5 DEF SweepInv
    <3> QED BY <1>1, <1>2, <2>3, <2>5, <3>2, <3>3 DEF SweepInv
  <2>6. CASE op[u].kind = "offboard"
    <3>1. /\ pc[u] # "org" => <<Org, Update>> \in lock[u]
          /\ pc[u] = "commit" \/ (pc[u] = "sweep" /\ seen[u] = "key") => ActiveKeys(View(u)) \subseteq todo[u]
      BY <2>3, <2>6 DEF SweepInv
    <3>2. pc[u] = "commit" \/ (pc[u] = "sweep" /\ seen[u] = "key") => ActiveKeys(View(u)') \subseteq todo[u]
      BY <1>16, <2>2, <3>1
    <3> QED BY <1>1, <1>2, <2>3, <2>6, <3>2 DEF SweepInv
  <2>7. CASE op[u].kind \notin {"generate", "recover", "offboard"}
    BY <1>1, <2>7 DEF SweepInv
  <2> QED BY <2>4, <2>5, <2>6, <2>7
<1>18. NewKey(u)'
  <2> DEFINE k == <<"key", New(u)>>
  <2>1. CASE k \in DOMAIN put[u]
    <3>1. /\ pc[u] = "commit" /\ op[u].kind \in {"redeem", "issue"}
          /\ Holds(u, Branch, Exclusive) /\ <<Org, Share>> \in lock[u] /\ ActiveKeys(db) = {}
          /\ \A q \in DOMAIN put[u] : q[1] # "inst" /\ (q[1] = "key" => q = k)
          /\ put[u][k].owner # 0 =>
               /\ <<Branch, Update>> \in lock[u] /\ db[Inst(put[u][k].owner)].status # "retired"
               /\ <<"cut", New(u)>> \in DOMAIN put[u]
          /\ put[u][k].owner = 0 =>
               /\ \A q \in Table(db, "key") : db[q].owner = 0
               /\ \A q \in Table(db, "cut") : db[q].by # "enrollment"
      BY <2>1 DEF TxInv, NewKey
    <3>2. ActiveKeys(db') = {} /\ Holds(u, Org, {Share, Update})
      BY <1>11, <3>1 DEF Holds
    <3>3. put[u][k].owner # 0 => db'[Inst(put[u][k].owner)].status # "retired"
      <4>1. Refers(db, k, put[u][k])
        BY <2>1 DEF TxInv, Written, Mine
      <4>2. put[u][k].owner # 0 => Inst(put[u][k].owner) \in DOMAIN db
        BY <4>1 DEF Refers
      <4> HIDE DEF k
      <4> QED BY <1>12, <3>1, <3>2, <4>2
    <3>4. put[u][k].owner = 0 =>
            /\ \A q \in Table(db', "key") : db'[q].owner = 0
            /\ \A q \in Table(db', "cut") : db'[q].by # "enrollment"
      <4>1. \A q \in Table(db', "key") : q \in Table(db, "key") /\ db'[q].owner = db[q].owner
        BY <3>1 DEF Respects, Keeps, Table
      <4>2. \A q \in Table(db', "cut") : db'[q].by = "enrollment" => q \in Table(db, "cut") /\ db[q].by = "enrollment"
        BY <3>1 DEF Respects, Table
      <4> QED BY <3>1, <4>1, <4>2
    <3> QED BY <1>1, <1>6, <3>1, <3>2, <3>3, <3>4 DEF NewKey
  <2>2. CASE k \notin DOMAIN put[u]
    BY <1>1, <2>2 DEF NewKey
  <2> QED BY <2>1, <2>2
<1>19. NewToken(u)'
  <2> DEFINE n == <<"token", New(u)>>
             i == put[u][n].inst
  <2>1. CASE n \in DOMAIN put[u]
    <3>1. /\ op[u].kind \in {"redeem", "grant", "recover"}
          /\ i # 0 => Holds(u, Org, {Share, Update})
          /\ i # 0 /\ db[Inst(i)].contract = 2 =>
               /\ LiveOf(View(u), "token", i) \subseteq {n}
               /\ \/ <<Org, Update>> \in lock[u] /\ Table(db, "cut") # {}
                  \/ <<Branch, Update>> \in lock[u] /\ (pc[u] = "key" \/ <<"cut", New(u)>> \in DOMAIN put[u])
          /\ i = 0 => Holds(u, Branch, Exclusive) /\ Owners(db) \subseteq {0}
      BY <2>1 DEF TxInv, NewToken
    <3>2. i # 0 => Inst(i) \in DOMAIN db /\ db'[Inst(i)].contract = db[Inst(i)].contract
      <4>1. Refers(db, n, put[u][n])
        BY <2>1 DEF TxInv, Written, Mine
      <4>2. i # 0 => Inst(i) \in DOMAIN db
        BY <4>1 DEF Refers
      <4> HIDE DEF n, i
      <4> QED BY <1>4, <4>2
    <3>3. i \in Nat
      BY <2>1 DEF TxInv, Written, Mine, RowOf
    <3>4. i # 0 /\ db[Inst(i)].contract = 2 => LiveOf(View(u)', "token", i) \subseteq {n}
      <4> HIDE DEF n, i
      <4> QED BY <1>1, <1>15, <1>16, <3>1, <3>3, NoNewTokens
    <3>5. Table(db, "cut") # {} => Table(db', "cut") # {}
      BY <1>3
    <3>6. i = 0 => Holds(u, Branch, Exclusive) /\ Owners(db') \subseteq {0}
      BY <1>11, <3>1
    <3> HIDE DEF i
    <3>7. put'[u][n].inst = i
      BY <1>1 DEF i
    <3> QED BY <1>1, <1>6, <3>1, <3>2, <3>4, <3>5, <3>6, <3>7 DEF NewToken
  <2>2. CASE n \notin DOMAIN put[u]
    BY <1>1, <2>2 DEF NewToken
  <2> QED BY <2>1, <2>2
<1>20. NewCut(u)'
  BY <1>1, <1>6, <1>10 DEF TxInv, NewCut
<1>21. Retires(u)'
  <2>1. <<Branch, NoKeyUpdate>> \in lock[u] => Holds(u, Branch, Exclusive)
    BY DEF Holds, Exclusive
  <2> QED BY <1>1, <1>11, <2>1 DEF TxInv, Retires
<1> QED BY <1>7, <1>8, <1>9, <1>13, <1>14, <1>17, <1>18, <1>19, <1>20, <1>21 DEF TxInv

-----------------------------------------------------------------------------
(* The invariant holds always.                                             *)

(* It holds in the beginning. *)
LEMMA InitInv ==
  ASSUME Init
  PROVE  IInv
<1>1. Begun(Pasts, 0)
  BY DEF Init, Idle
<1>2. Shape /\ Exclusion
  BY <1>1, BegunExcludes
<1>3. db \in Pasts /\ Typed(db) /\ Kept(db) /\ \A r \in DOMAIN db : r[2] <= Past
  BY <1>1, EnrollmentAssumption DEF Begun
<1>4. ASSUME NEW t \in Tx
      PROVE  TxInv(t)
  <2>1. op[t].kind = "none" /\ todo[t] = {} /\ DOMAIN put[t] = {}
    BY <1>1, <1>2 DEF Begun, Shape, Running
  <2>2. Fresh(t)
    <3>1. \A r \in DOMAIN db : r[2] \in Nat
      BY <1>3 DEF Typed
    <3> QED BY <1>3, <3>1, NewIsNew DEF Fresh, Past
  <2> QED BY <2>1, <2>2 DEF TxInv, OpOk, Written, RedeemInv, SingleInv, Single, SweepInv, NewKey, NewToken, NewCut, Retires
<1> QED BY <1>2, <1>3, <1>4 DEF IInv

(* A step that is not a commit leaves the database as it is. *)
LEMMA OnlyCommits ==
  ASSUME IInv, NEW t \in Tx, Begin(t) \/ Step(t) \/ Fail(t)
  PROVE  db' = db
<1>1. Step(t) => db' = db
  BY StepIsStatement, StatementFrame DEF IInv
<1> QED BY <1>1 DEF Begin, Fail

(* Any step keeps it. *)
LEMMA NextInv ==
  ASSUME IInv, [Next]_vars
  PROVE  IInv'
<1> USE DEF IInv
<1>1. ASSUME NEW t \in Tx, Begin(t)
      PROVE  IInv'
  <2>1. Shape' /\ Exclusion' /\ db' = db /\ \A u \in Tx : TxInv(u)'
    BY <1>1, BeginKeeps
  <2> QED BY <2>1
<1>2. ASSUME NEW t \in Tx, Step(t)
      PROVE  IInv'
  <2>1. Statement(t, Wants(t))
    BY <1>2, StepIsStatement
  <2>2. Shape' /\ Exclusion'
    BY <2>1, StatementExcludes, WantsAreLocks
  <2>3. db' = db
    BY <1>2, OnlyCommits
  <2>4. \A u \in Tx \ {t} : TxInv(u)'
    BY <2>1, OthersStay
  <2>5. TxInv(t)'
    BY <1>2, StepKeeps
  <2> QED BY <2>2, <2>3, <2>4, <2>5
<1>3. ASSUME NEW t \in Tx, Fail(t)
      PROVE  IInv'
  <2>1. End(t) /\ db' = db
    BY <1>3 DEF Fail
  <2>2. Shape' /\ Exclusion' /\ TxInv(t)'
    BY <2>1, EndExcludes, EndKeeps
  <2>3. ASSUME NEW u \in Tx, u # t
        PROVE  TxInv(u)'
    <3>1. /\ op'[u] = op[u] /\ pc'[u] = pc[u] /\ seen'[u] = seen[u] /\ todo'[u] = todo[u]
          /\ put'[u] = put[u] /\ lock'[u] = lock[u]
      BY <2>1, <2>3 DEF End, Shape
    <3> QED BY <2>1, <3>1, SameStays
  <2> QED BY <2>1, <2>2, <2>3
<1>4. ASSUME NEW t \in Tx, Commit(t)
      PROVE  IInv'
  <2>1. End(t)
    BY <1>4 DEF Commit
  <2>2. Shape' /\ Exclusion' /\ TxInv(t)'
    BY <2>1, EndExcludes, EndKeeps
  <2>3. Typed(db)' /\ Kept(db)'
    BY <1>4, CommitTyped, CommitKept
  <2>4. ASSUME NEW u \in Tx, u # t
        PROVE  TxInv(u)'
    <3>1. /\ op'[u] = op[u] /\ pc'[u] = pc[u] /\ seen'[u] = seen[u] /\ todo'[u] = todo[u]
          /\ put'[u] = put[u] /\ lock'[u] = lock[u]
      BY <2>1, <2>4 DEF End, Shape
    <3>2. Respects(u)
      BY <1>4, <2>4, CommitRespects
    <3> QED BY <3>1, <3>2, CommitOthers
  <2> QED BY <2>2, <2>3, <2>4
<1>5. CASE UNCHANGED vars
  <2>1. /\ db' = db /\ op' = op /\ pc' = pc /\ seen' = seen /\ todo' = todo /\ put' = put /\ lock' = lock
    BY <1>5 DEF vars
  <2>2. Shape' /\ Exclusion'
    BY <2>1 DEF Shape, Running, Exclusion, Conflict
  <2>3. \A u \in Tx : TxInv(u)'
    BY <2>1, SameStays
  <2> QED BY <2>1, <2>2, <2>3
<1> QED BY <1>1, <1>2, <1>3, <1>4, <1>5 DEF Next

(* The invariant holds always: by induction on the steps. *)
THEOREM InvariantHolds == Spec => []IInv
<1>1. Init => IInv
  BY InitInv
<1>2. IInv /\ [Next]_vars => IInv'
  BY NextInv
<1> QED BY <1>1, <1>2, PTL DEF Spec

(* The branch has one identity, however many transactions overlap: at most *)
(* one active key, whose owner was not retired and has one active token.   *)
THEOREM OneIdentityAlways == Spec => []OneIdentity
<1>1. ASSUME IInv
      PROVE  OneIdentity
  <2>1. Typed(db) /\ Kept(db)
    BY <1>1 DEF IInv
  <2>2. ASSUME NEW i \in Owners(db) \ {0}
        PROVE  db[Inst(i)].status # "retired" /\ AtMostOne(LiveOf(db, "token", i))
    <3>1. PICK r \in ActiveKeys(db) : db[r].owner = i
      BY DEF Owners
    <3>2. r \in DOMAIN db /\ r[1] = "key"
      BY LiveKeys
    <3>3. Inst(i) \in DOMAIN db /\ db[Inst(i)].contract = 2
      BY <2>1, <2>2, <3>1, <3>2, RowsArePairs DEF Refers
    <3>4. Inst(i) \in Table(db, "inst") /\ Inst(i)[2] = i
      BY <3>3 DEF Table, Inst
    <3> QED BY <2>1, <2>2, <3>1, <3>3, <3>4 DEF Kept
  <2> QED BY <2>1, <2>2 DEF OneIdentity, Kept
<1> QED BY <1>1, InvariantHolds, PTL

(* What was decided, by an enrollment or by a person, is not undone by any *)
(* transaction that read the database before it was decided.               *)
THEOREM HistoryStaysAlways == Spec => HistoryStays
<1> DEFINE Boundary ==
             /\ \A r \in Added("cut") : db'[r].by = "enrollment" => Table(db, "cut") = {}
             /\ \A r \in Added("key") : db'[r].owner = 0 =>
                  /\ \A q \in Table(db, "key") : db[q].owner = 0
                  /\ \A q \in Table(db, "cut") : db[q].by # "enrollment"
             /\ \A r \in Added("token") : db'[r].inst = 0 => Owners(db) \subseteq {0}
           Decisions ==
             /\ db[Org] = "cancelled" => db'[Org] = "cancelled"
             /\ \A r \in Table(db, "inst") :
                  /\ db[r].status = "retired" => db'[r].status = "retired"
                  /\ db[r].status = "inactive" => db'[r].status # "active"
             /\ \A r \in DOMAIN db : r[1] \in {"code", "token", "key"} /\ ~Live(db, r) => ~Live(db', r)
<1>1. ASSUME db' = db
      PROVE  Boundary /\ Decisions
  <2>1. \A name : Added(name) = {}
    BY <1>1 DEF Added
  <2>2. \A r \in Table(db, "inst") : db[r].status = "inactive" => db'[r].status # "active"
    BY <1>1
  <2> QED BY <1>1, <2>1, <2>2
<1>2. ASSUME IInv, NEW t \in Tx, Commit(t)
      PROVE  Boundary /\ Decisions
  <2>1. /\ DOMAIN db' = DOMAIN put[t] \cup DOMAIN db
        /\ \A r \in DOMAIN put[t] : db'[r] = put[t][r] /\ Mine(t, r, put[t][r])
        /\ \A r \in DOMAIN put[t] : r \notin DOMAIN db => r[2] = New(t)
        /\ \A r \in DOMAIN db : Keeps(r, db[r], db'[r])
    BY <1>2, CommitRows DEF IInv
  <2>2. \A name : \A r \in Added(name) : r \in DOMAIN put[t] /\ r = <<name, New(t)>> /\ db'[r] = put[t][r]
    <3>1. \A r \in DOMAIN put[t] : r = <<r[1], r[2]>>
      BY <2>1 DEF Mine
    <3> QED BY <2>1, <3>1 DEF Added, Table
  <2>3. NewKey(t) /\ NewToken(t) /\ NewCut(t)
    BY <1>2 DEF IInv, TxInv
  <2>4. ASSUME NEW r \in Added("cut"), db'[r].by = "enrollment"
        PROVE  Table(db, "cut") = {}
    <3>1. r \in DOMAIN put[t] /\ r[1] = "cut" /\ put[t][r].by = "enrollment"
      BY <2>2, <2>4
    <3> QED BY <2>3, <3>1 DEF NewCut
  <2>5. ASSUME NEW r \in Added("key"), db'[r].owner = 0
        PROVE  /\ \A q \in Table(db, "key") : db[q].owner = 0
               /\ \A q \in Table(db, "cut") : db[q].by # "enrollment"
    <3>1. <<"key", New(t)>> \in DOMAIN put[t] /\ put[t][<<"key", New(t)>>].owner = 0
      BY <2>2, <2>5
    <3> QED BY <2>3, <3>1 DEF NewKey
  <2>6. ASSUME NEW r \in Added("token"), db'[r].inst = 0
        PROVE  Owners(db) \subseteq {0}
    <3>1. <<"token", New(t)>> \in DOMAIN put[t] /\ put[t][<<"token", New(t)>>].inst = 0
      BY <2>2, <2>6
    <3> QED BY <2>3, <3>1 DEF NewToken
  <2>7. Decisions
    <3>1. Org \in DOMAIN db
      BY <1>2 DEF IInv, Typed
    <3>2. db[Org] = "cancelled" => db'[Org] = "cancelled"
      BY <2>1, <3>1 DEF Keeps
    <3>3. \A r \in Table(db, "inst") :
            /\ db[r].status = "retired" => db'[r].status = "retired"
            /\ db[r].status = "inactive" => db'[r].status # "active"
      BY <2>1 DEF Keeps, Table
    <3>4. \A r \in DOMAIN db : r[1] \in {"code", "token", "key"} /\ ~Live(db, r) => ~Live(db', r)
      BY <2>1 DEF Keeps, Live
    <3> QED BY <3>2, <3>3, <3>4
  <2> QED BY <2>4, <2>5, <2>6, <2>7
<1>3. IInv /\ [Next]_vars => [Boundary /\ Decisions]_vars
  <2>1. ASSUME IInv, Next
        PROVE  Boundary /\ Decisions
    <3>1. PICK t \in Tx : Begin(t) \/ Step(t) \/ Commit(t) \/ Fail(t)
      BY <2>1 DEF Next
    <3> HIDE DEF Boundary, Decisions
    <3> QED BY <1>1, <1>2, <2>1, <3>1, OnlyCommits
  <2> HIDE DEF Boundary, Decisions
  <2> QED BY <2>1
<1>4. [][Boundary /\ Decisions]_vars => HistoryStays
  <2> SUFFICES [][Boundary /\ Decisions]_vars => BoundaryStays /\ DecisionsStay
    BY DEF HistoryStays
  <2>1. [Boundary /\ Decisions]_vars => [Boundary]_vars /\ [Decisions]_vars
    <3> HIDE DEF Boundary, Decisions
    <3> QED OBVIOUS
  <2>2. BoundaryStays <=> [][Boundary]_vars
    BY DEF BoundaryStays
  <2>3. DecisionsStay <=> [][Decisions]_vars
    BY DEF DecisionsStay
  <2> HIDE DEF Boundary, Decisions
  <2> QED BY <2>1, <2>2, <2>3, PTL
<1> HIDE DEF Boundary, Decisions
<1> QED BY <1>3, <1>4, InvariantHolds, PTL DEF Spec

-----------------------------------------------------------------------------
(* A code is spent once and a cancelled library has nothing alive: the     *)
(* second layer of the inductive invariant, about codes, installations and *)
(* the library, over the first one.                                        *)

-----------------------------------------------------------------------------
(* The rest of the inductive invariant.                                    *)

(* Whoever adds a credential, or touches an installation in service, works *)
(* for a library that is not cancelled, and holds what keeps it so.        *)
Serves(t) ==
  /\ op[t].kind = "redeem" /\ pc[t] \in {"branch", "token", "key", "commit"} => db[Org] # "cancelled"
  /\ op[t].kind = "grant" /\ pc[t] \in {"branch", "commit"} => <<Org, Share>> \in lock[t] /\ db[Org] # "cancelled"
  /\ op[t].kind = "recover" /\ pc[t] # "org" => db[Org] # "cancelled"
  /\ op[t].kind = "issue" /\ pc[t] = "commit" => db[Org] # "cancelled"
  /\ op[t].kind = "generate" /\ pc[t] \in {"sweep", "commit"} =>
       <<op[t].row, Update>> \in lock[t] /\ db[op[t].row].status # "retired" /\ db[Org] # "cancelled"

(* An installation that it leaves in service, or adds; the library that it *)
(* cancels.                                                                *)
Touches(t) ==
  /\ \A r \in DOMAIN put[t] : r[1] = "inst" =>
       IF r \in DOMAIN db THEN put[t][r].status = "retired" \/ (db[r].status # "retired" /\ db[Org] # "cancelled")
       ELSE <<Org, KeyShare>> \in lock[t] /\ put[t][r].status = "provisioning"
  /\ op[t].kind = "library" => op[t].arg # "cancelled"
  /\ Org \in DOMAIN put[t] /\ put[t][Org] = "cancelled" => op[t].kind = "offboard"

(* Offboarding has ended what it has swept. *)
Upto(stage) ==
  CASE stage = "token" -> {"token"}
    [] stage = "inst"  -> {"token", "inst"}
    [] stage = "code"  -> {"token", "inst", "code"}
    [] OTHER           -> {"token", "inst", "code", "key"}
Sweeping(t) ==
  op[t].kind = "offboard" =>
    /\ pc[t] \in {"org", "sweep", "commit"} /\ (pc[t] = "org" => DOMAIN put[t] = {})
    /\ pc[t] = "sweep" => \A r \in todo[t] : r[1] = seen[t]
    /\ pc[t] # "org" => \A name \in Upto(IF pc[t] = "commit" THEN "key" ELSE seen[t]) : LiveIn(View(t), name) \subseteq todo[t]

(* A code that it adds is the installation's only unused one, and one that *)
(* it uses it uses for a token.                                            *)
NewCode(t) ==
  /\ op[t].kind = "generate" /\ pc[t] = "hold" => DOMAIN put[t] = {}
  /\ op[t].kind = "generate" /\ pc[t] = "sweep" =>
       LiveOf(View(t), "code", op[t].row[2]) \subseteq todo[t] /\ DOMAIN put[t] \subseteq DOMAIN db
  /\ LET c == <<"code", New(t)>> IN
     c \in DOMAIN put[t] =>
       /\ op[t].kind = "generate" /\ pc[t] = "commit" /\ put[t][c].inst = op[t].row[2] /\ put[t][c].state = "unused"
       /\ LiveOf(View(t), "code", op[t].row[2]) \subseteq {c}
Spends(t) ==
  LET n == <<"token", New(t)>> IN
  /\ \A c \in DOMAIN put[t] : c[1] = "code" /\ c \in DOMAIN db /\ put[t][c].state = "used" =>
       n \in DOMAIN put[t] /\ put[t][n].from = c[2] /\ db[c].state = "unused"
  /\ n \in DOMAIN put[t] /\ put[t][n].from # 0 =>
       LET c == <<"code", put[t][n].from>> IN
       c \in DOMAIN db /\ c \in DOMAIN put[t] /\ put[t][c].state = "used" /\ db[c].state = "unused"

(* All of it. *)
CTx(t) == Serves(t) /\ Touches(t) /\ Sweeping(t) /\ NewCode(t) /\ Spends(t)

CInv == Spent(db) /\ Closed(db) /\ \A t \in Tx : CTx(t)
-----------------------------------------------------------------------------
(* What a statement writes.                                                *)

(* Whose statement it is. *)
LEMMA StepOfKind ==
  ASSUME NEW t \in Tx, Step(t)
  PROVE  /\ pc[t] # "commit"
         /\ op[t].kind = "redeem" =>
              RedeemOrg(t) \/ RedeemCode(t) \/ RedeemScope(t) \/ RedeemBranch(t) \/ RedeemToken(t) \/ RedeemKey(t)
         /\ op[t].kind = "generate" => GenerateHold(t) \/ GenerateInsert(t) \/ SweepRow(t)
         /\ op[t].kind = "recover" => RecoverOrg(t) \/ RecoverTokens(t) \/ RecoverHold(t) \/ SweepRow(t)
         /\ op[t].kind = "offboard" => OffboardOrg(t) \/ OffboardNext(t) \/ OffboardEnd(t) \/ SweepRow(t)
         /\ op[t].kind = "grant" => GrantOrg(t) \/ GrantBranch(t)
         /\ op[t].kind = "issue" => IssueOrg(t) \/ IssueBranch(t)
<1> USE DEF At
<1>1. CASE RedeemOrg(t) \/ RedeemCode(t) \/ RedeemScope(t) \/ RedeemBranch(t) \/ RedeemToken(t) \/ RedeemKey(t)
  BY <1>1 DEF RedeemOrg, RedeemCode, RedeemScope, RedeemBranch, RedeemToken, RedeemKey
<1>2. CASE GenerateHold(t) \/ GenerateInsert(t) \/ RecoverOrg(t) \/ RecoverTokens(t) \/ RecoverHold(t)
  BY <1>2 DEF GenerateHold, GenerateInsert, RecoverOrg, RecoverTokens, RecoverHold
<1>3. CASE SweepRow(t) \/ OffboardOrg(t) \/ OffboardNext(t) \/ OffboardEnd(t)
  BY <1>3 DEF SweepRow, OffboardOrg, OffboardNext, OffboardEnd
<1>4. CASE SetLibrary(t) \/ StatusBranch(t) \/ StatusRow(t) \/ CreatePlace(t) \/ RevokeOrg(t) \/ RevokeRow(t)
  BY <1>4 DEF SetLibrary, StatusBranch, StatusRow, CreatePlace, RevokeOrg, RevokeRow
<1>5. CASE GrantOrg(t) \/ GrantBranch(t) \/ IssueOrg(t) \/ IssueBranch(t) \/ RetireRow(t) \/ CutoverInsert(t)
  BY <1>5 DEF GrantOrg, GrantBranch, IssueOrg, IssueBranch, RetireRow, CutoverInsert
<1>6. CASE Touch(t) \/ Beat(t) \/ Contact(t) \/ StoreEvents(t) \/ BranchReady(t)
  BY <1>6 DEF Touch, Beat, Contact, StoreEvents, BranchReady
<1> HIDE DEF At
<1> QED BY <1>1, <1>2, <1>3, <1>4, <1>5, <1>6 DEF Step

(* A row of an installation or of the library that it may write. *)
MayTouch(t, r, v) ==
  /\ r[1] = "inst" =>
       IF r \in DOMAIN db THEN v.status = "retired" \/ (db[r].status # "retired" /\ db[Org] # "cancelled")
       ELSE <<Org, KeyShare>> \in lock'[t] /\ v.status = "provisioning"
  /\ r = Org /\ v = "cancelled" => op[t].kind = "offboard"

RowsInv(t) == Touches(t) /\ Spends(t) /\ <<"code", New(t)>> \notin DOMAIN put[t]

(* It writes neither a code of its own, nor that a code is used. *)
LEMMA WritesFine ==
  ASSUME Shape, NEW t \in Tx, Touches(t), Spends(t), NewCode(t), Step(t), NEW w, put'[t] = Over(w, put[t]),
         \A r \in DOMAIN w :
           /\ r # <<"code", New(t)>> /\ MayTouch(t, r, w[r])
           /\ r[1] = "code" => w[r].state = "revoked" /\ <<"token", New(t)>> \notin DOMAIN put[t] \cup DOMAIN w
           /\ r = <<"token", New(t)>> => w[r].from = 0 /\ r \notin DOMAIN put[t]
  PROVE  RowsInv(t)'
<1> DEFINE n == <<"token", New(t)>>
           c == <<"code", New(t)>>
<1>1. /\ db' = db /\ op'[t] = op[t] /\ lock[t] \subseteq lock'[t] /\ New(t)' = New(t)
  BY StepIsStatement, StatementFrame DEF New
<1>2. pc[t] # "commit"
  BY StepOfKind
<1>3. /\ DOMAIN put'[t] = DOMAIN w \cup DOMAIN put[t]
      /\ \A r \in DOMAIN w : put'[t][r] = w[r]
      /\ \A r \in DOMAIN put[t] : r \notin DOMAIN w => put'[t][r] = put[t][r]
  <2>1. put'[t] = Over(w, put[t])
    OBVIOUS
  <2> QED BY ONLY <2>1 DEF Over
<1>4. Touches(t)'
  <2>1. ASSUME NEW r \in DOMAIN put'[t], r[1] = "inst"
        PROVE  IF r \in DOMAIN db THEN put'[t][r].status = "retired" \/ (db[r].status # "retired" /\ db[Org] # "cancelled")
               ELSE <<Org, KeyShare>> \in lock'[t] /\ put'[t][r].status = "provisioning"
    <3>1. CASE r \in DOMAIN w
      BY <2>1, <3>1, <1>3 DEF MayTouch
    <3>2. CASE r \notin DOMAIN w
      BY <2>1, <3>2, <1>1, <1>3 DEF Touches
    <3> QED BY <3>1, <3>2
  <2>2. Org \in DOMAIN put'[t] /\ put'[t][Org] = "cancelled" => op[t].kind = "offboard"
    <3>1. CASE Org \in DOMAIN w
      BY <3>1, <1>3 DEF MayTouch
    <3>2. CASE Org \notin DOMAIN w
      BY <3>2, <1>3 DEF Touches
    <3> QED BY <3>1, <3>2
  <2> QED BY <1>1, <2>1, <2>2 DEF Touches
<1>5. c \notin DOMAIN put'[t]
  BY <1>2, <1>3 DEF NewCode
<1>6. Spends(t)'
  <2> HIDE DEF n
  <2>1. ASSUME NEW x \in DOMAIN put'[t], x[1] = "code", x \in DOMAIN db, put'[t][x].state = "used"
        PROVE  n \in DOMAIN put'[t] /\ put'[t][n].from = x[2] /\ db[x].state = "unused"
    <3>1. x \notin DOMAIN w
      BY <2>1, <1>3
    <3>2. n \in DOMAIN put[t] /\ put[t][n].from = x[2] /\ db[x].state = "unused"
      BY <2>1, <3>1, <1>3 DEF Spends, n
    <3>3. n \notin DOMAIN w
      BY <3>2 DEF n
    <3> QED BY <3>2, <3>3, <1>3
  <2>2. ASSUME n \in DOMAIN put'[t], put'[t][n].from # 0
        PROVE  LET x == <<"code", put'[t][n].from>> IN
               x \in DOMAIN db /\ x \in DOMAIN put'[t] /\ put'[t][x].state = "used" /\ db[x].state = "unused"
    <3>1. n \notin DOMAIN w
      BY <2>2, <1>3 DEF n
    <3>2. n \in DOMAIN put[t] /\ put'[t][n] = put[t][n]
      BY <2>2, <3>1, <1>3
    <3> DEFINE x == <<"code", put[t][n].from>>
    <3>3. x \in DOMAIN db /\ x \in DOMAIN put[t] /\ put[t][x].state = "used" /\ db[x].state = "unused"
      BY <2>2, <3>2 DEF Spends, n
    <3>4. x \notin DOMAIN w
      <4>1. x[1] = "code"
        OBVIOUS
      <4> HIDE DEF x
      <4> QED BY <3>2, <4>1 DEF n
    <3>5. x \in DOMAIN put'[t] /\ put'[t][x].state = "used"
      <4> HIDE DEF x
      <4> QED BY <3>3, <3>4, <1>3
    <3> QED BY <3>2, <3>3, <3>5
  <2> QED BY <1>1, <2>1, <2>2 DEF Spends, n
<1> QED BY <1>1, <1>4, <1>5, <1>6 DEF RowsInv
-----------------------------------------------------------------------------
(* A statement and its own transaction: the rows.                          *)

(* It writes one row that is neither a code, an installation, the library, *)
(* nor a token of its own.                                                 *)
LEMMA WritesPlain ==
  ASSUME Shape, NEW t \in Tx, Touches(t), Spends(t), NewCode(t), Step(t), NEW r, NEW v, put'[t] = Over(One(r, v), put[t]),
         r[1] \in {"token", "key", "cut", "branch"}, r # <<"token", New(t)>>
  PROVE  RowsInv(t)'
<1>1. DOMAIN One(r, v) = {r} /\ One(r, v)[r] = v
  BY DEF One
<1>2. r # <<"code", New(t)>> /\ r # Org /\ r[1] \notin {"code", "inst"}
  BY DEF Org
<1>3. MayTouch(t, r, v)
  BY <1>2 DEF MayTouch
<1> QED BY <1>1, <1>2, <1>3, WritesFine

(* It adds a token that no code is used for. *)
LEMMA WritesToken ==
  ASSUME Shape, NEW t \in Tx, Touches(t), Spends(t), NewCode(t), Step(t), NEW v,
         put'[t] = Over(One(<<"token", New(t)>>, v), put[t]), v.from = 0, <<"token", New(t)>> \notin DOMAIN put[t]
  PROVE  RowsInv(t)'
<1> DEFINE r == <<"token", New(t)>>
<1>1. DOMAIN One(r, v) = {r} /\ One(r, v)[r] = v
  BY DEF One
<1>2. r # <<"code", New(t)>> /\ r # Org /\ r[1] \notin {"code", "inst"}
  BY DEF Org
<1>3. MayTouch(t, r, v)
  BY <1>2 DEF MayTouch
<1> HIDE DEF r
<1> QED BY <1>1, <1>2, <1>3, WritesFine DEF r

(* It writes an installation or the library. *)
LEMMA WritesPlace ==
  ASSUME Shape, NEW t \in Tx, Touches(t), Spends(t), NewCode(t), Step(t), NEW r, NEW v, put'[t] = Over(One(r, v), put[t]),
         r[1] \in {"inst", "org"}, MayTouch(t, r, v)
  PROVE  RowsInv(t)'
<1>1. DOMAIN One(r, v) = {r} /\ One(r, v)[r] = v
  BY DEF One
<1>2. r # <<"code", New(t)>> /\ r # <<"token", New(t)>> /\ r[1] # "code"
  OBVIOUS
<1> QED BY <1>1, <1>2, WritesFine

(* It writes nothing. *)
LEMMA WritesNothing ==
  ASSUME Shape, NEW t \in Tx, Touches(t), Spends(t), NewCode(t), Step(t), put'[t] = Over(<<>>, put[t])
  PROVE  RowsInv(t)'
<1>1. DOMAIN <<>> = {}
  OBVIOUS
<1> HIDE DEF RowsInv
<1> QED BY <1>1, WritesFine

(* A row of a sweep is taken: it has ended by then, and nothing else has   *)
(* changed.                                                                *)
LEMMA SweepRowEnds ==
  ASSUME Shape, Typed(db), NEW t \in Tx, TxInv(t), SweepRow(t)
  PROVE  LET r == First(todo[t]) IN
         /\ op[t].kind \in Sweeps /\ pc[t] = "sweep" /\ pc'[t] = "sweep" /\ seen'[t] = seen[t]
         /\ r \in todo[t] /\ todo'[t] = todo[t] \ {r} /\ db' = db /\ op'[t] = op[t] /\ r \in DOMAIN db
         /\ r[1] \in {"inst", "code", "token", "key"} /\ r[2] # New(t)
         /\ op[t].kind = "generate" => r[1] = "code"
         /\ op[t].kind = "recover" => r[1] = "token"
         /\ put'[t] = Over(IF Live(View(t), r) THEN One(r, Ended(View(t), r)) ELSE <<>>, put[t])
         /\ r[1] = "inst" => Ended(View(t), r).status = "retired"
         /\ r[1] = "code" => Ended(View(t), r).state = "revoked"
         /\ DOMAIN View(t)' = DOMAIN View(t) /\ ~Live(View(t)', r)
         /\ \A x \in DOMAIN View(t) : x # r => View(t)'[x] = View(t)[x]
         /\ DOMAIN put'[t] \subseteq DOMAIN put[t] \cup {r}
<1> DEFINE r == First(todo[t])
           v == Ended(View(t), r)
<1>1. /\ op[t].kind \in Sweeps /\ pc[t] = "sweep" /\ pc'[t] = "sweep" /\ seen'[t] = seen[t] /\ todo[t] # {}
      /\ todo'[t] = todo[t] \ {r} /\ db' = db /\ op'[t] = op[t]
      /\ put'[t] = Over(IF Live(View(t), r) THEN One(r, v) ELSE <<>>, put[t])
  BY DEF SweepRow, At, Take, Shape, Sweeps
<1>2. /\ todo[t] \subseteq DOMAIN db
      /\ \A x \in todo[t] : /\ x[1] \in {"inst", "code", "token", "key"}
                            /\ op[t].kind = "generate" => x[1] = "code"
                            /\ op[t].kind = "recover" => x[1] = "token"
  BY <1>1 DEF TxInv, SweepInv, Sweeps, Table
<1>3. r \in todo[t] /\ r \in DOMAIN db
  <2>1. \A x \in todo[t] : x[2] \in Nat
    BY <1>2, RowsArePairs
  <2> QED BY <1>1, <1>2, <2>1, FirstIsOne
<1>4. /\ DOMAIN View(t) = DOMAIN put[t] \cup DOMAIN db
      /\ \A x \in DOMAIN put[t] : View(t)[x] = put[t][x]
      /\ \A x \in DOMAIN db : x \notin DOMAIN put[t] => View(t)[x] = db[x]
  BY ViewRows
<1>5. r[2] # New(t) /\ r[1] \in {"inst", "code", "token", "key"}
  BY <1>1, <1>2, <1>3 DEF TxInv, Fresh
<1>6. RowOf(r, View(t)[r])
  <2> HIDE DEF r
  <2>1. CASE r \in DOMAIN put[t]
    BY <1>4, <2>1 DEF TxInv, Written, Mine
  <2>2. CASE r \notin DOMAIN put[t]
    BY <1>3, <1>4, <2>2, RowsArePairs
  <2> QED BY <2>1, <2>2
<1>7. /\ r[1] = "inst" => v.status = "retired"
      /\ r[1] = "code" => v.state = "revoked"
      /\ r[1] \in {"token", "key"} => ~v.active
  <2> HIDE DEF r
  <2> QED BY <1>6 DEF RowOf, Ended
<1>8. View(t)' = Over(put'[t], db)
  BY <1>1 DEF View
<1>9. /\ DOMAIN View(t)' = DOMAIN put'[t] \cup DOMAIN db
      /\ \A x \in DOMAIN put'[t] : View(t)'[x] = put'[t][x]
      /\ \A x \in DOMAIN db : x \notin DOMAIN put'[t] => View(t)'[x] = db[x]
  BY ONLY <1>8 DEF Over
<1> HIDE DEF v, r
<1>10. CASE Live(View(t), r)
  <2>1. /\ DOMAIN put'[t] = DOMAIN put[t] \cup {r} /\ put'[t][r] = v
        /\ \A x \in DOMAIN put[t] : x # r => put'[t][x] = put[t][x]
    <3>1. put'[t] = Over(One(r, v), put[t])
      BY <1>1, <1>10
    <3> QED BY ONLY <3>1 DEF Over, One
  <2>2. View(t)'[r] = v
    BY <2>1, <1>9
  <2>3. ~Live(View(t)', r)
    BY <1>5, <1>7, <2>2 DEF Live
  <2>4. DOMAIN View(t)' = DOMAIN View(t) /\ \A x \in DOMAIN View(t) : x # r => View(t)'[x] = View(t)[x]
    BY <1>3, <1>4, <1>9, <2>1
  <2> QED BY <1>1, <1>2, <1>3, <1>5, <1>7, <2>1, <2>3, <2>4 DEF r, v
<1>11. CASE ~Live(View(t), r)
  <2>1. put'[t] = put[t]
    <3>1. put'[t] = Over(<<>>, put[t])
      BY <1>1, <1>11
    <3> QED BY <3>1, OverNothing DEF Shape
  <2>2. DOMAIN View(t)' = DOMAIN View(t) /\ \A x \in DOMAIN View(t) : View(t)'[x] = View(t)[x]
    BY <1>4, <1>9, <2>1
  <2>3. r \in DOMAIN View(t)
    BY <1>3, <1>4
  <2>4. ~Live(View(t)', r)
    BY <1>11, <2>2, <2>3 DEF Live
  <2> QED BY <1>1, <1>2, <1>3, <1>5, <1>7, <2>1, <2>2, <2>4 DEF r, v
<1> QED BY <1>10, <1>11

(* Any statement but the two that are about codes. *)
LEMMA RowsStay ==
  ASSUME Shape, Typed(db), Closed(db), NEW t \in Tx, TxInv(t), Touches(t), Spends(t), NewCode(t), Step(t),
         ~RedeemToken(t), ~GenerateInsert(t)
  PROVE  RowsInv(t)'
<1>1. CASE RedeemOrg(t) \/ RedeemCode(t) \/ RedeemScope(t) \/ RedeemBranch(t)
  <2>1. put'[t] = Over(<<>>, put[t])
    BY <1>1, GoDoes DEF RedeemOrg, RedeemCode, RedeemScope, RedeemBranch
  <2> QED BY <2>1, WritesNothing
<1>2. CASE GenerateHold(t) \/ RecoverOrg(t) \/ RecoverTokens(t) \/ OffboardNext(t) \/ OffboardEnd(t)
  <2>1. put'[t] = Over(<<>>, put[t])
    BY <1>2, GoDoes, SweepDoes DEF GenerateHold, RecoverOrg, RecoverTokens, OffboardNext, OffboardEnd
  <2> QED BY <2>1, WritesNothing
<1>3. CASE StatusBranch(t) \/ RevokeOrg(t) \/ GrantOrg(t) \/ IssueOrg(t) \/ Touch(t) \/ StoreEvents(t)
  <2>1. put'[t] = Over(<<>>, put[t])
    BY <1>3, GoDoes DEF StatusBranch, RevokeOrg, GrantOrg, IssueOrg, Touch, StoreEvents
  <2> QED BY <2>1, WritesNothing
<1>4. CASE RedeemKey(t)
  <2> DEFINE k == <<"key", New(t)>>
             q == <<"cut", New(t)>>
             v == [owner |-> InstOf(t), active |-> TRUE, heard |-> 0]
             e == [by |-> "enrollment", code |-> op[t].row[2], inst |-> InstOf(t)]
             w == Over(One(k, v), One(q, e))
  <2>1. put'[t] = Over(w, put[t])
    BY <1>4, GoDoes DEF RedeemKey
  <2>2. DOMAIN w = {k, q}
    BY DEF Over, One
  <2>3. \A r \in {k, q} : r # Org /\ r[1] \notin {"inst", "code"} /\ r # <<"token", New(t)>> /\ r # <<"code", New(t)>>
    BY DEF Org
  <2> HIDE DEF k, q, v, e, w
  <2>4. \A r \in {k, q} : MayTouch(t, r, w[r])
    BY <2>3 DEF MayTouch
  <2> QED BY <2>1, <2>2, <2>3, <2>4, WritesFine
<1>5. CASE RevokeRow(t) \/ RetireRow(t)
  <2>1. op[t].row \in DOMAIN db /\ op[t].row[1] \in {"token", "key"} /\ op[t].row[2] # New(t)
    <3>1. op[t].kind \in {"revoke", "retire"} /\ pc[t] = "row"
      BY <1>5, GoDoes DEF RevokeRow, RetireRow
    <3> QED BY <3>1 DEF TxInv, OpOk, Fresh, Table
  <2>2. put'[t] = Over(One(op[t].row, Ended(db, op[t].row)), put[t])
    BY <1>5, GoDoes DEF RevokeRow, RetireRow
  <2> QED BY <2>1, <2>2, WritesPlain
<1>6. CASE IssueBranch(t)
  <2>1. put'[t] = Over(One(<<"key", New(t)>>, [owner |-> 0, active |-> TRUE, heard |-> 0]), put[t])
    BY <1>6, GoDoes DEF IssueBranch
  <2> QED BY <2>1, WritesPlain
<1>7. CASE CutoverInsert(t)
  <2>1. put'[t] = Over(One(<<"cut", New(t)>>, [by |-> "operator", code |-> 0, inst |-> 0]), put[t])
    BY <1>7, GoDoes DEF CutoverInsert
  <2> QED BY <2>1, WritesPlain
<1>8. CASE Beat(t)
  <2>1. op[t].arg[1] = "key"
    <3>1. op[t].kind = "status_v2"
      BY <1>8, GoDoes DEF Beat
    <3> QED BY <3>1 DEF TxInv, OpOk, Table
  <2>2. put'[t] = Over(One(op[t].arg, [db[op[t].arg] EXCEPT !.heard = New(t)]), put[t])
    BY <1>8, GoDoes DEF Beat
  <2> QED BY <2>1, <2>2, WritesPlain
<1>9. CASE BranchReady(t)
  <2>1. put'[t] = Over(One(Branch, "ready"), put[t]) /\ Branch[1] = "branch"
    BY <1>9, GoDoes DEF BranchReady, Branch
  <2> QED BY <2>1, WritesPlain DEF Branch
<1>10. CASE GrantBranch(t)
  <2>1. /\ op[t].kind = "grant" /\ pc[t] = "branch"
        /\ put'[t] = Over(One(<<"token", New(t)>>, [inst |-> 0, active |-> TRUE, from |-> 0]), put[t])
    BY <1>10, GoDoes DEF GrantBranch
  <2>2. DOMAIN put[t] = {}
    BY <2>1 DEF TxInv, SingleInv, Single
  <2> QED BY <2>1, <2>2, WritesToken
<1>11. CASE RecoverHold(t)
  <2>1. /\ op[t].kind = "recover" /\ pc[t] = "hold"
        /\ put'[t] = Over(One(<<"token", New(t)>>, [inst |-> op[t].row[2], active |-> TRUE, from |-> 0]), put[t])
    BY <1>11, GoDoes DEF RecoverHold
  <2>2. <<"token", New(t)>> \notin DOMAIN put[t]
    <3>1. DOMAIN put[t] \subseteq DOMAIN db
      BY <2>1 DEF TxInv, SweepInv
    <3> QED BY <2>1, <3>1 DEF TxInv, Fresh
  <2> QED BY <2>1, <2>2, WritesToken
<1>12. CASE SetLibrary(t)
  <2>1. op[t].kind = "library" /\ put'[t] = Over(One(Org, op[t].arg), put[t])
    BY <1>12, GoDoes DEF SetLibrary
  <2>2. MayTouch(t, Org, op[t].arg) /\ Org[1] = "org"
    BY <2>1 DEF MayTouch, Touches, Org
  <2> QED BY <2>1, <2>2, WritesPlace
<1>13. CASE OffboardOrg(t)
  <2>1. op[t].kind = "offboard" /\ put'[t] = Over(One(Org, "cancelled"), put[t])
    BY <1>13, SweepDoes DEF OffboardOrg
  <2>2. MayTouch(t, Org, "cancelled") /\ Org[1] = "org"
    BY <2>1 DEF MayTouch, Org
  <2> QED BY <2>1, <2>2, WritesPlace
<1>14. CASE StatusRow(t)
  <2> DEFINE r == op[t].row
             v == [db[r] EXCEPT !.status = op[t].arg]
  <2>1. op[t].kind = "status" /\ db[r].status = seen[t] /\ db[Org] # "cancelled" /\ put'[t] = Over(One(r, v), put[t])
    BY <1>14, GoDoes DEF StatusRow
  <2>2. r \in DOMAIN db /\ r[1] = "inst" /\ db[r].status # "retired"
    BY <2>1 DEF TxInv, OpOk, Table, Transitions
  <2>3. MayTouch(t, r, v)
    <3> HIDE DEF v
    <3> QED BY <2>1, <2>2 DEF MayTouch, Org
  <2> HIDE DEF v, r
  <2> QED BY <2>1, <2>2, <2>3, WritesPlace
<1>15. CASE CreatePlace(t)
  <2> DEFINE r == Inst(New(t))
             v == [status |-> "provisioning", contract |-> op[t].arg, heard |-> 0]
  <2>1. pc[t] = "place" /\ put'[t] = Over(One(r, v), put[t]) /\ lock'[t] = lock[t] \cup Wants(t)
    BY <1>15, GoDoes DEF CreatePlace
  <2>2. r \notin DOMAIN db /\ r[1] = "inst"
    BY <2>1 DEF TxInv, Fresh, Inst
  <2>3. <<Org, KeyShare>> \in lock'[t]
    BY <2>1 DEF Wants
  <2>4. MayTouch(t, r, v)
    BY <2>2, <2>3 DEF MayTouch, Org
  <2> HIDE DEF v, r
  <2> QED BY <2>1, <2>2, <2>4, WritesPlace
<1>16. CASE Contact(t)
  <2> DEFINE k == op[t].row
             r == Inst(db[k].inst)
             v == [db[r] EXCEPT !.status = "active", !.heard = New(t)]
  <2>1. /\ op[t].kind \in {"status_v1", "status_v2"} /\ pc[t] = "contact" /\ put'[t] = Over(One(r, v), put[t])
        /\ db[r].status # "retired"
    BY <1>16, GoDoes DEF Contact
  <2>2. k \in DOMAIN db /\ k[1] = "token" /\ db[k].inst # 0
    BY <2>1 DEF TxInv, OpOk, Table
  <2>3. r \in DOMAIN db /\ r[1] = "inst"
    BY <2>2, RowsArePairs DEF Refers, Inst
  <2>4. db[Org] # "cancelled"
    BY <2>1, <2>2 DEF Closed, Table
  <2>5. MayTouch(t, r, v)
    BY <2>1, <2>3, <2>4 DEF MayTouch, Org
  <2> HIDE DEF v, r
  <2> QED BY <2>1, <2>3, <2>5, WritesPlace
<1>17. CASE SweepRow(t)
  <2> DEFINE r == First(todo[t])
             v == Ended(View(t), r)
  <2>1. /\ op[t].kind \in Sweeps /\ pc[t] = "sweep" /\ r \in todo[t] /\ r \in DOMAIN db
        /\ r[1] \in {"inst", "code", "token", "key"} /\ r[2] # New(t)
        /\ op[t].kind = "generate" => r[1] = "code"
        /\ op[t].kind = "recover" => r[1] = "token"
        /\ put'[t] = Over(IF Live(View(t), r) THEN One(r, v) ELSE <<>>, put[t])
        /\ r[1] = "inst" => v.status = "retired"
        /\ r[1] = "code" => v.state = "revoked"
    BY <1>17, SweepRowEnds
  <2> HIDE DEF r, v
  <2>2. CASE ~Live(View(t), r)
    BY <2>1, <2>2, WritesNothing
  <2>3. CASE Live(View(t), r)
    <3>1. put'[t] = Over(One(r, v), put[t])
      BY <2>1, <2>3
    <3>2. DOMAIN One(r, v) = {r} /\ One(r, v)[r] = v
      BY DEF One
    <3>3. MayTouch(t, r, v)
      BY <2>1 DEF MayTouch, Org
    <3>4. r[1] = "code" => <<"token", New(t)>> \notin DOMAIN put[t]
      <4>1. op[t].kind = "generate" => \A x \in DOMAIN put[t] : x[1] = "code"
        BY DEF TxInv, SweepInv
      <4>2. op[t].kind = "offboard" => \A x \in DOMAIN put[t] : x \in DOMAIN db /\ x[2] # New(t)
        BY <2>1 DEF TxInv, SweepInv, Fresh
      <4> QED BY <2>1, <4>1, <4>2 DEF Sweeps
    <3> QED BY <2>1, <3>1, <3>2, <3>3, <3>4, WritesFine
  <2> QED BY <2>2, <2>3
<1> QED BY <1>1, <1>2, <1>3, <1>4, <1>5, <1>6, <1>7, <1>8, <1>9, <1>10, <1>11, <1>12, <1>13, <1>14, <1>15, <1>16, <1>17 DEF Step

(* The statement that spends a code and adds its token. *)
LEMMA RedeemTokenSpends ==
  ASSUME Shape, Typed(db), NEW t \in Tx, TxInv(t), RedeemToken(t)
  PROVE  RowsInv(t)'
<1> DEFINE c == op[t].row
           n == <<"token", New(t)>>
           v == [db[c] EXCEPT !.state = "used", !.at = New(t)]
           w == [inst |-> InstOf(t), active |-> TRUE, from |-> c[2]]
<1>1. /\ op[t].kind = "redeem" /\ pc[t] = "token" /\ db[c].state = "unused" /\ db' = db /\ op'[t] = op[t]
      /\ put'[t] = Over(Over(One(c, v), One(n, w)), put[t])
  BY GoDoes DEF RedeemToken
<1>2. DOMAIN put[t] = {} /\ c \in DOMAIN db /\ c[1] = "code" /\ c[2] # New(t)
  BY <1>1 DEF TxInv, RedeemInv, OpOk, Table, Fresh
<1>3. c = <<"code", c[2]>> /\ c[2] \in Nat /\ db[c] \in [inst : Nat, contract : {1, 2}, state : {"unused", "used", "revoked"}, at : Nat]
  BY <1>2, RowsArePairs DEF RowOf
<1>4. v.state = "used" /\ w.from = c[2] /\ c # n /\ New(t)' = New(t)
  BY <1>2, <1>3 DEF New
<1>5. DOMAIN put'[t] = {c, n} /\ put'[t][c] = v /\ put'[t][n] = w
  <2> HIDE DEF c, n, v, w
  <2> QED BY ONLY <1>1, <1>2, <1>4 DEF Over, One
<1>6. n \notin DOMAIN db /\ <<"code", New(t)>> \notin {c, n} /\ Org \notin {c, n} /\ n[1] = "token"
  BY <1>1, <1>2 DEF TxInv, Fresh, Org
<1> HIDE DEF v, w
<1>7. Touches(t)'
  <2>1. op'[t].kind # "library"
    BY <1>1
  <2> HIDE DEF c, n
  <2> QED BY <1>2, <1>5, <1>6, <2>1 DEF Touches
<1>8. Spends(t)'
  <2>1. n \in DOMAIN put'[t] /\ put'[t][n].from = c[2] /\ put'[t][c].state = "used" /\ db'[c].state = "unused" /\ c \in DOMAIN db'
    BY <1>1, <1>2, <1>4, <1>5
  <2>2. \A x \in DOMAIN put'[t] : x[1] = "code" => x = c
    BY <1>5, <1>6
  <2>3. <<"code", put'[t][n].from>> = c
    BY <1>3, <2>1
  <2>4. \A x \in DOMAIN put'[t] : x[1] = "code" /\ x \in DOMAIN db' /\ put'[t][x].state = "used" =>
          n \in DOMAIN put'[t] /\ put'[t][n].from = x[2] /\ db'[x].state = "unused"
    <3> HIDE DEF c, n
    <3> QED BY <2>1, <2>2
  <2>5. LET x == <<"code", put'[t][n].from>> IN
        x \in DOMAIN db' /\ x \in DOMAIN put'[t] /\ put'[t][x].state = "used" /\ db'[x].state = "unused"
    <3> HIDE DEF n
    <3> QED BY <2>1, <2>3, <1>5
  <2>6. <<"token", New(t)'>> = n
    BY <1>4
  <2> HIDE DEF c, n
  <2> QED BY <2>4, <2>5, <2>6 DEF Spends
<1> QED BY <1>4, <1>5, <1>6, <1>7, <1>8 DEF RowsInv

(* The statement that adds a code. *)
LEMMA GenerateInsertAdds ==
  ASSUME Shape, Typed(db), NEW t \in Tx, TxInv(t), Touches(t), Spends(t), NewCode(t), GenerateInsert(t)
  PROVE  Touches(t)' /\ Spends(t)' /\ NewCode(t)'
<1> DEFINE c == <<"code", New(t)>>
           i == op[t].row[2]
           v == [inst |-> i, contract |-> db[op[t].row].contract, state |-> "unused", at |-> 0]
<1>1. /\ op[t].kind = "generate" /\ pc[t] = "sweep" /\ pc'[t] = "commit" /\ todo'[t] = todo[t] /\ todo[t] = {}
      /\ put'[t] = Over(One(c, v), put[t]) /\ db' = db /\ op'[t] = op[t] /\ lock'[t] = lock[t] \cup Wants(t)
  BY GoDoes DEF GenerateInsert
<1>2. v.inst = i /\ v.state = "unused" /\ New(t)' = New(t) /\ c[1] = "code" /\ c # Org
  BY DEF New, Org
<1>3. c \notin DOMAIN db /\ \A x \in DOMAIN put[t] : x[1] = "code" /\ x \in DOMAIN db
  BY <1>1 DEF TxInv, Fresh, SweepInv, NewCode
<1>4. /\ DOMAIN put'[t] = DOMAIN put[t] \cup {c} /\ put'[t][c] = v
      /\ \A x \in DOMAIN put[t] : x # c => put'[t][x] = put[t][x]
  <2> HIDE DEF v, c
  <2> QED BY ONLY <1>1 DEF Over, One
<1> HIDE DEF v
<1>5. \A x \in DOMAIN put'[t] : x[1] = "code"
  BY <1>2, <1>3, <1>4
<1>6. Touches(t)'
  BY <1>1, <1>5 DEF Touches, Org
<1>7. Spends(t)'
  <2>1. <<"token", New(t)>> \notin DOMAIN put'[t] /\ <<"token", New(t)>> \notin DOMAIN put[t]
    BY <1>4, <1>5
  <2>2. \A x \in DOMAIN put'[t] : x \in DOMAIN db => put'[t][x].state # "used"
    <3> HIDE DEF c
    <3> QED BY <1>3, <1>4, <2>1 DEF Spends
  <2> QED BY <1>1, <1>2, <2>1, <2>2 DEF Spends
<1>8. LiveOf(View(t)', "code", i) \subseteq {c}
  <2>1. /\ DOMAIN View(t)' = DOMAIN put'[t] \cup DOMAIN db
        /\ \A x \in DOMAIN put'[t] : View(t)'[x] = put'[t][x]
        /\ \A x \in DOMAIN db : x \notin DOMAIN put'[t] => View(t)'[x] = db[x]
    <3>1. View(t)' = Over(put'[t], db)
      BY <1>1 DEF View
    <3> QED BY ONLY <3>1 DEF Over
  <2>2. \A x \in DOMAIN View(t)' : x # c => x \in DOMAIN View(t) /\ View(t)'[x] = View(t)[x]
    <3> HIDE DEF c
    <3> QED BY <1>4, <2>1, ViewRows
  <2>3. LiveOf(View(t), "code", i) = {}
    BY <1>1 DEF NewCode
  <2> HIDE DEF c, i
  <2> QED BY <2>2, <2>3 DEF LiveOf, LiveIn, Live, Table
<1>9. NewCode(t)'
  <2> HIDE DEF c, i
  <2>1. put'[t][c].inst = i /\ put'[t][c].state = "unused"
    BY <1>2, <1>4
  <2> QED BY <1>1, <1>2, <1>8, <2>1 DEF NewCode, c, i
<1> QED BY <1>6, <1>7, <1>9

-----------------------------------------------------------------------------
(* A statement and its own transaction: where it is.                       *)

(* Whoever adds a credential has looked at the library, and holds it. *)
LEMMA StepServes ==
  ASSUME Shape, Typed(db), NEW t \in Tx, TxInv(t), Serves(t), Step(t)
  PROVE  Serves(t)'
<1>1. Statement(t, Wants(t))
  BY StepIsStatement
<1>2. db' = db /\ op'[t] = op[t] /\ lock'[t] = lock[t] \cup Wants(t)
  BY <1>1, StatementFrame
<1>3. CASE op[t].kind = "redeem"
  <2>1. pc'[t] \in {"branch", "token", "key", "commit"} => db[Org] # "cancelled"
    <3>1. CASE RedeemOrg(t) \/ RedeemCode(t)
      BY <3>1, GoDoes DEF RedeemOrg, RedeemCode
    <3>2. CASE RedeemScope(t)
      <4>1. Usable(db)
        BY <3>2 DEF RedeemScope, Enrollable
      <4> QED BY <4>1 DEF Usable
    <3>3. CASE RedeemBranch(t) \/ RedeemToken(t) \/ RedeemKey(t)
      <4>1. pc[t] \in {"branch", "token", "key"}
        BY <3>3, GoDoes DEF RedeemBranch, RedeemToken, RedeemKey
      <4> QED BY <1>3, <4>1 DEF Serves
    <3> QED BY <1>3, <3>1, <3>2, <3>3, StepOfKind
  <2> QED BY <1>2, <1>3, <2>1 DEF Serves
<1>4. CASE op[t].kind = "grant"
  <2>1. CASE GrantOrg(t)
    <3>1. pc[t] = "org" /\ Usable(db)
      BY <2>1 DEF GrantOrg, At
    <3>2. <<Org, Share>> \in lock'[t]
      BY <1>2, <1>4, <3>1 DEF Wants, OrgLock, ExclusiveOnOrg
    <3> QED BY <1>2, <1>4, <3>1, <3>2 DEF Serves, Usable
  <2>2. CASE GrantBranch(t)
    <3>1. pc[t] = "branch"
      BY <2>2 DEF GrantBranch, At
    <3> QED BY <1>2, <1>4, <3>1 DEF Serves
  <2> QED BY <1>4, <2>1, <2>2, StepOfKind
<1>5. CASE op[t].kind = "recover"
  <2>1. db[Org] # "cancelled"
    <3>1. pc[t] = "org" => RecoverOrg(t)
      BY <1>5, StepOfKind DEF RecoverTokens, RecoverHold, SweepRow, At
    <3>2. RecoverOrg(t) => db[Org] # "cancelled"
      BY DEF RecoverOrg
    <3> QED BY <1>5, <3>1, <3>2 DEF Serves
  <2> QED BY <1>2, <1>5, <2>1 DEF Serves
<1>6. CASE op[t].kind = "issue"
  <2>1. CASE IssueOrg(t)
    <3>1. pc'[t] = "branch"
      BY <2>1, GoDoes DEF IssueOrg
    <3> QED BY <1>2, <1>6, <3>1 DEF Serves
  <2>2. CASE IssueBranch(t)
    <3>1. db[Org] # "cancelled"
      BY <2>2 DEF IssueBranch
    <3> QED BY <1>2, <1>6, <3>1 DEF Serves
  <2> QED BY <1>6, <2>1, <2>2, StepOfKind
<1>7. CASE op[t].kind = "generate"
  <2>1. CASE GenerateHold(t)
    <3>1. pc[t] = "hold" /\ Enrollable(db, op[t].row[2])
      BY <2>1 DEF GenerateHold, At
    <3>2. <<op[t].row, Update>> \in lock'[t]
      BY <1>2, <3>1 DEF Wants
    <3>3. op[t].row = Inst(op[t].row[2])
      <4>1. op[t].row \in DOMAIN db /\ op[t].row[1] = "inst"
        BY <1>7 DEF TxInv, OpOk, Table
      <4> QED BY <4>1, RowsArePairs
    <3>4. db[op[t].row].status # "retired" /\ db[Org] # "cancelled"
      BY <3>1, <3>3 DEF Enrollable, Usable
    <3> QED BY <1>2, <1>7, <3>2, <3>4 DEF Serves
  <2>2. CASE GenerateInsert(t) \/ SweepRow(t)
    <3>1. pc[t] = "sweep"
      BY <2>2 DEF GenerateInsert, SweepRow, At
    <3> QED BY <1>2, <1>7, <3>1 DEF Serves
  <2> QED BY <1>7, <2>1, <2>2, StepOfKind
<1> QED BY <1>2, <1>3, <1>4, <1>5, <1>6, <1>7 DEF Serves

(* Offboarding ends one table after the other. *)
LEMMA StepSweeps ==
  ASSUME Shape, Typed(db), NEW t \in Tx, TxInv(t), Sweeping(t), Step(t)
  PROVE  Sweeping(t)'
<1>1. Statement(t, Wants(t))
  BY StepIsStatement
<1>2. db' = db /\ op'[t] = op[t]
  BY <1>1, StatementFrame
<1> SUFFICES ASSUME op[t].kind = "offboard" PROVE Sweeping(t)'
  BY <1>2 DEF Sweeping
<1>3. \A s \in {"token", "inst", "code", "key"} : s \in Upto(s)
  BY DEF Upto
<1>4. CASE OffboardOrg(t)
  <2>1. /\ pc[t] = "org" /\ pc'[t] = "sweep" /\ seen'[t] = "token" /\ todo'[t] = LiveIn(db, "token")
        /\ put'[t] = Over(One(Org, "cancelled"), put[t])
    BY <1>4, SweepDoes DEF OffboardOrg
  <2>2. DOMAIN put[t] = {}
    BY <2>1 DEF Sweeping
  <2>3. DOMAIN put'[t] = {Org}
    BY ONLY <2>1, <2>2 DEF Over, One
  <2>4. View(t)' = Over(put'[t], db)
    BY <1>2 DEF View
  <2>5. /\ DOMAIN View(t)' = {Org} \cup DOMAIN db
        /\ \A x \in DOMAIN db : x # Org => View(t)'[x] = db[x]
    BY ONLY <2>3, <2>4 DEF Over
  <2>6. LiveIn(View(t)', "token") \subseteq LiveIn(db, "token")
    BY <2>5 DEF LiveIn, Table, Live, Org
  <2>7. \A x \in LiveIn(db, "token") : x[1] = "token"
    BY DEF LiveIn, Table
  <2>8. Upto("token") = {"token"}
    BY DEF Upto
  <2> QED BY <1>2, <2>1, <2>6, <2>7, <2>8 DEF Sweeping
<1>5. CASE OffboardNext(t)
  <2> DEFINE next == NextStage(seen[t])
  <2>1. /\ pc[t] = "sweep" /\ pc'[t] = "sweep" /\ seen'[t] = next /\ todo'[t] = LiveIn(View(t), next)
        /\ put'[t] = Over(<<>>, put[t]) /\ todo[t] = {} /\ seen[t] # "key"
    BY <1>5, SweepDoes DEF OffboardNext
  <2>2. put'[t] = put[t]
    BY <2>1, OverNothing DEF Shape
  <2>3. View(t)' = View(t)
    BY <1>2, <2>2 DEF View
  <2>4. seen[t] \in {"token", "inst", "code"}
    BY <2>1 DEF TxInv, SweepInv
  <2>5. Upto(next) = Upto(seen[t]) \cup {next} /\ next # "org"
    BY <2>4 DEF Upto, NextStage
  <2>6. \A name \in Upto(seen[t]) : LiveIn(View(t), name) = {}
    BY <2>1 DEF Sweeping
  <2>7. \A x \in todo'[t] : x[1] = next
    BY <2>1 DEF LiveIn, Table
  <2>8. \A name \in Upto(next) : LiveIn(View(t)', name) \subseteq todo'[t]
    <3> HIDE DEF next
    <3> QED BY <2>1, <2>3, <2>5, <2>6
  <2> HIDE DEF next
  <2> QED BY <1>2, <2>1, <2>7, <2>8 DEF Sweeping
<1>6. CASE OffboardEnd(t)
  <2>1. /\ pc[t] = "sweep" /\ pc'[t] = "commit" /\ seen'[t] = seen[t] /\ todo'[t] = todo[t]
        /\ put'[t] = Over(<<>>, put[t]) /\ todo[t] = {} /\ seen[t] = "key"
    BY <1>6, GoDoes DEF OffboardEnd
  <2>2. put'[t] = put[t]
    BY <2>1, OverNothing DEF Shape
  <2>3. View(t)' = View(t)
    BY <1>2, <2>2 DEF View
  <2> QED BY <1>2, <2>1, <2>3 DEF Sweeping
<1>7. CASE SweepRow(t)
  <2> DEFINE r == First(todo[t])
  <2>1. /\ pc[t] = "sweep" /\ pc'[t] = "sweep" /\ seen'[t] = seen[t] /\ todo'[t] = todo[t] \ {r}
        /\ DOMAIN View(t)' = DOMAIN View(t) /\ ~Live(View(t)', r)
        /\ \A x \in DOMAIN View(t) : x # r => View(t)'[x] = View(t)[x]
    BY <1>7, SweepRowEnds
  <2> HIDE DEF r
  <2>2. \A name : LiveIn(View(t)', name) \subseteq LiveIn(View(t), name) \ {r}
    BY <2>1 DEF LiveIn, Table, Live
  <2> QED BY <1>2, <2>1, <2>2 DEF Sweeping
<1> QED BY <1>4, <1>5, <1>6, <1>7, StepOfKind

(* Generating a code ends the older ones first. *)
LEMMA StepCodes ==
  ASSUME Shape, Typed(db), NEW t \in Tx, TxInv(t), NewCode(t), Step(t), ~GenerateInsert(t), <<"code", New(t)>> \notin DOMAIN put'[t]
  PROVE  NewCode(t)'
<1>1. Statement(t, Wants(t))
  BY StepIsStatement
<1>2. db' = db /\ op'[t] = op[t] /\ New(t)' = New(t)
  BY <1>1, StatementFrame DEF New
<1> DEFINE i == op[t].row[2]
<1>3. ASSUME op[t].kind = "generate"
      PROVE  /\ pc'[t] = "sweep"
             /\ LiveOf(View(t)', "code", i) \subseteq todo'[t] /\ DOMAIN put'[t] \subseteq DOMAIN db
  <2>1. CASE GenerateHold(t)
    <3>1. /\ pc[t] = "hold" /\ pc'[t] = "sweep" /\ todo'[t] = LiveOf(db, "code", i) /\ put'[t] = Over(<<>>, put[t])
      BY <2>1, SweepDoes DEF GenerateHold
    <3>2. DOMAIN put'[t] = {}
      <4>1. DOMAIN put[t] = {}
        BY <1>3, <3>1 DEF NewCode
      <4> QED BY ONLY <3>1, <4>1 DEF Over
    <3>3. View(t)' = Over(put'[t], db)
      BY <1>2 DEF View
    <3>4. DOMAIN View(t)' = DOMAIN db /\ \A x \in DOMAIN db : View(t)'[x] = db[x]
      BY ONLY <3>2, <3>3 DEF Over
    <3> HIDE DEF i
    <3>5. LiveOf(View(t)', "code", i) \subseteq LiveOf(db, "code", i)
      BY <3>4 DEF LiveOf, LiveIn, Table, Live
    <3> QED BY <3>1, <3>2, <3>5
  <2>2. CASE SweepRow(t)
    <3> DEFINE r == First(todo[t])
    <3>1. /\ pc[t] = "sweep" /\ pc'[t] = "sweep" /\ todo'[t] = todo[t] \ {r} /\ r \in DOMAIN db
          /\ DOMAIN View(t)' = DOMAIN View(t) /\ ~Live(View(t)', r)
          /\ \A x \in DOMAIN View(t) : x # r => View(t)'[x] = View(t)[x]
          /\ DOMAIN put'[t] \subseteq DOMAIN put[t] \cup {r}
      BY <2>2, SweepRowEnds
    <3>2. LiveOf(View(t), "code", i) \subseteq todo[t] /\ DOMAIN put[t] \subseteq DOMAIN db
      BY <1>3, <3>1 DEF NewCode
    <3> HIDE DEF r, i
    <3>3. LiveOf(View(t)', "code", i) \subseteq LiveOf(View(t), "code", i) \ {r}
      BY <3>1 DEF LiveOf, LiveIn, Table, Live
    <3> QED BY <3>1, <3>2, <3>3
  <2> QED BY <1>3, <2>1, <2>2, StepOfKind
<1> QED BY <1>2, <1>3 DEF NewCode

(* Every statement keeps the invariant of its own transaction. *)
LEMMA StepKeepsC ==
  ASSUME Shape, Typed(db), Closed(db), NEW t \in Tx, TxInv(t), CTx(t), Step(t)
  PROVE  CTx(t)'
<1> USE DEF CTx
<1>1. Serves(t)' /\ Sweeping(t)'
  BY StepServes, StepSweeps
<1>2. CASE GenerateInsert(t)
  BY <1>1, <1>2, GenerateInsertAdds
<1>3. CASE ~GenerateInsert(t)
  <2>1. RowsInv(t)'
    BY <1>3, RowsStay, RedeemTokenSpends
  <2>2. New(t)' = New(t)
    BY DEF New
  <2>3. Touches(t)' /\ Spends(t)' /\ <<"code", New(t)>> \notin DOMAIN put'[t]
    BY <2>1, <2>2 DEF RowsInv
  <2> QED BY <1>1, <1>3, <2>3, StepCodes
<1> QED BY <1>2, <1>3

-----------------------------------------------------------------------------
(* The beginning of a transaction, its end, and the steps of others.       *)

(* What changes nothing of a transaction keeps its invariant. *)
LEMMA SameStaysC ==
  ASSUME NEW u \in Tx, CTx(u),
         db' = db, op'[u] = op[u], pc'[u] = pc[u], seen'[u] = seen[u], todo'[u] = todo[u],
         put'[u] = put[u], lock'[u] = lock[u]
  PROVE  CTx(u)'
<1>1. /\ db' = db /\ op'[u] = op[u] /\ pc'[u] = pc[u] /\ seen'[u] = seen[u] /\ todo'[u] = todo[u]
      /\ put'[u] = put[u] /\ lock'[u] = lock[u] /\ New(u)' = New(u)
  BY DEF New
<1>2. View(u)' = View(u)
  BY <1>1 DEF View
<1>3. Serves(u)' /\ Touches(u)'
  BY <1>1 DEF CTx, Serves, Touches
<1>4. Sweeping(u)'
  BY <1>1, <1>2 DEF CTx, Sweeping
<1>5. NewCode(u)'
  BY <1>1, <1>2 DEF CTx, NewCode
<1>6. Spends(u)'
  BY <1>1 DEF CTx, Spends
<1> QED BY <1>3, <1>4, <1>5, <1>6 DEF CTx

(* A transaction that begins has written nothing and promises nothing. *)
LEMMA BeginKeepsC ==
  ASSUME Shape, NEW t \in Tx, \A u \in Tx : CTx(u), Begin(t)
  PROVE  \A u \in Tx : CTx(u)'
<1>1. PICK o \in AdminOps \cup ScriptOps \cup AgentOps :
        /\ op' = [op EXCEPT ![t] = o] /\ pc' = [pc EXCEPT ![t] = FirstStatement(o)]
        /\ seen' = [seen EXCEPT ![t] = IF o.kind = "status" THEN db[o.row].status ELSE "none"]
  BY DEF Begin
<1>2. /\ pc[t] = "idle" /\ db' = db /\ todo' = todo /\ put' = put /\ lock' = lock
  BY DEF Begin, Waiting
<1>3. DOMAIN put[t] = {}
  BY <1>2 DEF Shape, Running
<1>4. op'[t] = o /\ pc'[t] = FirstStatement(o)
  BY <1>1 DEF Shape
<1>5. o.kind = "library" => o.arg # "cancelled"
  <2>1. CASE o \in AdminOps
    BY <2>1 DEF AdminOps, Op
  <2>2. CASE o \in ScriptOps \cup AgentOps
    BY <2>2 DEF ScriptOps, AgentOps, Op
  <2> QED BY <2>1, <2>2
<1>6. /\ o.kind \in {"redeem", "grant", "recover", "issue", "offboard"} => FirstStatement(o) = "org"
      /\ o.kind = "generate" => FirstStatement(o) = "hold"
  BY DEF FirstStatement, ExclusiveOnOrg
<1>7. CTx(t)'
  <2>1. Serves(t)'
    BY <1>4, <1>6 DEF Serves
  <2>2. Touches(t)' /\ Spends(t)'
    BY <1>2, <1>3, <1>4, <1>5 DEF Touches, Spends
  <2>3. Sweeping(t)' /\ NewCode(t)'
    BY <1>2, <1>3, <1>4, <1>6 DEF Sweeping, NewCode
  <2> QED BY <2>1, <2>2, <2>3 DEF CTx
<1>8. ASSUME NEW u \in Tx, u # t
      PROVE  CTx(u)'
  <2>1. /\ db' = db /\ op'[u] = op[u] /\ pc'[u] = pc[u] /\ seen'[u] = seen[u] /\ todo'[u] = todo[u]
        /\ put'[u] = put[u] /\ lock'[u] = lock[u]
    BY <1>1, <1>2, <1>8 DEF Shape
  <2> QED BY <2>1, SameStaysC
<1> QED BY <1>7, <1>8

(* One that is over has nothing to answer for. *)
LEMMA EndKeepsC ==
  ASSUME Shape, NEW t \in Tx, End(t)
  PROVE  CTx(t)'
<1>1. op'[t].kind = "none" /\ pc'[t] = "done" /\ todo'[t] = {} /\ DOMAIN put'[t] = {}
  BY DEF End, Shape
<1> QED BY <1>1 DEF CTx, Serves, Touches, Sweeping, NewCode, Spends

-----------------------------------------------------------------------------
(* A commit.                                                               *)

(* One that cancels the library is of an offboarding, which has ended all  *)
(* there was and adds nothing.                                             *)
LEMMA CancelEnds ==
  ASSUME Shape, Typed(db), NEW t \in Tx, TxInv(t), CTx(t), Commit(t), db[Org] # "cancelled", db'[Org] = "cancelled"
  PROVE  /\ DOMAIN db' = DOMAIN db
         /\ \A name \in {"token", "inst", "code", "key"} : LiveIn(db', name) = {}
<1>1. Org \in DOMAIN db
  BY DEF Typed
<1>2. /\ DOMAIN db' = DOMAIN put[t] \cup DOMAIN db
      /\ \A r \in DOMAIN put[t] : db'[r] = put[t][r]
      /\ \A r \in DOMAIN db : r \notin DOMAIN put[t] => db'[r] = db[r]
  BY CommitRows
<1>3. op[t].kind = "offboard"
  BY <1>1, <1>2 DEF CTx, Touches
<1>4. pc[t] = "commit" /\ View(t) = db'
  BY DEF Commit
<1>5. todo[t] = {} /\ DOMAIN put[t] \subseteq DOMAIN db
  BY <1>3, <1>4 DEF TxInv, SweepInv
<1>6. Upto("key") = {"token", "inst", "code", "key"}
  BY DEF Upto
<1> QED BY <1>2, <1>3, <1>4, <1>5, <1>6 DEF CTx, Sweeping

(* Who adds a credential holds the library, or for a code its installation,*)
(* and the library is not cancelled; who adds an installation holds the    *)
(* library too.                                                            *)
LEMMA AddsWhileServed ==
  ASSUME Shape, Typed(db), NEW t \in Tx, TxInv(t), CTx(t), Commit(t), NEW r \in DOMAIN put[t], r \notin DOMAIN db
  PROVE  /\ r[1] \in {"token", "key"} => Holds(t, Org, {Share, Update}) /\ db[Org] # "cancelled"
         /\ r[1] = "inst" => <<Org, KeyShare>> \in lock[t] /\ put[t][r].status = "provisioning"
         /\ r[1] = "code" =>
              /\ op[t].kind = "generate" /\ <<op[t].row, Update>> \in lock[t] /\ db[Org] # "cancelled"
              /\ op[t].row \in DOMAIN db /\ op[t].row = Inst(op[t].row[2]) /\ db[op[t].row].status # "retired"
              /\ r = <<"code", New(t)>> /\ put[t][r].inst = op[t].row[2] /\ put[t][r].state = "unused"
              /\ LiveOf(db', "code", op[t].row[2]) \subseteq {r}
<1>1. pc[t] = "commit" /\ View(t) = db'
  BY DEF Commit
<1>2. r = <<r[1], New(t)>>
  <2>1. r \in Tables \X Nat /\ r[2] = New(t)
    BY CommitRows DEF Mine
  <2> QED BY <2>1
<1>3. ASSUME op[t].kind \in {"redeem", "issue", "grant", "recover"}
      PROVE  Holds(t, Org, {Share, Update}) /\ db[Org] # "cancelled"
  <2>1. CASE op[t].kind = "redeem"
    BY <1>1, <2>1 DEF TxInv, RedeemInv, CTx, Serves, Holds
  <2>2. CASE op[t].kind = "issue"
    BY <1>1, <2>2 DEF TxInv, SingleInv, CTx, Serves, Holds
  <2>3. CASE op[t].kind = "grant"
    BY <1>1, <2>3 DEF CTx, Serves, Holds
  <2>4. CASE op[t].kind = "recover"
    BY <1>1, <2>4 DEF TxInv, SweepInv, CTx, Serves, Holds
  <2> QED BY <1>3, <2>1, <2>2, <2>3, <2>4
<1>4. CASE r[1] = "token"
  <2>1. op[t].kind \in {"redeem", "grant", "recover"}
    BY <1>2, <1>4 DEF TxInv, NewToken
  <2> QED BY <1>3, <1>4, <2>1
<1>5. CASE r[1] = "key"
  <2>1. op[t].kind \in {"redeem", "issue"}
    BY <1>2, <1>5 DEF TxInv, NewKey
  <2> QED BY <1>3, <1>5, <2>1
<1>6. CASE r[1] = "inst"
  BY <1>6 DEF CTx, Touches
<1>7. CASE r[1] = "code"
  <2>1. /\ op[t].kind = "generate" /\ put[t][r].inst = op[t].row[2] /\ put[t][r].state = "unused"
        /\ LiveOf(db', "code", op[t].row[2]) \subseteq {r}
    BY <1>1, <1>2, <1>7 DEF CTx, NewCode
  <2>2. op[t].row \in DOMAIN db /\ op[t].row[1] = "inst"
    BY <2>1 DEF TxInv, OpOk, Table
  <2>3. op[t].row = Inst(op[t].row[2])
    BY <2>2, RowsArePairs
  <2>4. <<op[t].row, Update>> \in lock[t] /\ db[op[t].row].status # "retired" /\ db[Org] # "cancelled"
    BY <1>1, <2>1 DEF CTx, Serves
  <2> QED BY <1>2, <1>7, <2>1, <2>2, <2>3, <2>4
<1> QED BY <1>4, <1>5, <1>6, <1>7

(* What is live after a commit was live before it, or the commit adds it.  *)
LEMMA LiveBefore ==
  ASSUME NEW d, NEW e, NEW r, r \in DOMAIN d, Keeps(r, d[r], e[r]), r[1] \in {"token", "inst", "code", "key"}, Live(e, r)
  PROVE  Live(d, r) /\ (r[1] = "code" => e[r].inst = d[r].inst)
BY DEF Keeps, Live

(* Codes are spent once, still. *)
LEMMA CommitSpent ==
  ASSUME Shape, Typed(db), Spent(db), NEW t \in Tx, TxInv(t), CTx(t), Commit(t)
  PROVE  Spent(db)'
<1> DEFINE n == <<"token", New(t)>>
<1>1. /\ DOMAIN db' = DOMAIN put[t] \cup DOMAIN db
      /\ \A r \in DOMAIN put[t] : db'[r] = put[t][r] /\ Mine(t, r, put[t][r])
      /\ \A r \in DOMAIN db : r \notin DOMAIN put[t] => db'[r] = db[r]
      /\ \A r \in DOMAIN put[t] : r \notin DOMAIN db => r[2] = New(t)
      /\ \A r \in DOMAIN db : Keeps(r, db[r], db'[r])
  BY CommitRows
<1>2. \A r \in DOMAIN db' : r \in DOMAIN db \/ (r \in DOMAIN put[t] /\ r = <<r[1], New(t)>>)
  <2>1. \A r \in DOMAIN put[t] : r = <<r[1], r[2]>>
    BY <1>1 DEF Mine
  <2> QED BY <1>1, <2>1
<1>3. \A k \in Table(db', "token") : (k \in Table(db, "token") /\ db'[k].from = db[k].from) \/ (k = n /\ n \in DOMAIN put[t])
  BY <1>1, <1>2 DEF Table, Keeps
<1>4. \A k \in Table(db, "token") : k \in Table(db', "token") /\ db'[k].from = db[k].from
  BY <1>1 DEF Table, Keeps
<1>5. n \notin DOMAIN db
  BY DEF TxInv, Fresh, Commit
<1>6. n \in DOMAIN put[t] => n \in Table(db', "token") /\ db'[n] = put[t][n]
  BY <1>1 DEF Table
<1>7. n \in DOMAIN put[t] /\ put[t][n].from # 0 =>
        LET c == <<"code", put[t][n].from>> IN
        c \in DOMAIN db /\ c \in DOMAIN put[t] /\ put[t][c].state = "used" /\ db[c].state = "unused"
  BY DEF CTx, Spends
<1>8. \A c \in DOMAIN put[t] : c[1] = "code" /\ c \in DOMAIN db /\ put[t][c].state = "used" =>
        n \in DOMAIN put[t] /\ put[t][n].from = c[2] /\ db[c].state = "unused"
  BY DEF CTx, Spends
<1> HIDE DEF n
<1>9. ASSUME NEW k \in Table(db', "token")
      PROVE  db'[k].from = 0 \/ <<"code", db'[k].from>> \in DOMAIN db'
  <2>1. CASE k \in Table(db, "token") /\ db'[k].from = db[k].from
    BY <1>1, <2>1 DEF Spent
  <2>2. CASE k = n /\ n \in DOMAIN put[t]
    BY <1>1, <1>6, <1>7, <2>2
  <2> QED BY <1>3, <2>1, <2>2
<1>10. ASSUME NEW c \in Table(db', "code")
       PROVE  LET of == {k \in Table(db', "token") : db'[k].from = c[2]}
              IN IF db'[c].state = "used" THEN \E k \in of : of = {k} ELSE of = {}
  <2> DEFINE of == {k \in Table(db, "token") : db[k].from = c[2]}
             off == {k \in Table(db', "token") : db'[k].from = c[2]}
  <2>1. c \in DOMAIN db' /\ c[1] = "code" /\ c = <<"code", c[2]>> /\ c[2] # 0
    <3>1. Typed(db')
      BY CommitTyped
    <3>2. c \in DOMAIN db' /\ c[1] = "code"
      BY DEF Table
    <3> QED BY <3>1, <3>2, RowsArePairs
  <2>2. CASE n \in DOMAIN put[t] /\ put[t][n].from = c[2]
    <3>1. c \in DOMAIN db /\ c \in DOMAIN put[t] /\ put[t][c].state = "used" /\ db[c].state = "unused"
      BY <1>7, <2>1, <2>2
    <3>2. of = {}
      BY <2>1, <3>1 DEF Spent, Table
    <3>3. off = {n}
      BY <1>3, <1>6, <2>2, <3>2
    <3>4. db'[c].state = "used"
      BY <1>1, <3>1
    <3> QED BY <3>3, <3>4
  <2>3. CASE ~(n \in DOMAIN put[t] /\ put[t][n].from = c[2]) /\ c \in DOMAIN db
    <3>1. off = of
      BY <1>3, <1>4, <1>6, <2>3
    <3>2. db'[c].state = "used" <=> db[c].state = "used"
      <4>1. Keeps(c, db[c], db'[c])
        BY <1>1, <2>3
      <4>2. db'[c].state = "used" /\ db[c].state # "used" => c \in DOMAIN put[t] /\ put[t][c].state = "used"
        BY <1>1, <2>3
      <4> QED BY <1>8, <2>1, <2>3, <4>1, <4>2 DEF Keeps
    <3>3. IF db[c].state = "used" THEN \E k \in of : of = {k} ELSE of = {}
      BY <2>1, <2>3 DEF Spent, Table
    <3> HIDE DEF of, off
    <3>4. IF db'[c].state = "used" THEN \E k \in off : off = {k} ELSE off = {}
      BY <3>1, <3>2, <3>3
    <3> QED BY <3>4 DEF off
  <2>4. CASE c \notin DOMAIN db
    <3>1. c \in DOMAIN put[t]
      BY <1>1, <2>1, <2>4
    <3>2. op[t].kind = "generate" /\ put[t][c].state = "unused"
      BY <2>1, <2>4, <3>1, AddsWhileServed
    <3>3. \A r \in DOMAIN put[t] : r[1] = "code"
      BY <3>2 DEF TxInv, SweepInv
    <3>4. n \notin DOMAIN put[t]
      BY <3>3 DEF n
    <3>5. \A k \in Table(db, "token") : db[k].from # c[2]
      BY <2>1, <2>4 DEF Spent
    <3>6. off = {}
      BY <1>3, <3>4, <3>5
    <3>7. db'[c].state # "used"
      BY <1>1, <3>1, <3>2
    <3> QED BY <3>6, <3>7
  <2> QED BY <2>2, <2>3, <2>4
<1>11. ASSUME NEW j \in Table(db', "inst")
       PROVE  AtMostOne(LiveOf(db', "code", j[2]))
  <2> DEFINE i == j[2]
  <2>1. j \in DOMAIN db' /\ j = Inst(i)
    <3>1. Typed(db')
      BY CommitTyped
    <3>2. j \in DOMAIN db' /\ j[1] = "inst"
      BY DEF Table
    <3> QED BY <3>1, <3>2, RowsArePairs
  <2>2. \A e : LiveOf(e, "code", i) = {r \in DOMAIN e : r[1] = "code" /\ Live(e, r) /\ e[r].inst = i}
    BY DEF LiveOf, LiveIn, Table
  <2>3. CASE \E r \in LiveOf(db', "code", i) : r \notin DOMAIN db
    <3>1. PICK r \in LiveOf(db', "code", i) : r \notin DOMAIN db
      BY <2>3
    <3>2. r \in DOMAIN put[t] /\ r[1] = "code" /\ put[t][r].inst = i
      <4> HIDE DEF i
      <4> QED BY <1>1, <2>2, <3>1
    <3>3. LiveOf(db', "code", i) \subseteq {r}
      <4> HIDE DEF i
      <4> QED BY <3>1, <3>2, AddsWhileServed
    <3> HIDE DEF i
    <3>4. AtMostOne(LiveOf(db', "code", i))
      BY <3>3 DEF AtMostOne
    <3> QED BY <3>4 DEF i
  <2>4. CASE \A r \in LiveOf(db', "code", i) : r \in DOMAIN db
    <3> HIDE DEF i
    <3>1. LiveOf(db', "code", i) \subseteq LiveOf(db, "code", i)
      <4>1. ASSUME NEW r \in LiveOf(db', "code", i)
            PROVE  r \in LiveOf(db, "code", i)
        <5>1. r \in DOMAIN db /\ r[1] = "code" /\ Live(db', r) /\ db'[r].inst = i
          BY <2>2, <2>4, <4>1
        <5>2. Keeps(r, db[r], db'[r])
          BY <1>1, <5>1
        <5>3. Live(db, r) /\ db'[r].inst = db[r].inst
          BY <5>1, <5>2, LiveBefore
        <5> QED BY <2>2, <5>1, <5>3
      <4> QED BY <4>1
    <3>2. AtMostOne(LiveOf(db, "code", i))
      <4>1. CASE Inst(i) \in DOMAIN db
        <5>1. Inst(i) \in Table(db, "inst") /\ Inst(i)[2] = i
          BY <4>1 DEF Table, Inst
        <5> QED BY <5>1 DEF Spent
      <4>2. CASE Inst(i) \notin DOMAIN db
        <5>1. \A r \in DOMAIN db : Refers(db, r, db[r])
          BY DEF Typed
        <5>2. \A r \in LiveOf(db, "code", i) : FALSE
          BY <2>2, <4>2, <5>1 DEF Refers
        <5> QED BY <5>2 DEF AtMostOne
      <4> QED BY <4>1, <4>2
    <3>3. AtMostOne(LiveOf(db', "code", i))
      BY <3>1, <3>2 DEF AtMostOne
    <3> QED BY <3>3 DEF i
  <2> QED BY <2>3, <2>4
<1> QED BY <1>9, <1>10, <1>11 DEF Spent

(* A cancelled library has nothing alive, still. *)
LEMMA CommitClosed ==
  ASSUME Shape, Typed(db), Closed(db), NEW t \in Tx, TxInv(t), CTx(t), Commit(t)
  PROVE  Closed(db)'
<1>1. /\ DOMAIN db' = DOMAIN put[t] \cup DOMAIN db
      /\ \A r \in DOMAIN put[t] : db'[r] = put[t][r]
      /\ \A r \in DOMAIN db : r \notin DOMAIN put[t] => db'[r] = db[r]
      /\ \A r \in DOMAIN db : Keeps(r, db[r], db'[r])
  BY CommitRows
<1>2. \A r \in DOMAIN db' : Refers(db', r, db'[r])
  BY CommitTyped DEF Typed
<1>3. \A r \in DOMAIN db' : r \in DOMAIN db \/ (r \in DOMAIN put[t] /\ r \notin DOMAIN db)
  BY <1>1
<1> SUFFICES ASSUME db'[Org] = "cancelled"
             PROVE  /\ \A name \in {"code", "token", "key"} : LiveIn(db', name) = {}
                    /\ \A i \in Table(db', "inst") : db'[i].status \in {"retired", "provisioning"}
                    /\ \A k \in Table(db', "token") : db'[k].inst # 0 => db'[Inst(db'[k].inst)].status = "retired"
  BY DEF Closed
<1>4. CASE db[Org] # "cancelled"
  <2>1. /\ DOMAIN db' = DOMAIN db
        /\ \A name \in {"token", "inst", "code", "key"} : LiveIn(db', name) = {}
    BY <1>4, CancelEnds
  <2>2. \A i \in Table(db', "inst") : db'[i].status = "retired"
    BY <2>1 DEF LiveIn, Live, Table
  <2>3. \A k \in Table(db', "token") : db'[k].inst # 0 => Inst(db'[k].inst) \in Table(db', "inst")
    BY <1>2 DEF Refers, Table, Inst
  <2> QED BY <2>1, <2>2, <2>3
<1>5. CASE db[Org] = "cancelled"
  <2>1. \A r \in DOMAIN db' : r[1] \in {"token", "key", "code"} => r \in DOMAIN db
    BY <1>3, <1>5, AddsWhileServed
  <2>2. /\ \A name \in {"code", "token", "key"} : LiveIn(db, name) = {}
        /\ \A i \in Table(db, "inst") : db[i].status \in {"retired", "provisioning"}
        /\ \A k \in Table(db, "token") : db[k].inst # 0 => db[Inst(db[k].inst)].status = "retired"
    BY <1>5 DEF Closed
  <2>3. ASSUME NEW name \in {"code", "token", "key"}, NEW r \in LiveIn(db', name)
        PROVE  FALSE
    <3>1. r \in DOMAIN db /\ r[1] = name /\ Live(db', r)
      BY <2>1, <2>3 DEF LiveIn, Table
    <3>2. Keeps(r, db[r], db'[r])
      BY <1>1, <3>1
    <3>3. Live(db, r)
      BY <3>1, <3>2, LiveBefore
    <3>4. r \in LiveIn(db, name)
      BY <3>1, <3>3 DEF LiveIn, Table
    <3> QED BY <2>2, <3>4
  <2>4. ASSUME NEW i \in Table(db', "inst")
        PROVE  db'[i].status \in {"retired", "provisioning"}
    <3>1. i \in DOMAIN db' /\ i[1] = "inst"
      BY DEF Table
    <3>2. CASE i \in DOMAIN put[t]
      BY <1>1, <1>5, <3>1, <3>2 DEF CTx, Touches
    <3>3. CASE i \notin DOMAIN put[t]
      <4>1. i \in Table(db, "inst") /\ db'[i] = db[i]
        BY <1>1, <3>1, <3>3 DEF Table
      <4> QED BY <2>2, <4>1
    <3> QED BY <3>2, <3>3
  <2>5. ASSUME NEW k \in Table(db', "token"), db'[k].inst # 0
        PROVE  db'[Inst(db'[k].inst)].status = "retired"
    <3>1. k \in Table(db, "token") /\ k \in DOMAIN db /\ k[1] = "token"
      BY <2>1 DEF Table
    <3>2. db'[k].inst = db[k].inst
      BY <1>1, <3>1 DEF Keeps
    <3>3. db[Inst(db[k].inst)].status = "retired"
      BY <2>2, <2>5, <3>1, <3>2
    <3>4. Inst(db[k].inst) \in DOMAIN db
      <4>1. Refers(db, k, db[k])
        BY <3>1 DEF Typed
      <4> QED BY <2>5, <3>1, <3>2, <4>1 DEF Refers
    <3> QED BY <1>1, <3>2, <3>3, <3>4 DEF Keeps, Inst
  <2> QED BY <2>3, <2>4, <2>5
<1> QED BY <1>4, <1>5

(* The codes of an installation that another transaction holds are no more *)
(* than they were.                                                         *)
LEMMA NoNewCodes ==
  ASSUME Shape, Exclusion, Typed(db), NEW t \in Tx, TxInv(t), CTx(t), Commit(t),
         NEW u \in Tx, u # t, put'[u] = put[u], NEW i, <<Inst(i), Update>> \in lock[u]
  PROVE  LiveOf(View(u)', "code", i) \subseteq LiveOf(View(u), "code", i)
<1>1. /\ DOMAIN db' = DOMAIN put[t] \cup DOMAIN db
      /\ \A r \in DOMAIN put[t] : db'[r] = put[t][r]
      /\ \A r \in DOMAIN db : Keeps(r, db[r], db'[r])
  BY CommitRows
<1>2. \A e : LiveOf(e, "code", i) = {r \in DOMAIN e : r[1] = "code" /\ Live(e, r) /\ e[r].inst = i}
  BY DEF LiveOf, LiveIn, Table
<1>3. View(u)' = Over(put[u], db') /\ View(u) = Over(put[u], db)
  BY DEF View
<1>4. /\ DOMAIN View(u)' = DOMAIN put[u] \cup DOMAIN db' /\ DOMAIN View(u) = DOMAIN put[u] \cup DOMAIN db
      /\ \A r \in DOMAIN put[u] : View(u)'[r] = put[u][r] /\ View(u)[r] = put[u][r]
      /\ \A r \in DOMAIN db' : r \notin DOMAIN put[u] => View(u)'[r] = db'[r]
      /\ \A r \in DOMAIN db : r \notin DOMAIN put[u] => View(u)[r] = db[r]
  BY ONLY <1>3 DEF Over
<1>5. ASSUME NEW r \in DOMAIN View(u)', r[1] = "code", Live(View(u)', r), View(u)'[r].inst = i
      PROVE  r \in DOMAIN View(u) /\ Live(View(u), r) /\ View(u)[r].inst = i
  <2>1. CASE r \in DOMAIN put[u]
    BY <1>4, <1>5, <2>1 DEF Live
  <2>2. CASE r \notin DOMAIN put[u] /\ r \in DOMAIN db
    <3>1. View(u)'[r] = db'[r] /\ View(u)[r] = db[r] /\ Keeps(r, db[r], db'[r])
      BY <1>1, <1>4, <2>2
    <3> QED BY <1>4, <1>5, <2>2, <3>1 DEF Live, Keeps
  <2>3. CASE r \notin DOMAIN put[u] /\ r \notin DOMAIN db
    <3>1. r \in DOMAIN put[t] /\ put[t][r].inst = i
      BY <1>1, <1>4, <1>5, <2>3
    <3>2. <<op[t].row, Update>> \in lock[t] /\ op[t].row = Inst(op[t].row[2]) /\ put[t][r].inst = op[t].row[2]
      <4>1. r \in DOMAIN put[t] /\ r \notin DOMAIN db /\ r[1] = "code"
        BY <1>5, <2>3, <3>1
      <4> QED BY <4>1, AddsWhileServed
    <3>3. <<Inst(i), Update>> \in lock[t]
      BY <3>1, <3>2
    <3>4. ~(Update + Update > 4)
      BY <3>3, ExclusiveRow
    <3> QED BY <3>4 DEF Update
  <2> QED BY <2>1, <2>2, <2>3
<1> QED BY <1>2, <1>5

(* A commit keeps the invariants of the other transactions. *)
LEMMA CommitOthersC ==
  ASSUME Shape, Exclusion, Typed(db), Closed(db), NEW t \in Tx, TxInv(t), CTx(t), Commit(t),
         NEW u \in Tx, u # t, TxInv(u), CTx(u), Respects(u),
         op'[u] = op[u], pc'[u] = pc[u], seen'[u] = seen[u], todo'[u] = todo[u], put'[u] = put[u], lock'[u] = lock[u]
  PROVE  CTx(u)'
<1>1. /\ op'[u] = op[u] /\ pc'[u] = pc[u] /\ seen'[u] = seen[u] /\ todo'[u] = todo[u]
      /\ put'[u] = put[u] /\ lock'[u] = lock[u] /\ New(u)' = New(u)
  BY DEF New
<1>2. /\ DOMAIN db' = DOMAIN put[t] \cup DOMAIN db
      /\ \A r \in DOMAIN put[t] : db'[r] = put[t][r]
      /\ \A r \in DOMAIN db : r \notin DOMAIN put[t] => db'[r] = db[r]
      /\ \A r \in DOMAIN put[t] : r \in DOMAIN db => Holds(t, r, Exclusive)
      /\ \A r \in DOMAIN db : Keeps(r, db[r], db'[r])
  BY CommitRows
<1>3. /\ \A r \in DOMAIN db : Holds(u, r, Exclusive) => db'[r] = db[r]
      /\ \A r \in DOMAIN db' : r \notin DOMAIN db => r[2] # New(u)
  BY DEF Respects
<1>4. \A r \in DOMAIN put[u] : r \in DOMAIN db => Holds(u, r, Exclusive)
  <2>1. \A r \in DOMAIN put[u] : pc[u] # "done"
    BY DEF Shape, Running
  <2> QED BY <2>1 DEF TxInv, Written, Mine, Fresh
<1>5. \A r \in DOMAIN put[u] : r \notin DOMAIN db => r \notin DOMAIN db'
  BY <1>3 DEF TxInv, Written, Mine
<1>6. Org \in DOMAIN db /\ Org[1] = "org"
  BY DEF Typed, Org
<1>locks. \A r : Holds(t, r, Exclusive) => ~Holds(u, r, {Share, NoKeyUpdate, Update})
  BY ExclusiveRow DEF Holds, Exclusive, Share, NoKeyUpdate, Update
<1>7. ASSUME Holds(u, Org, {Share, Update}), db[Org] # "cancelled"
      PROVE  db'[Org] # "cancelled"
  <2>1. Org \notin DOMAIN put[t]
    BY <1>2, <1>6, <1>7, <1>locks DEF Holds
  <2> QED BY <1>2, <1>6, <1>7, <2>1
<1>8. ASSUME NEW r \in DOMAIN db, r[1] = "inst", db[r].status # "retired", Holds(u, r, Exclusive), db[Org] # "cancelled"
      PROVE  db'[r] = db[r] /\ db'[Org] # "cancelled"
  <2>1. db'[r] = db[r] /\ r \in DOMAIN db'
    BY <1>2, <1>3, <1>8
  <2>2. r \in LiveIn(db', "inst")
    BY <1>8, <2>1 DEF LiveIn, Table, Live
  <2> QED BY <1>8, <2>1, <2>2, CancelEnds
<1>9. Serves(u)'
  <2>1. op[u].kind = "redeem" /\ pc[u] \in {"branch", "token", "key", "commit"} => db'[Org] # "cancelled"
    BY <1>7 DEF TxInv, RedeemInv, CTx, Serves, Holds
  <2>2. op[u].kind = "grant" /\ pc[u] \in {"branch", "commit"} => <<Org, Share>> \in lock[u] /\ db'[Org] # "cancelled"
    BY <1>7 DEF CTx, Serves, Holds
  <2>3. op[u].kind = "recover" /\ pc[u] # "org" => db'[Org] # "cancelled"
    BY <1>7 DEF TxInv, SweepInv, CTx, Serves, Holds
  <2>4. op[u].kind = "issue" /\ pc[u] = "commit" => db'[Org] # "cancelled"
    BY <1>7 DEF TxInv, SingleInv, CTx, Serves, Holds
  <2>5. op[u].kind = "generate" /\ pc[u] \in {"sweep", "commit"} =>
          <<op[u].row, Update>> \in lock[u] /\ db'[op[u].row].status # "retired" /\ db'[Org] # "cancelled"
    <3>1. op[u].kind = "generate" => op[u].row \in DOMAIN db /\ op[u].row[1] = "inst"
      BY DEF TxInv, OpOk, Table
    <3> QED BY <1>8, <3>1 DEF CTx, Serves, Holds, Exclusive
  <2> QED BY <1>1, <2>1, <2>2, <2>3, <2>4, <2>5 DEF Serves
<1>10. Touches(u)'
  <2>1. ASSUME NEW r \in DOMAIN put[u], r[1] = "inst"
        PROVE  IF r \in DOMAIN db' THEN put[u][r].status = "retired" \/ (db'[r].status # "retired" /\ db'[Org] # "cancelled")
               ELSE <<Org, KeyShare>> \in lock[u] /\ put[u][r].status = "provisioning"
    <3>1. CASE r \in DOMAIN db
      <4>1. put[u][r].status = "retired" \/ (db[r].status # "retired" /\ db[Org] # "cancelled")
        BY <2>1, <3>1 DEF CTx, Touches
      <4> QED BY <1>2, <1>4, <1>8, <2>1, <3>1, <4>1
    <3>2. CASE r \notin DOMAIN db
      <4>1. <<Org, KeyShare>> \in lock[u] /\ put[u][r].status = "provisioning"
        BY <2>1, <3>2 DEF CTx, Touches
      <4> QED BY <1>5, <3>2, <4>1
    <3> QED BY <3>1, <3>2
  <2> QED BY <1>1, <2>1 DEF CTx, Touches
<1>11. Spends(u)'
  <2> DEFINE n == <<"token", New(u)>>
  <2>1. ASSUME NEW c \in DOMAIN put[u], c \in DOMAIN db'
        PROVE  c \in DOMAIN db /\ db'[c] = db[c]
    BY <1>3, <1>4, <1>5, <2>1
  <2>2. \A c \in DOMAIN put[u] : c[1] = "code" /\ c \in DOMAIN db' /\ put[u][c].state = "used" =>
          n \in DOMAIN put[u] /\ put[u][n].from = c[2] /\ db'[c].state = "unused"
    BY <2>1 DEF CTx, Spends
  <2>3. n \in DOMAIN put[u] /\ put[u][n].from # 0 =>
          LET c == <<"code", put[u][n].from>> IN
          c \in DOMAIN db' /\ c \in DOMAIN put[u] /\ put[u][c].state = "used" /\ db'[c].state = "unused"
    BY <1>2, <2>1 DEF CTx, Spends
  <2> QED BY <1>1, <2>2, <2>3 DEF Spends
<1>12. NewCode(u)'
  <2> DEFINE i == op[u].row[2]
             c == <<"code", New(u)>>
  <2>1. ASSUME op[u].kind = "generate", pc[u] \in {"sweep", "commit"}
        PROVE  LiveOf(View(u)', "code", i) \subseteq LiveOf(View(u), "code", i)
    <3>1. op[u].row \in DOMAIN db /\ op[u].row[1] = "inst"
      BY <2>1 DEF TxInv, OpOk, Table
    <3>2. <<Inst(i), Update>> \in lock[u]
      BY <2>1, <3>1, RowsArePairs DEF CTx, Serves
    <3> QED BY <3>2, NoNewCodes
  <2>2. op[u].kind = "generate" /\ pc[u] = "hold" => DOMAIN put[u] = {}
    BY DEF CTx, NewCode
  <2>3. op[u].kind = "generate" /\ pc[u] = "sweep" =>
          LiveOf(View(u)', "code", i) \subseteq todo[u] /\ DOMAIN put[u] \subseteq DOMAIN db'
    BY <1>2, <2>1 DEF CTx, NewCode
  <2>4. c \in DOMAIN put[u] =>
          /\ op[u].kind = "generate" /\ pc[u] = "commit" /\ put[u][c].inst = i /\ put[u][c].state = "unused"
          /\ LiveOf(View(u)', "code", i) \subseteq {c}
    BY <2>1 DEF CTx, NewCode
  <2> QED BY <1>1, <2>2, <2>3, <2>4 DEF NewCode
<1>13. Sweeping(u)'
  <2> SUFFICES ASSUME op[u].kind = "offboard" PROVE Sweeping(u)'
    BY <1>1 DEF Sweeping
  <2> DEFINE stage == IF pc[u] = "commit" THEN "key" ELSE seen[u]
  <2>1. /\ pc[u] \in {"org", "sweep", "commit"} /\ (pc[u] = "org" => DOMAIN put[u] = {})
        /\ pc[u] = "sweep" => \A r \in todo[u] : r[1] = seen[u]
        /\ pc[u] # "org" => \A name \in Upto(stage) : LiveIn(View(u), name) \subseteq todo[u]
    BY DEF CTx, Sweeping
  <2>2. ASSUME pc[u] # "org", NEW name \in Upto(stage)
        PROVE  LiveIn(View(u)', name) \subseteq LiveIn(View(u), name)
    <3>1. <<Org, Update>> \in lock[u] /\ (pc[u] = "sweep" => seen[u] \in {"token", "inst", "code", "key"})
          /\ (pc[u] = "commit" => todo[u] = {})
      BY <2>2 DEF TxInv, SweepInv
    <3>2. stage \in {"token", "inst", "code", "key"}
      BY <2>1, <2>2, <3>1
    <3>3. name \in {"token", "inst", "code", "key"} /\ (name = "code" => stage \in {"code", "key"} /\ "inst" \in Upto(stage))
      <4> HIDE DEF stage
      <4> QED BY <2>2, <3>2 DEF Upto
    <3>4. stage \in {"code", "key"} => LiveIn(View(u), "inst") = {}
      <4>1. \A r \in LiveIn(View(u), "inst") : r[1] = "inst"
        BY DEF LiveIn, Table
      <4>2. stage \in {"code", "key"} => "inst" \in Upto(stage)
        <5> HIDE DEF stage
        <5> QED BY DEF Upto
      <4>3. stage \in {"code", "key"} => LiveIn(View(u), "inst") \subseteq todo[u]
        <5> HIDE DEF stage
        <5> QED BY <2>1, <2>2, <4>2
      <4>4. stage \in {"code", "key"} => \A r \in todo[u] : r[1] # "inst"
        BY <2>1, <2>2, <3>1
      <4> QED BY <4>1, <4>3, <4>4
    <3>5. View(u)' = Over(put[u], db') /\ View(u) = Over(put[u], db)
      BY <1>1 DEF View
    <3>6. /\ DOMAIN View(u)' = DOMAIN put[u] \cup DOMAIN db' /\ DOMAIN View(u) = DOMAIN put[u] \cup DOMAIN db
          /\ \A r \in DOMAIN put[u] : View(u)'[r] = put[u][r] /\ View(u)[r] = put[u][r]
          /\ \A r \in DOMAIN db' : r \notin DOMAIN put[u] => View(u)'[r] = db'[r]
          /\ \A r \in DOMAIN db : r \notin DOMAIN put[u] => View(u)[r] = db[r]
      BY ONLY <3>5 DEF Over
    <3>7. ASSUME NEW r \in DOMAIN View(u)', r[1] = name, Live(View(u)', r)
          PROVE  r \in DOMAIN View(u) /\ Live(View(u), r)
      <4>1. CASE r \in DOMAIN put[u]
        BY <3>6, <3>7, <4>1 DEF Live
      <4>2. CASE r \notin DOMAIN put[u] /\ r \in DOMAIN db
        <5>1. View(u)'[r] = db'[r] /\ View(u)[r] = db[r] /\ Keeps(r, db[r], db'[r])
          BY <1>2, <3>6, <4>2
        <5> QED BY <3>3, <3>6, <3>7, <4>2, <5>1 DEF Live, Keeps
      <4>3. CASE r \notin DOMAIN put[u] /\ r \notin DOMAIN db
        <5>1. r \in DOMAIN put[t]
          BY <1>2, <3>6, <4>3
        <5>2. CASE name \in {"token", "key"}
          <6>1. Holds(t, Org, {Share, Update})
            BY <3>7, <4>3, <5>1, <5>2, AddsWhileServed
          <6> QED BY <3>1, <6>1, ExclusiveRow DEF Holds, Share, Update
        <5>3. CASE name = "inst"
          <6>1. <<Org, KeyShare>> \in lock[t]
            BY <3>7, <4>3, <5>1, <5>3, AddsWhileServed
          <6> QED BY <3>1, <6>1, ExclusiveRow DEF KeyShare, Update
        <5>4. CASE name = "code"
          <6> DEFINE i == op[t].row
          <6>1. <<i, Update>> \in lock[t] /\ i \in DOMAIN db /\ i = Inst(i[2]) /\ db[i].status # "retired"
            BY <3>7, <4>3, <5>1, <5>4, AddsWhileServed
          <6>2. i \notin LiveIn(View(u), "inst") /\ i \in DOMAIN View(u) /\ i[1] = "inst"
            BY <3>3, <3>4, <3>6, <5>4, <6>1 DEF Inst
          <6> HIDE DEF i
          <6>3. View(u)[i].status = "retired"
            BY <6>2 DEF LiveIn, Table, Live
          <6>4. i \in DOMAIN put[u]
            BY <3>6, <6>1, <6>3
          <6>5. Holds(t, i, Exclusive) /\ Holds(u, i, {Share, NoKeyUpdate, Update})
            BY <1>4, <6>1, <6>4 DEF Holds, Exclusive
          <6> QED BY <1>locks, <6>5
        <5> QED BY <3>3, <5>2, <5>3, <5>4
      <4> QED BY <3>6, <4>1, <4>2, <4>3
    <3> QED BY <3>7 DEF LiveIn, Table
  <2>3. pc[u] # "org" => \A name \in Upto(stage) : LiveIn(View(u)', name) \subseteq todo[u]
    <3> HIDE DEF stage
    <3> QED BY <2>1, <2>2
  <2> QED BY <1>1, <2>1, <2>3 DEF Sweeping
<1> QED BY <1>9, <1>10, <1>11, <1>12, <1>13 DEF CTx

-----------------------------------------------------------------------------
(* The invariant holds always.                                             *)

(* Any step keeps it. *)
LEMMA NextCInv ==
  ASSUME IInv, CInv, [Next]_vars
  PROVE  CInv'
<1> USE DEF CInv
<1>1. /\ Shape /\ Exclusion /\ Typed(db) /\ Kept(db) /\ \A u \in Tx : TxInv(u)
  BY DEF IInv
<1>2. ASSUME NEW t \in Tx, Begin(t)
      PROVE  CInv'
  <2>1. db' = db /\ \A u \in Tx : CTx(u)'
    BY <1>1, <1>2, BeginKeepsC DEF Begin
  <2> QED BY <2>1
<1>3. ASSUME NEW t \in Tx, Step(t)
      PROVE  CInv'
  <2>1. Statement(t, Wants(t))
    BY <1>1, <1>3, StepIsStatement
  <2>2. db' = db /\ \A u \in Tx \ {t} : CTx(u)'
    BY <1>1, <2>1, StatementFrame, SameStaysC
  <2>3. CTx(t)'
    BY <1>1, <1>3, StepKeepsC
  <2> QED BY <2>2, <2>3
<1>4. ASSUME NEW t \in Tx, Commit(t) \/ Fail(t)
      PROVE  CInv'
  <2>1. End(t)
    BY <1>4 DEF Commit, Fail
  <2>2. CTx(t)'
    BY <1>1, <2>1, EndKeepsC
  <2>3. \A u \in Tx \ {t} : /\ op'[u] = op[u] /\ pc'[u] = pc[u] /\ seen'[u] = seen[u] /\ todo'[u] = todo[u]
                            /\ put'[u] = put[u] /\ lock'[u] = lock[u]
    BY <1>1, <2>1 DEF End, Shape
  <2>4. CASE Fail(t)
    <3>1. db' = db
      BY <2>4 DEF Fail
    <3>2. \A u \in Tx \ {t} : CTx(u)'
      BY <2>3, <3>1, SameStaysC
    <3> QED BY <2>2, <3>1, <3>2
  <2>5. CASE Commit(t)
    <3>1. Spent(db)' /\ Closed(db)'
      BY <1>1, <2>5, CommitSpent, CommitClosed
    <3>2. ASSUME NEW u \in Tx, u # t
          PROVE  CTx(u)'
      <4>1. Respects(u)
        BY <1>1, <2>5, <3>2, CommitRespects
      <4> QED BY <1>1, <2>3, <2>5, <3>2, <4>1, CommitOthersC
    <3> QED BY <2>2, <3>1, <3>2
  <2> QED BY <1>4, <2>4, <2>5
<1>5. CASE UNCHANGED vars
  <2>1. /\ db' = db /\ op' = op /\ pc' = pc /\ seen' = seen /\ todo' = todo /\ put' = put /\ lock' = lock
    BY <1>5 DEF vars
  <2>2. \A u \in Tx : CTx(u)'
    BY <2>1, SameStaysC
  <2> QED BY <2>1, <2>2
<1> QED BY <1>2, <1>3, <1>4, <1>5 DEF Next

(* What is true of codes, installations and the library between any two    *)
(* steps, with the invariant above.                                        *)
THEOREM CredentialsHold == Spec => []CInv
<1>1. ASSUME Init
      PROVE  CInv
  <2>1. Begun(Pasts, 0)
    BY <1>1 DEF Init, Idle
  <2>2. Shape
    BY <2>1, BegunExcludes
  <2>3. Spent(db) /\ Closed(db)
    BY <2>1, EnrollmentAssumption DEF Begun
  <2>4. ASSUME NEW t \in Tx
        PROVE  CTx(t)
    <3>1. op[t].kind = "none" /\ DOMAIN put[t] = {}
      BY <2>1, <2>2 DEF Begun, Shape, Running
    <3> QED BY <3>1 DEF CTx, Serves, Touches, Sweeping, NewCode, Spends
  <2> QED BY <2>3, <2>4 DEF CInv
<1>2. IInv /\ CInv /\ [Next]_vars => CInv'
  BY NextCInv
<1> QED BY <1>1, <1>2, InvariantHolds, PTL DEF Spec

(* A code is used exactly if a token was issued for it, and then one; an   *)
(* installation has at most one unused code.                               *)
THEOREM CodeIsSpentOnceAlways == Spec => []CodeIsSpentOnce
<1>1. ASSUME Spent(db)
      PROVE  CodeIsSpentOnce
  <2>1. ASSUME NEW c \in Table(db, "code")
        PROVE  LET of == {k \in Table(db, "token") : db[k].from = c[2]}
               IN Cardinality(of) = IF db[c].state = "used" THEN 1 ELSE 0
    <3> DEFINE of == {k \in Table(db, "token") : db[k].from = c[2]}
    <3>1. IF db[c].state = "used" THEN \E k \in of : of = {k} ELSE of = {}
      BY <1>1 DEF Spent
    <3> HIDE DEF of
    <3>2. CASE db[c].state = "used"
      <4>1. PICK k \in of : of = {k}
        BY <3>1, <3>2
      <4>2. Cardinality(of) = 1
        BY <4>1, FS_Singleton
      <4> QED BY <3>2, <4>2 DEF of
    <3>3. CASE db[c].state # "used"
      <4>1. Cardinality(of) = 0
        BY <3>1, <3>3, FS_EmptySet
      <4> QED BY <3>3, <4>1 DEF of
    <3> QED BY <3>2, <3>3
  <2> QED BY <1>1, <2>1 DEF CodeIsSpentOnce, Spent
<1> QED BY <1>1, CredentialsHold, PTL DEF CInv

(* Offboarding leaves no credential alive, not even one that another       *)
(* transaction was issuing while it swept.                                 *)
THEOREM NothingLiveWhenCancelledAlways == Spec => []NothingLiveWhenCancelled
<1>1. CInv => NothingLiveWhenCancelled
  BY DEF CInv, Closed, NothingLiveWhenCancelled
<1> QED BY <1>1, CredentialsHold, PTL
-----------------------------------------------------------------------------
(* The third layer: where a transaction has its locks.                     *)

(* Where a lock on a row of each table may be held, and in which mode: the *)
(* rows of a sweep are taken in the order of their ids.                    *)
Passed(t, r) == \A s \in todo[t] : r[2] < s[2]
LockAt(t, h) ==
  LET r == h[1] IN
  /\ pc[t] \notin {"org", "place", "touch"}
  /\ r[1] = "branch" =>
       \/ pc[t] \in {"token", "key", "commit"}
       \/ pc[t] = "row" /\ op[t].kind = "status"
       \/ pc[t] = "ready" /\ h[2] = KeyShare
  /\ r[1] = "inst" =>
       \/ pc[t] = "commit"
       \/ pc[t] = "key" /\ h[2] # Update
       \/ pc[t] = "sweep" /\ op[t].kind = "generate" /\ r = op[t].row
       \/ /\ pc[t] = "sweep" /\ op[t].kind = "offboard" /\ seen[t] \in {"inst", "code", "key"} /\ h[2] # Update
          /\ seen[t] = "inst" => Passed(t, r)
  /\ r[1] = "code" =>
       \/ pc[t] = "commit"
       \/ op[t].kind = "redeem" /\ pc[t] \in {"scope", "branch", "token", "key"} /\ r = op[t].row
       \/ pc[t] = "sweep" /\ op[t].kind = "generate" /\ Passed(t, r)
       \/ pc[t] = "sweep" /\ op[t].kind = "offboard" /\ seen[t] \in {"code", "key"} /\ (seen[t] = "code" => Passed(t, r))
  /\ r[1] = "token" =>
       \/ pc[t] \in {"beat", "contact", "events", "ready", "commit"}
       \/ pc[t] \in {"sweep", "hold"} /\ op[t].kind = "recover"
       \/ pc[t] = "sweep" /\ op[t].kind = "offboard"
  /\ r[1] = "key" =>
       \/ pc[t] = "commit"
       \/ pc[t] = "contact" /\ op[t].kind = "status_v2"
       \/ pc[t] = "sweep" /\ op[t].kind = "offboard" /\ seen[t] = "key"
LockInv(t) == \A h \in lock[t] : LockAt(t, h)

(* Whose statements are where, what it has locked for certain, and what a  *)
(* sweep over codes is about.                                              *)
PlaceInv(t) ==
  /\ pc[t] \in {"code", "scope", "token", "key"} => op[t].kind = "redeem"
  /\ pc[t] = "sweep" => op[t].kind \in {"generate", "recover", "offboard"}
  /\ pc[t] = "hold" => op[t].kind \in {"generate", "recover"}
  /\ pc[t] = "row" => op[t].kind \in {"status", "revoke", "retire"}
  /\ pc[t] = "beat" => op[t].kind = "status_v2"
  /\ pc[t] = "contact" => op[t].kind \in {"status_v1", "status_v2"}
  /\ op[t].kind = "status_v2" /\ pc[t] \in {"beat", "contact"} => <<op[t].row, NoKeyUpdate>> \in lock[t]
  /\ pc[t] = "key" => <<Inst(InstOf(t)), KeyShare>> \in lock[t]
  /\ op[t].kind = "generate" => \A c \in todo[t] : db[c].inst = op[t].row[2]

WInv == \A t \in Tx : LockInv(t) /\ PlaceInv(t)

(* The tables of the rows that are named. *)
LEMMA RowTables ==
  Org[1] = "org" /\ Branch[1] = "branch" /\ \A i : Inst(i)[1] = "inst" /\ Inst(i)[2] = i
BY DEF Org, Branch, Inst

(* The table of the row that a transaction is about. *)
LEMMA OpTables ==
  ASSUME NEW t \in Tx, TxInv(t)
  PROVE  /\ op[t].kind = "redeem" => op[t].row[1] = "code"
         /\ op[t].kind \in {"generate", "recover", "status"} => op[t].row[1] = "inst"
         /\ op[t].kind \in {"revoke", "status_v1", "status_v2", "upload"} => op[t].row[1] = "token"
         /\ op[t].kind = "retire" => op[t].row[1] = "key"
         /\ op[t].kind = "status_v2" => op[t].arg[1] = "key"
BY DEF TxInv, OpOk, Table

(* A statement adds the locks that it wanted, at its next place. *)
LEMMA LocksAt ==
  ASSUME NEW t \in Tx, lock'[t] = lock[t] \cup Wants(t),
         \A h \in lock[t] : LockAt(t, h)', \A h \in Wants(t) : LockAt(t, h)'
  PROVE  LockInv(t)'
BY DEF LockInv

-----------------------------------------------------------------------------
(* The statements of a transaction.                                        *)

(* Redemptions. *)
LEMMA RedeemLocks ==
  ASSUME IInv, NEW t \in Tx, LockInv(t), PlaceInv(t),
         RedeemOrg(t) \/ RedeemCode(t) \/ RedeemScope(t) \/ RedeemBranch(t) \/ RedeemToken(t) \/ RedeemKey(t)
  PROVE  LockInv(t)' /\ PlaceInv(t)'
<1>1. Shape /\ TxInv(t) /\ op[t].row[1] = "code"
  <2>1. op[t].kind = "redeem"
    BY DEF RedeemOrg, RedeemCode, RedeemScope, RedeemBranch, RedeemToken, RedeemKey, At
  <2> QED BY <2>1, OpTables DEF IInv
<1>2. /\ op[t].kind = "redeem" /\ db' = db /\ op'[t] = op[t] /\ seen'[t] = seen[t] /\ todo'[t] = todo[t]
      /\ lock'[t] = lock[t] \cup Wants(t)
      /\ \/ pc[t] = "org" /\ pc'[t] = "code"
         \/ pc[t] = "code" /\ pc'[t] = "scope"
         \/ pc[t] = "scope" /\ pc'[t] \in {"branch", "token"}
         \/ pc[t] = "branch" /\ pc'[t] = "token"
         \/ pc[t] = "token" /\ pc'[t] \in {"key", "commit"}
         \/ pc[t] = "key" /\ pc'[t] = "commit"
  <2>1. CASE RedeemOrg(t)
    BY <1>1, <2>1, GoDoes DEF RedeemOrg
  <2>2. CASE RedeemCode(t)
    BY <1>1, <2>2, GoDoes DEF RedeemCode
  <2>3. CASE RedeemScope(t)
    <3> DEFINE next == IF db[op[t].row].contract = 2 THEN "branch" ELSE "token"
    <3>1. At(t, "redeem", "scope") /\ Go(t, next, <<>>)
      BY <2>3 DEF RedeemScope
    <3>2. next \in {"branch", "token"}
      OBVIOUS
    <3> HIDE DEF next
    <3> QED BY <1>1, <3>1, <3>2, GoDoes
  <2>4. CASE RedeemBranch(t)
    BY <1>1, <2>4, GoDoes DEF RedeemBranch
  <2>5. CASE RedeemToken(t)
    <3> DEFINE next == IF db[op[t].row].contract = 2 THEN "key" ELSE "commit"
    <3>1. At(t, "redeem", "token") /\ \E w : Go(t, next, w)
      BY <2>5 DEF RedeemToken
    <3>2. next \in {"key", "commit"}
      OBVIOUS
    <3> HIDE DEF next
    <3> QED BY <1>1, <3>1, <3>2, GoDoes
  <2>6. CASE RedeemKey(t)
    BY <1>1, <2>6, GoDoes DEF RedeemKey
  <2> QED BY <2>1, <2>2, <2>3, <2>4, <2>5, <2>6
<1>3. InstOf(t)' = InstOf(t)
  BY <1>2 DEF InstOf
<1>4. \A h \in lock[t] : LockAt(t, h)'
  BY <1>2 DEF LockInv, LockAt, Passed
<1>5. \A h \in Wants(t) : LockAt(t, h)'
  BY <1>1, <1>2, RowTables DEF LockAt, Wants, KeyShare, Update
<1>6. PlaceInv(t)'
  <2>1. pc'[t] = "key" => <<Inst(InstOf(t)), KeyShare>> \in lock'[t]
    BY <1>2 DEF Wants
  <2> QED BY <1>2, <1>3, <2>1 DEF PlaceInv
<1> QED BY <1>2, <1>4, <1>5, <1>6, LocksAt

(* Those that write one row at the end, but for cutovers. *)
LEMMA SingleLocks ==
  ASSUME IInv, NEW t \in Tx, LockInv(t), PlaceInv(t),
         \/ SetLibrary(t) \/ StatusBranch(t) \/ StatusRow(t) \/ CreatePlace(t) \/ RevokeOrg(t) \/ RevokeRow(t)
         \/ GrantOrg(t) \/ GrantBranch(t) \/ IssueOrg(t) \/ IssueBranch(t) \/ RetireRow(t) \/ CutoverInsert(t)
  PROVE  LockInv(t)' /\ PlaceInv(t)'
<1>1. Shape /\ TxInv(t)
  BY DEF IInv
<1>2. /\ op[t].kind \in {"library", "status", "create", "revoke", "grant", "issue", "retire", "cutover"}
      /\ db' = db /\ op'[t] = op[t] /\ seen'[t] = seen[t] /\ todo'[t] = todo[t]
      /\ lock'[t] = lock[t] \cup Wants(t)
      /\ \/ pc[t] = "org" /\ op[t].kind \in {"grant", "issue"} /\ pc'[t] = "branch"
         \/ pc[t] = "org" /\ op[t].kind = "revoke" /\ pc'[t] = "row"
         \/ pc[t] = "branch" /\ op[t].kind = "status" /\ pc'[t] = "row"
         \/ pc[t] \in {"org", "place", "branch", "row", "events"} /\ pc'[t] = "commit"
  <2>1. CASE SetLibrary(t) \/ CreatePlace(t) \/ CutoverInsert(t)
    BY <1>1, <2>1, GoDoes DEF SetLibrary, CreatePlace, CutoverInsert
  <2>2. CASE StatusBranch(t) \/ StatusRow(t)
    BY <1>1, <2>2, GoDoes DEF StatusBranch, StatusRow
  <2>3. CASE RevokeOrg(t) \/ RevokeRow(t) \/ RetireRow(t)
    BY <1>1, <2>3, GoDoes DEF RevokeOrg, RevokeRow, RetireRow
  <2>4. CASE GrantOrg(t) \/ GrantBranch(t)
    BY <1>1, <2>4, GoDoes DEF GrantOrg, GrantBranch
  <2>5. CASE IssueOrg(t) \/ IssueBranch(t)
    BY <1>1, <2>5, GoDoes DEF IssueOrg, IssueBranch
  <2> QED BY <2>1, <2>2, <2>3, <2>4, <2>5
<1>3. \A h \in lock[t] : LockAt(t, h)'
  BY <1>2 DEF LockInv, LockAt, Passed
<1>4. \A h \in Wants(t) : LockAt(t, h)'
  <2>1. CASE pc'[t] = "commit"
    BY <2>1 DEF LockAt
  <2>2. CASE pc'[t] # "commit"
    BY <1>2, <2>2, RowTables DEF LockAt, Wants
  <2> QED BY <2>1, <2>2
<1>5. PlaceInv(t)'
  BY <1>2 DEF PlaceInv
<1> QED BY <1>2, <1>3, <1>4, <1>5, LocksAt

(* Authenticated requests. *)
LEMMA ReportLocks ==
  ASSUME IInv, NEW t \in Tx, LockInv(t), PlaceInv(t),
         Touch(t) \/ Beat(t) \/ Contact(t) \/ StoreEvents(t) \/ BranchReady(t)
  PROVE  LockInv(t)' /\ PlaceInv(t)'
<1>1. Shape /\ TxInv(t)
  BY DEF IInv
<1>2. /\ op[t].kind \in {"status_v1", "status_v2", "upload"}
      /\ db' = db /\ op'[t] = op[t] /\ seen'[t] = seen[t] /\ todo'[t] = todo[t]
      /\ lock'[t] = lock[t] \cup Wants(t)
      /\ \/ pc[t] = "touch" /\ op[t].kind = "status_v1" /\ pc'[t] = "contact"
         \/ pc[t] = "touch" /\ op[t].kind = "status_v2" /\ pc'[t] = "beat"
         \/ pc[t] = "touch" /\ op[t].kind = "upload" /\ pc'[t] = "events"
         \/ pc[t] = "beat" /\ op[t].kind = "status_v2" /\ pc'[t] \in {"contact", "commit"}
         \/ pc[t] = "events" /\ op[t].kind = "upload" /\ pc'[t] \in {"ready", "commit"}
         \/ pc[t] \in {"contact", "ready"} /\ pc'[t] = "commit"
  <2>1. CASE Touch(t)
    BY <1>1, <2>1, GoDoes DEF Touch
  <2>2. CASE Beat(t)
    <3> DEFINE next == IF db[op[t].row].inst = 0 THEN "commit" ELSE "contact"
    <3>1. At(t, "status_v2", "beat") /\ \E w : Go(t, next, w)
      BY <2>2 DEF Beat
    <3>2. next \in {"contact", "commit"}
      OBVIOUS
    <3> HIDE DEF next
    <3> QED BY <1>1, <3>1, <3>2, GoDoes
  <2>3. CASE Contact(t)
    <3>1. At(t, "status_v1", "contact") \/ At(t, "status_v2", "contact")
      BY <2>3 DEF Contact
    <3>2. \E w : Go(t, "commit", w)
      BY <2>3 DEF Contact
    <3> QED BY <1>1, <3>1, <3>2, GoDoes
  <2>4. CASE StoreEvents(t)
    <3> DEFINE next == IF db[Branch] = "pending" THEN "ready" ELSE "commit"
    <3>1. At(t, "upload", "events") /\ Go(t, next, <<>>)
      BY <2>4 DEF StoreEvents
    <3>2. next \in {"ready", "commit"}
      OBVIOUS
    <3> HIDE DEF next
    <3> QED BY <1>1, <3>1, <3>2, GoDoes
  <2>5. CASE BranchReady(t)
    BY <1>1, <2>5, GoDoes DEF BranchReady
  <2> QED BY <2>1, <2>2, <2>3, <2>4, <2>5
<1>3. op[t].row[1] = "token" /\ (op[t].kind = "status_v2" => op[t].arg[1] = "key")
  BY <1>1, <1>2, OpTables
<1>4. \A h \in lock[t] : LockAt(t, h)'
  <2>1. CASE pc'[t] = "commit"
    BY <2>1 DEF LockAt
  <2>2. CASE pc'[t] # "commit"
    BY <1>2, <2>2 DEF LockInv, LockAt
  <2> QED BY <2>1, <2>2
<1>5. \A h \in Wants(t) : LockAt(t, h)'
  <2>1. CASE pc'[t] = "commit"
    BY <2>1 DEF LockAt
  <2>2. CASE pc'[t] # "commit"
    BY <1>2, <1>3, <2>2, RowTables DEF LockAt, Wants, KeyShare
  <2> QED BY <2>1, <2>2
<1>6. PlaceInv(t)'
  <2>1. pc[t] = "touch" => <<op[t].row, NoKeyUpdate>> \in lock'[t]
    BY <1>2 DEF Wants
  <2> QED BY <1>2, <2>1 DEF PlaceInv
<1> QED BY <1>2, <1>4, <1>5, <1>6, LocksAt

(* The statements of a sweep but those that take its rows. *)
LEMMA StageLocks ==
  ASSUME IInv, NEW t \in Tx, LockInv(t), PlaceInv(t),
         \/ GenerateHold(t) \/ GenerateInsert(t) \/ RecoverOrg(t) \/ RecoverTokens(t) \/ RecoverHold(t)
         \/ OffboardOrg(t) \/ OffboardNext(t) \/ OffboardEnd(t)
  PROVE  LockInv(t)' /\ PlaceInv(t)'
<1>1. Shape /\ TxInv(t)
  BY DEF IInv
<1>2. CASE GenerateHold(t)
  <2>1. /\ op[t].kind = "generate" /\ pc[t] = "hold" /\ pc'[t] = "sweep" /\ todo'[t] = LiveOf(db, "code", op[t].row[2])
        /\ db' = db /\ op'[t] = op[t] /\ seen'[t] = "codes" /\ lock'[t] = lock[t] \cup Wants(t)
    BY <1>1, <1>2, SweepDoes DEF GenerateHold
  <2>2. op[t].row[1] = "inst"
    BY <1>1, <2>1, OpTables
  <2>3. \A h \in lock[t] : LockAt(t, h)'
    BY <2>1 DEF LockInv, LockAt
  <2>4. \A h \in Wants(t) : LockAt(t, h)'
    BY <2>1, <2>2 DEF LockAt, Wants
  <2>5. \A c \in todo'[t] : db[c].inst = op[t].row[2]
    BY <2>1 DEF LiveOf
  <2>6. PlaceInv(t)'
    BY <2>1, <2>5 DEF PlaceInv
  <2> QED BY <2>1, <2>3, <2>4, <2>6, LocksAt
<1>3. CASE GenerateInsert(t) \/ RecoverHold(t) \/ OffboardEnd(t)
  <2>1. /\ op[t].kind \in {"generate", "recover", "offboard"} /\ pc'[t] = "commit"
        /\ db' = db /\ op'[t] = op[t] /\ todo'[t] = todo[t] /\ lock'[t] = lock[t] \cup Wants(t)
    BY <1>1, <1>3, GoDoes DEF GenerateInsert, RecoverHold, OffboardEnd
  <2>2. \A h : LockAt(t, h)'
    BY <2>1 DEF LockAt
  <2>3. PlaceInv(t)'
    BY <2>1 DEF PlaceInv
  <2> QED BY <2>1, <2>2, <2>3, LocksAt
<1>4. CASE RecoverOrg(t)
  <2>1. /\ op[t].kind = "recover" /\ pc[t] = "org" /\ pc'[t] = "sweep"
        /\ db' = db /\ op'[t] = op[t] /\ seen'[t] = "tokens" /\ lock'[t] = lock[t] \cup Wants(t)
    BY <1>1, <1>4, SweepDoes DEF RecoverOrg
  <2>2. \A h \in lock[t] : LockAt(t, h)'
    BY <2>1 DEF LockInv, LockAt
  <2>3. \A h \in Wants(t) : LockAt(t, h)'
    BY <2>1, RowTables DEF LockAt, Wants
  <2>4. PlaceInv(t)'
    BY <2>1 DEF PlaceInv
  <2> QED BY <2>1, <2>2, <2>3, <2>4, LocksAt
<1>5. CASE RecoverTokens(t)
  <2>1. /\ op[t].kind = "recover" /\ pc[t] = "sweep" /\ pc'[t] = "hold" /\ todo[t] = {}
        /\ db' = db /\ op'[t] = op[t] /\ todo'[t] = todo[t] /\ lock'[t] = lock[t] \cup Wants(t)
    BY <1>1, <1>5, GoDoes DEF RecoverTokens
  <2>2. \A h \in lock[t] : LockAt(t, h)'
    BY <2>1 DEF LockInv, LockAt
  <2>3. Wants(t) = {}
    BY <2>1 DEF Wants
  <2>4. PlaceInv(t)'
    BY <2>1 DEF PlaceInv
  <2> QED BY <2>1, <2>2, <2>3, <2>4, LocksAt
<1>6. CASE OffboardOrg(t)
  <2>1. /\ op[t].kind = "offboard" /\ pc[t] = "org" /\ pc'[t] = "sweep"
        /\ db' = db /\ op'[t] = op[t] /\ seen'[t] = "token" /\ lock'[t] = lock[t] \cup Wants(t)
    BY <1>1, <1>6, SweepDoes DEF OffboardOrg
  <2>2. \A h \in lock[t] : LockAt(t, h)'
    BY <2>1 DEF LockInv, LockAt
  <2>3. \A h \in Wants(t) : LockAt(t, h)'
    BY <2>1, RowTables DEF LockAt, Wants
  <2>4. PlaceInv(t)'
    BY <2>1 DEF PlaceInv
  <2> QED BY <2>1, <2>2, <2>3, <2>4, LocksAt
<1>7. CASE OffboardNext(t)
  <2>1. /\ op[t].kind = "offboard" /\ pc[t] = "sweep" /\ pc'[t] = "sweep" /\ todo[t] = {} /\ seen[t] # "key"
        /\ db' = db /\ op'[t] = op[t] /\ seen'[t] = NextStage(seen[t]) /\ lock'[t] = lock[t] \cup Wants(t)
    BY <1>1, <1>7, SweepDoes DEF OffboardNext
  <2>2. \/ seen[t] = "token" /\ seen'[t] = "inst"
        \/ seen[t] = "inst" /\ seen'[t] = "code"
        \/ seen[t] = "code" /\ seen'[t] = "key"
    <3>1. seen[t] \in {"token", "inst", "code"}
      BY <1>1, <2>1 DEF TxInv, SweepInv
    <3> QED BY <2>1, <3>1 DEF NextStage
  <2>3. \A h \in lock[t] : LockAt(t, h)'
    BY <2>1, <2>2 DEF LockInv, LockAt
  <2>4. Wants(t) = {}
    BY <2>1 DEF Wants
  <2>5. PlaceInv(t)'
    BY <2>1 DEF PlaceInv
  <2> QED BY <2>1, <2>3, <2>4, <2>5, LocksAt
<1> QED BY <1>2, <1>3, <1>4, <1>5, <1>6, <1>7

(* The rows of a sweep are numbered, of one table, and the next one is the *)
(* first of them.                                                          *)
LEMMA SweptRows ==
  ASSUME IInv, CInv, NEW t \in Tx, PlaceInv(t), pc[t] = "sweep"
  PROVE  /\ \A r \in todo[t] : /\ r \in DOMAIN db /\ r[2] \in Nat
                               /\ op[t].kind = "generate" => r[1] = "code"
                               /\ op[t].kind = "recover" => r[1] = "token"
                               /\ op[t].kind = "offboard" => r[1] = seen[t]
         /\ todo[t] # {} =>
              /\ First(todo[t]) \in todo[t]
              /\ \A s \in todo[t] : First(todo[t])[2] <= s[2] /\ (s # First(todo[t]) => First(todo[t])[2] < s[2])
         /\ Wants(t) = IF todo[t] = {} THEN {} ELSE {<<First(todo[t]), NoKeyUpdate>>}
<1>1. Typed(db) /\ TxInv(t) /\ Sweeping(t) /\ op[t].kind \in {"generate", "recover", "offboard"}
  BY DEF IInv, CInv, CTx, PlaceInv
<1>2. \A r \in todo[t] : /\ r \in DOMAIN db
                         /\ op[t].kind = "generate" => r[1] = "code"
                         /\ op[t].kind = "recover" => r[1] = "token"
                         /\ op[t].kind = "offboard" => r[1] = seen[t]
  BY <1>1 DEF TxInv, SweepInv, Sweeping, Table
<1>3. \A r \in todo[t] : r[2] \in Nat /\ r = <<r[1], r[2]>>
  BY <1>1, <1>2, RowsArePairs
<1>4. ASSUME todo[t] # {}
      PROVE  /\ First(todo[t]) \in todo[t]
             /\ \A s \in todo[t] : First(todo[t])[2] <= s[2] /\ (s # First(todo[t]) => First(todo[t])[2] < s[2])
  <2>1. First(todo[t]) \in todo[t] /\ \A s \in todo[t] : First(todo[t])[2] <= s[2]
    BY <1>3, <1>4, FirstIsLeast
  <2>2. \A s \in todo[t] : s[1] = First(todo[t])[1]
    BY <1>1, <1>2, <2>1
  <2>3. \A s \in todo[t] : s # First(todo[t]) => s[2] # First(todo[t])[2]
    BY <1>3, <2>1, <2>2
  <2> QED BY <1>3, <2>1, <2>3
<1> QED BY <1>2, <1>3, <1>4 DEF Wants

(* A sweep takes its rows in the order of their ids. *)
LEMMA SweepLocks ==
  ASSUME IInv, CInv, NEW t \in Tx, LockInv(t), PlaceInv(t), SweepRow(t)
  PROVE  LockInv(t)' /\ PlaceInv(t)'
<1>0. PICK r : r = First(todo[t])
  OBVIOUS
<1>1. /\ pc[t] = "sweep" /\ pc'[t] = "sweep" /\ todo[t] # {} /\ todo'[t] = todo[t] \ {r} /\ db' = db /\ op'[t] = op[t]
      /\ seen'[t] = seen[t] /\ lock'[t] = lock[t] \cup Wants(t)
      /\ op[t].kind \in {"generate", "recover", "offboard"}
  BY <1>0 DEF SweepRow, At, Take, IInv, Shape
<1>2. /\ r \in todo[t] /\ \A s \in todo'[t] : r[2] < s[2]
      /\ op[t].kind = "generate" => r[1] = "code"
      /\ op[t].kind = "recover" => r[1] = "token"
      /\ op[t].kind = "offboard" => r[1] = seen[t]
      /\ Wants(t) = {<<r, NoKeyUpdate>>}
  BY <1>0, <1>1, SweptRows
<1>3. op[t].kind = "offboard" => seen[t] \in {"token", "inst", "code", "key"}
  BY <1>1 DEF IInv, TxInv, SweepInv
<1>4. \A h \in lock[t] : LockAt(t, h)'
  BY <1>1 DEF LockInv, LockAt, Passed
<1>5. Passed(t, r)'
  BY <1>2 DEF Passed
<1>6. \A h \in Wants(t) : LockAt(t, h)'
  BY <1>1, <1>2, <1>3, <1>5 DEF LockAt, NoKeyUpdate, Update
<1>7. PlaceInv(t)'
  BY <1>1 DEF PlaceInv
<1> QED BY <1>1, <1>4, <1>6, <1>7, LocksAt

(* Every statement. *)
LEMMA StepLocks ==
  ASSUME IInv, CInv, NEW t \in Tx, LockInv(t), PlaceInv(t), Step(t)
  PROVE  LockInv(t)' /\ PlaceInv(t)'
BY RedeemLocks, SingleLocks, ReportLocks, StageLocks, SweepLocks DEF Step

-----------------------------------------------------------------------------
(* The beginning of a transaction, its end, and the steps of others.       *)

(* What leaves a transaction alone, and the references of the codes.       *)
LEMMA LocksStay ==
  ASSUME NEW u \in Tx, TxInv(u), LockInv(u), PlaceInv(u),
         op'[u] = op[u], pc'[u] = pc[u], seen'[u] = seen[u], todo'[u] = todo[u], lock'[u] = lock[u],
         \A c \in Table(db, "code") : db'[c].inst = db[c].inst
  PROVE  LockInv(u)' /\ PlaceInv(u)'
<1>1. LockInv(u)'
  BY DEF LockInv, LockAt, Passed
<1>2. op[u].kind = "redeem" => InstOf(u)' = InstOf(u)
  BY DEF InstOf, TxInv, OpOk
<1>3. op[u].kind = "generate" => \A c \in todo[u] : db'[c].inst = op[u].row[2]
  BY DEF TxInv, SweepInv, PlaceInv
<1>4. PlaceInv(u)'
  BY <1>2, <1>3 DEF PlaceInv
<1> QED BY <1>1, <1>4

(* One that begins has no locks. *)
LEMMA BeginLocks ==
  ASSUME IInv, NEW t \in Tx, Begin(t)
  PROVE  LockInv(t)' /\ PlaceInv(t)'
<1>1. PICK o \in AdminOps \cup ScriptOps \cup AgentOps :
        op' = [op EXCEPT ![t] = o] /\ pc' = [pc EXCEPT ![t] = FirstStatement(o)]
  BY DEF Begin
<1>2. /\ pc[t] = "idle" /\ todo' = todo /\ lock' = lock /\ Shape
  BY DEF Begin, Waiting, IInv
<1>3. lock'[t] = {} /\ todo'[t] = {} /\ op'[t] = o /\ pc'[t] = FirstStatement(o)
  BY <1>1, <1>2 DEF Shape, Running
<1>4. o.kind \in {"redeem", "generate", "recover", "status", "revoke", "create", "library", "offboard", "cutover",
                  "grant", "issue", "retire", "status_v1", "status_v2", "upload"}
  BY DEF AdminOps, ScriptOps, AgentOps, Op
<1>5. /\ FirstStatement(o) \in {"org", "hold", "branch", "row", "place", "events", "touch"}
      /\ FirstStatement(o) = "hold" => o.kind = "generate"
      /\ FirstStatement(o) = "row" => o.kind \in {"status", "retire"}
  BY <1>4 DEF FirstStatement, ExclusiveOnOrg
<1> QED BY <1>3, <1>5 DEF LockInv, PlaceInv

(* Nor has one that is over. *)
LEMMA EndLocks ==
  ASSUME Shape, NEW t \in Tx, End(t)
  PROVE  LockInv(t)' /\ PlaceInv(t)'
<1>1. op'[t].kind = "none" /\ pc'[t] = "done" /\ lock'[t] = {}
  BY DEF End, Shape
<1> QED BY <1>1 DEF LockInv, PlaceInv

(* Any step keeps it. *)
LEMMA NextWInv ==
  ASSUME IInv, CInv, WInv, [Next]_vars
  PROVE  WInv'
<1>1. Shape /\ Typed(db) /\ \A u \in Tx : TxInv(u) /\ LockInv(u) /\ PlaceInv(u)
  BY DEF IInv, WInv
<1>2. ASSUME db' = db, NEW u \in Tx,
             op'[u] = op[u], pc'[u] = pc[u], seen'[u] = seen[u], todo'[u] = todo[u], lock'[u] = lock[u]
      PROVE  LockInv(u)' /\ PlaceInv(u)'
  BY <1>1, <1>2, LocksStay
<1>3. ASSUME NEW t \in Tx, Begin(t)
      PROVE  WInv'
  <2>1. db' = db /\ \A u \in Tx \ {t} : /\ op'[u] = op[u] /\ pc'[u] = pc[u] /\ seen'[u] = seen[u] /\ todo'[u] = todo[u]
                                        /\ lock'[u] = lock[u]
    BY <1>1, <1>3 DEF Begin, Shape
  <2>2. LockInv(t)' /\ PlaceInv(t)'
    BY <1>3, BeginLocks
  <2> QED BY <1>2, <2>1, <2>2 DEF WInv
<1>4. ASSUME NEW t \in Tx, Step(t)
      PROVE  WInv'
  <2>1. db' = db /\ op' = op /\ \A u \in Tx \ {t} : pc'[u] = pc[u] /\ seen'[u] = seen[u] /\ todo'[u] = todo[u] /\ lock'[u] = lock[u]
    BY <1>1, <1>4, StepIsStatement, StatementFrame
  <2>2. LockInv(t)' /\ PlaceInv(t)'
    BY <1>1, <1>4, StepLocks
  <2> QED BY <1>2, <2>1, <2>2 DEF WInv
<1>5. ASSUME NEW t \in Tx, Commit(t) \/ Fail(t)
      PROVE  WInv'
  <2>1. End(t)
    BY <1>5 DEF Commit, Fail
  <2>2. LockInv(t)' /\ PlaceInv(t)'
    BY <1>1, <2>1, EndLocks
  <2>3. \A u \in Tx \ {t} : op'[u] = op[u] /\ pc'[u] = pc[u] /\ seen'[u] = seen[u] /\ todo'[u] = todo[u] /\ lock'[u] = lock[u]
    BY <1>1, <2>1 DEF End, Shape
  <2>4. \A c \in Table(db, "code") : db'[c].inst = db[c].inst
    <3>1. CASE Fail(t)
      BY <3>1 DEF Fail
    <3>2. CASE Commit(t)
      <4>1. \A r \in DOMAIN db : Keeps(r, db[r], db'[r])
        BY <1>1, <3>2, CommitRows
      <4> QED BY <4>1 DEF Keeps, Table
    <3> QED BY <1>5, <3>1, <3>2
  <2>5. \A u \in Tx \ {t} : LockInv(u)' /\ PlaceInv(u)'
    BY <1>1, <2>3, <2>4, LocksStay
  <2> QED BY <2>2, <2>5 DEF WInv
<1>6. CASE UNCHANGED vars
  BY <1>2, <1>6 DEF vars, WInv
<1> QED BY <1>3, <1>4, <1>5, <1>6 DEF Next

-----------------------------------------------------------------------------
(* What each of any number of overlapping transactions has locked at each  *)
(* of its statements.                                                      *)
THEOREM LocksAreInPlace == Spec => []WInv
<1>1. ASSUME Init
      PROVE  WInv
  <2>1. Begun(Pasts, 0)
    BY <1>1 DEF Init, Idle
  <2>2. \A t \in Tx : lock[t] = {} /\ op[t].kind = "none" /\ pc[t] = "idle"
    BY <2>1 DEF Begun, Tx
  <2> QED BY <2>2 DEF WInv, LockInv, PlaceInv
<1>2. IInv /\ CInv /\ WInv /\ [Next]_vars => WInv'
  BY NextWInv
<1> QED BY <1>1, <1>2, InvariantHolds, CredentialsHold, PTL DEF Spec

-----------------------------------------------------------------------------
(* Who waits for whom.                                                     *)

(* Where offboarding is among the keys. *)
AtKeys(t) == pc[t] = "sweep" /\ op[t].kind = "offboard" /\ seen[t] = "key"

(* How far the row that a transaction waits for is in the order in which,  *)
(* but for two exceptions, all of them take their locks.                   *)
Height(t) ==
  CASE pc[t] = "row" /\ op[t].kind = "revoke" -> 1
    [] pc[t] = "sweep" /\ (op[t].kind = "recover" \/ (op[t].kind = "offboard" /\ seen[t] = "token")) -> 2
    [] pc[t] \in {"code", "beat"} \/ (pc[t] = "row" /\ op[t].kind = "retire") -> 3
    [] pc[t] \in {"branch", "events"} -> 4
    [] pc[t] = "ready" -> 5
    [] pc[t] \in {"contact", "hold"} \/ (pc[t] = "row" /\ op[t].kind = "status") -> 6
    [] pc[t] = "sweep" /\ op[t].kind = "offboard" /\ seen[t] = "inst" -> 7
    [] pc[t] = "sweep" /\ (op[t].kind = "generate" \/ (op[t].kind = "offboard" /\ seen[t] = "code")) -> 8 + First(todo[t])[2]
    [] OTHER -> 0

LEMMA HeightIs ==
  ASSUME NEW t
  PROVE  /\ pc[t] \in {"org", "place", "touch"} => Height(t) = 0
         /\ pc[t] = "row" /\ op[t].kind = "revoke" => Height(t) = 1
         /\ pc[t] = "sweep" /\ op[t].kind = "recover" => Height(t) = 2
         /\ pc[t] = "sweep" /\ op[t].kind = "offboard" /\ seen[t] = "token" => Height(t) = 2
         /\ pc[t] \in {"code", "beat"} => Height(t) = 3
         /\ pc[t] = "row" /\ op[t].kind = "retire" => Height(t) = 3
         /\ pc[t] \in {"branch", "events"} => Height(t) = 4
         /\ pc[t] = "ready" => Height(t) = 5
         /\ pc[t] \in {"contact", "hold"} => Height(t) = 6
         /\ pc[t] = "row" /\ op[t].kind = "status" => Height(t) = 6
         /\ pc[t] = "sweep" /\ op[t].kind = "offboard" /\ seen[t] = "inst" => Height(t) = 7
         /\ pc[t] = "sweep" /\ op[t].kind = "generate" => Height(t) = 8 + First(todo[t])[2]
         /\ pc[t] = "sweep" /\ op[t].kind = "offboard" /\ seen[t] = "code" => Height(t) = 8 + First(todo[t])[2]
BY DEF Height

(* Who waits is at one of these places.                                    *)
Waits(t) ==
  \/ pc[t] \in {"org", "place", "touch", "code", "beat", "branch", "events", "ready", "contact", "hold"}
  \/ pc[t] = "row" /\ op[t].kind \in {"status", "revoke", "retire"}
  \/ /\ pc[t] = "sweep" /\ todo[t] # {}
     /\ op[t].kind \in {"generate", "recover"} \/ (op[t].kind = "offboard" /\ seen[t] \in {"token", "inst", "code"})

LEMMA WaitsSomewhere ==
  ASSUME IInv, WInv, NEW t \in Tx, Wants(t) # {}
  PROVE  pc[t] # "commit" /\ (Waits(t) \/ pc[t] \in {"token", "key"} \/ (AtKeys(t) /\ todo[t] # {}))
<1>1. PlaceInv(t) /\ SweepInv(t)
  BY DEF IInv, WInv, TxInv
<1>2. /\ pc[t] \in {"org", "code", "branch", "token", "key", "hold", "sweep", "row", "touch", "beat", "contact",
                    "place", "events", "ready"}
      /\ pc[t] = "sweep" => todo[t] # {}
  BY DEF Wants
<1> QED BY <1>1, <1>2 DEF PlaceInv, SweepInv, Waits, AtKeys

(* Whoever holds up another has a lock that conflicts with what that wants.*)
LEMMA BlocksBy ==
  ASSUME IInv, WInv, NEW t \in Tx, NEW u \in Tx, Blocks(u, t)
  PROVE  /\ u # t /\ Wants(t) # {}
         /\ \E h \in lock[u], w \in Wants(t) : h[1] = w[1] /\ h[2] \in 1..4 /\ h[2] + w[2] > 4 /\ LockAt(u, h)
BY DEF Blocks, HoldsUp, Conflict, WInv, LockInv, IInv, Shape

(* A redemption that waits for its installation waits for a code that is   *)
(* being generated for it, or for one that ends.                           *)
LEMMA RedeemWaits ==
  ASSUME IInv, WInv, NEW t \in Tx, NEW u \in Tx, Blocks(u, t), pc[t] = "token", pc[u] # "commit"
  PROVE  GeneratesAndRedeems(u, t)
<1>1. PICK h \in lock[u], w \in Wants(t) : h[1] = w[1] /\ h[2] \in 1..4 /\ h[2] + w[2] > 4 /\ LockAt(u, h)
  BY BlocksBy
<1>2. w = <<Inst(InstOf(t)), KeyShare>>
  BY DEF Wants
<1>3. h[2] = Update /\ h[1] = Inst(InstOf(t)) /\ h[1][1] = "inst" /\ h[1][2] = InstOf(t)
  BY <1>1, <1>2, RowTables DEF KeyShare, Update
<1>4. op[u].kind = "generate" /\ h[1] = op[u].row
  BY <1>1, <1>3 DEF LockAt
<1>5. op[t].kind = "redeem"
  BY DEF WInv, PlaceInv
<1> QED BY <1>3, <1>4, <1>5 DEF GeneratesAndRedeems

(* At its last statement it has what it wants. *)
LEMMA RedeemEnds ==
  ASSUME IInv, WInv, NEW t \in Tx, NEW u \in Tx, pc[t] = "key"
  PROVE  ~Blocks(u, t)
<1> SUFFICES ASSUME Blocks(u, t) PROVE FALSE
  OBVIOUS
<1>1. u # t /\ \E h \in lock[u], w \in Wants(t) : h[1] = w[1] /\ h[2] \in 1..4 /\ h[2] + w[2] > 4
  BY BlocksBy
<1>2. PICK h \in lock[u], w \in Wants(t) : h[1] = w[1] /\ h[2] \in 1..4 /\ h[2] + w[2] > 4
  BY <1>1
<1>3. op[t].kind = "redeem" /\ <<Inst(InstOf(t)), KeyShare>> \in lock[t]
  BY DEF WInv, PlaceInv
<1>4. <<Branch, Update>> \in lock[t] /\ Exclusion
  BY <1>3 DEF IInv, TxInv, RedeemInv
<1>5. w \in {<<Inst(InstOf(t)), KeyShare>>, <<Branch, KeyShare>>}
  BY DEF Wants
<1>6. CASE w = <<Inst(InstOf(t)), KeyShare>>
  <2>1. ~Conflict(h, <<Inst(InstOf(t)), KeyShare>>)
    BY <1>1, <1>3, <1>4 DEF Exclusion
  <2> QED BY <1>2, <1>6, <2>1 DEF Conflict
<1>7. CASE w = <<Branch, KeyShare>>
  <2>1. ~Conflict(h, <<Branch, Update>>)
    BY <1>1, <1>4 DEF Exclusion
  <2> QED BY <1>2, <1>7, <2>1 DEF Conflict, Update, KeyShare
<1> QED BY <1>5, <1>6, <1>7

(* Two that both have the library, one of them for itself, are not there.  *)
LEMMA OneHasLibrary ==
  ASSUME IInv, NEW t \in Tx, NEW u \in Tx, u # t, <<Org, Update>> \in lock[t]
  PROVE  \A m \in 1..4 : <<Org, m>> \notin lock[u]
BY ExclusiveRow DEF IInv, Update

(* Offboarding that is among the keys waits only for a heartbeat whose     *)
(* token is not active any more: the active ones it has locked itself.     *)
LEMMA OffboardWaits ==
  ASSUME IInv, CInv, WInv, NEW t \in Tx, NEW u \in Tx, Blocks(u, t), AtKeys(t), pc[u] # "commit"
  PROVE  OffboardsAndReports(t, u)
<1>1. PICK h \in lock[u], w \in Wants(t) : h[1] = w[1] /\ h[2] \in 1..4 /\ h[2] + w[2] > 4 /\ LockAt(u, h)
  BY BlocksBy
<1>2. u # t /\ Wants(t) # {} /\ Shape /\ Exclusion /\ Typed(db)
  BY BlocksBy DEF IInv
<1>3. PlaceInv(t) /\ PlaceInv(u) /\ SweepInv(t) /\ SweepInv(u) /\ Sweeping(t) /\ Written(t) /\ Fresh(t) /\ OpOk(u)
  BY DEF IInv, TxInv, CInv, CTx, WInv
<1>4. h[1][1] = "key"
  <2>1. Wants(t) = {<<First(todo[t]), NoKeyUpdate>>} /\ First(todo[t]) \in todo[t]
    BY <1>2, <1>3, SweptRows DEF AtKeys
  <2>2. First(todo[t])[1] = "key"
    BY <1>3, <2>1 DEF Sweeping, AtKeys
  <2> QED BY <1>1, <2>1, <2>2
<1>5. <<Org, Update>> \in lock[t]
  BY <1>3 DEF SweepInv, AtKeys
<1>6. ~AtKeys(u)
  <2>1. AtKeys(u) => <<Org, Update>> \in lock[u]
    BY <1>3 DEF SweepInv, AtKeys
  <2>2. <<Org, Update>> \notin lock[u]
    BY <1>2, <1>5, OneHasLibrary DEF Update
  <2> QED BY <2>1, <2>2
<1>7. pc[u] = "contact" /\ op[u].kind = "status_v2"
  BY <1>1, <1>4, <1>6 DEF LockAt, AtKeys
<1> DEFINE k == op[u].row
<1>8. k \in DOMAIN db /\ k[1] = "token" /\ <<k, NoKeyUpdate>> \in lock[u]
  BY <1>3, <1>7 DEF OpOk, PlaceInv, Table
<1> HIDE DEF k
<1>9. ~db[k].active
  <2> SUFFICES ASSUME db[k].active PROVE FALSE
    OBVIOUS
  <2>1. LiveIn(View(t), "token") = {}
    <3>1. LiveIn(View(t), "token") \subseteq todo[t]
      BY <1>3 DEF Sweeping, AtKeys, Upto
    <3>2. \A r \in todo[t] : r[1] = "key"
      BY <1>3 DEF Sweeping, AtKeys
    <3> QED BY <3>1, <3>2 DEF LiveIn, Table
  <2>2. /\ DOMAIN View(t) = DOMAIN put[t] \cup DOMAIN db
        /\ \A r \in DOMAIN db : r \notin DOMAIN put[t] => View(t)[r] = db[r]
    BY ViewRows
  <2>3. k \in DOMAIN put[t]
    BY <1>8, <2>1, <2>2 DEF LiveIn, Table, Live
  <2>4. Holds(t, k, Exclusive)
    <3>1. pc[t] # "done" => k[2] # New(t)
      BY <1>3, <1>8 DEF Fresh
    <3> QED BY <1>3, <2>3, <3>1 DEF Written, Mine, AtKeys
  <2>5. Has(lock[t], k) /\ Has(lock[u], k)
    BY <1>8, <2>4 DEF Holds, Exclusive, Has
  <2> QED BY <1>2, <2>5, OneHasIt
<1> QED BY <1>7, <1>9 DEF OffboardsAndReports, AtKeys, k

(* The table of the row that a transaction waits for, by its place. *)
LEMMA WantsAt ==
  ASSUME IInv, WInv, NEW t \in Tx, NEW w \in Wants(t)
  PROVE  /\ pc[t] = "code" => w[1][1] = "code"
         /\ pc[t] = "beat" => w[1][1] = "key"
         /\ pc[t] \in {"branch", "events"} => w[1][1] = "branch"
         /\ pc[t] = "ready" => w[1][1] = "branch" /\ w[2] = NoKeyUpdate
         /\ pc[t] \in {"contact", "hold"} => w[1][1] = "inst"
         /\ pc[t] = "row" /\ op[t].kind = "status" => w[1][1] = "inst"
         /\ pc[t] = "row" /\ op[t].kind = "revoke" => w[1][1] = "token"
         /\ pc[t] = "row" /\ op[t].kind = "retire" => w[1][1] = "key"
<1>1. PlaceInv(t) /\ TxInv(t)
  BY DEF IInv, WInv
<1>2. /\ op[t].kind = "redeem" => op[t].row[1] = "code"
      /\ op[t].kind \in {"generate", "recover", "status"} => op[t].row[1] = "inst"
      /\ op[t].kind = "revoke" => op[t].row[1] = "token"
      /\ op[t].kind = "retire" => op[t].row[1] = "key"
      /\ op[t].kind = "status_v2" => op[t].arg[1] = "key"
  BY <1>1, OpTables
<1>3. pc[t] = "code" => w[1] = op[t].row /\ op[t].kind = "redeem"
  BY <1>1 DEF Wants, PlaceInv
<1>4. pc[t] = "beat" => w[1] = op[t].arg /\ op[t].kind = "status_v2"
  BY <1>1 DEF Wants, PlaceInv
<1>5. /\ pc[t] \in {"branch", "events"} => w[1] = Branch
      /\ pc[t] = "ready" => w[1] = Branch /\ w[2] = NoKeyUpdate
  BY DEF Wants
<1>6. pc[t] = "contact" => w[1] = Inst(db[op[t].row].inst)
  BY DEF Wants
<1>7. pc[t] = "hold" => w[1] = op[t].row /\ op[t].kind \in {"generate", "recover"}
  BY <1>1 DEF Wants, PlaceInv
<1>8. pc[t] = "row" => w[1] = op[t].row
  BY DEF Wants
<1> QED BY <1>2, <1>3, <1>4, <1>5, <1>6, <1>7, <1>8, RowTables

(* Otherwise whoever holds it up, if it waits as well, is further.         *)
LEMMA Climbs ==
  ASSUME IInv, CInv, WInv, NEW t \in Tx, NEW u \in Tx, Blocks(u, t), Waits(t), Waits(u)
  PROVE  GeneratesAndRedeems(t, u) \/ Height(t) < Height(u)
<1>1. PICK h \in lock[u], w \in Wants(t) : h[1] = w[1] /\ h[2] \in 1..4 /\ h[2] + w[2] > 4 /\ LockAt(u, h)
  BY BlocksBy
<1>2. u # t /\ Shape /\ Exclusion /\ Typed(db)
  BY BlocksBy DEF IInv
<1>3. PlaceInv(t) /\ PlaceInv(u) /\ SweepInv(t) /\ SweepInv(u) /\ TxInv(t) /\ TxInv(u)
  BY DEF IInv, TxInv, WInv
<1>4. pc[u] = "sweep" => First(todo[u])[2] \in Nat /\ First(todo[u]) \in todo[u]
  BY <1>3, SweptRows DEF Waits
<1>5. pc[t] = "sweep" => /\ w[1] = First(todo[t]) /\ w[1] \in todo[t] /\ w[1][2] \in Nat
                         /\ op[t].kind = "generate" => w[1][1] = "code"
                         /\ op[t].kind = "recover" => w[1][1] = "token"
                         /\ op[t].kind = "offboard" => w[1][1] = seen[t]
  <2> SUFFICES ASSUME pc[t] = "sweep"
               PROVE  /\ w[1] = First(todo[t]) /\ w[1] \in todo[t] /\ w[1][2] \in Nat
                      /\ op[t].kind = "generate" => w[1][1] = "code"
                      /\ op[t].kind = "recover" => w[1][1] = "token"
                      /\ op[t].kind = "offboard" => w[1][1] = seen[t]
    OBVIOUS
  <2>1. Wants(t) = {<<First(todo[t]), NoKeyUpdate>>} /\ First(todo[t]) \in todo[t]
    BY <1>3, SweptRows DEF Waits
  <2>2. w[1] = First(todo[t])
    BY <1>1, <2>1
  <2> QED BY <1>3, <2>1, <2>2, SweptRows
<1>6. /\ op[u].kind \in {"recover", "offboard"} /\ pc[u] \in {"sweep", "hold"} => <<Org, Update>> \in lock[u]
      /\ op[u].kind = "redeem" /\ pc[u] \in {"code", "branch"} => pc[u] = "code" \/ <<Org, Share>> \in lock[u]
  BY <1>3 DEF SweepInv, TxInv, RedeemInv
<1>7. op[t].kind \in {"recover", "offboard"} /\ pc[t] = "sweep" =>
        /\ ~(op[u].kind \in {"recover", "offboard"} /\ pc[u] \in {"sweep", "hold"})
        /\ ~(op[u].kind = "redeem" /\ pc[u] = "branch")
  <2> SUFFICES ASSUME op[t].kind \in {"recover", "offboard"}, pc[t] = "sweep"
               PROVE  /\ ~(op[u].kind \in {"recover", "offboard"} /\ pc[u] \in {"sweep", "hold"})
                      /\ ~(op[u].kind = "redeem" /\ pc[u] = "branch")
    OBVIOUS
  <2>1. <<Org, Update>> \in lock[t]
    BY <1>3 DEF SweepInv
  <2>2. <<Org, Update>> \notin lock[u] /\ <<Org, Share>> \notin lock[u]
    BY <1>2, <2>1, OneHasLibrary DEF Update, Share
  <2> QED BY <1>6, <2>2
<1>8. /\ pc[t] = "code" => w[1][1] = "code"
      /\ pc[t] = "beat" => w[1][1] = "key"
      /\ pc[t] \in {"branch", "events"} => w[1][1] = "branch"
      /\ pc[t] = "ready" => w[1][1] = "branch" /\ w[2] = NoKeyUpdate
      /\ pc[t] \in {"contact", "hold"} => w[1][1] = "inst"
      /\ pc[t] = "row" /\ op[t].kind = "status" => w[1][1] = "inst"
      /\ pc[t] = "row" /\ op[t].kind = "revoke" => w[1][1] = "token"
      /\ pc[t] = "row" /\ op[t].kind = "retire" => w[1][1] = "key"
  BY WantsAt
(* By the table of the row. *)
<1>9. CASE pc[t] \in {"org", "place", "touch"}
  <2>1. Height(t) = 0
    BY <1>9, HeightIs
  <2>2. pc[u] \notin {"org", "place", "touch"}
    BY <1>1 DEF LockAt
  <2>3. Height(u) \in Nat /\ Height(u) >= 1
    BY <1>4, <2>2, HeightIs DEF Waits
  <2> QED BY <2>1, <2>3
<1>10. CASE w[1][1] = "token" /\ pc[t] \notin {"org", "place", "touch"}
  <2>1. Height(t) \in {1, 2} /\ (Height(t) = 2 => op[t].kind \in {"recover", "offboard"} /\ pc[t] = "sweep")
    <3>1. \/ pc[t] = "row" /\ op[t].kind = "revoke"
          \/ pc[t] = "sweep" /\ op[t].kind = "recover"
          \/ pc[t] = "sweep" /\ op[t].kind = "offboard" /\ seen[t] = "token"
      BY <1>5, <1>10, <1>8 DEF Waits
    <3> QED BY <3>1, HeightIs
  <2>2. \/ pc[u] \in {"beat", "contact", "events", "ready"}
        \/ pc[u] \in {"sweep", "hold"} /\ op[u].kind = "recover"
        \/ pc[u] = "sweep" /\ op[u].kind = "offboard"
    BY <1>1, <1>10 DEF LockAt, Waits
  <2>3. Height(u) \in Nat /\ Height(u) >= 2 /\ (pc[u] \in {"beat", "contact", "events", "ready"} => Height(u) >= 3)
    BY <1>4, <2>2, HeightIs DEF Waits
  <2> QED BY <1>7, <2>1, <2>2, <2>3
<1>11. CASE w[1][1] = "key" /\ pc[t] \notin {"org", "place", "touch"}
  <2>1. Height(t) = 3
    <3>1. pc[t] = "beat" \/ (pc[t] = "row" /\ op[t].kind = "retire")
      BY <1>5, <1>11, <1>8 DEF Waits
    <3> QED BY <3>1, HeightIs
  <2>2. pc[u] = "contact"
    BY <1>1, <1>11 DEF LockAt, Waits
  <2> QED BY <2>1, <2>2, HeightIs
<1>12. CASE w[1][1] = "branch" /\ pc[t] \notin {"org", "place", "touch"}
  <2>1. pc[t] \in {"branch", "events"} \/ (pc[t] = "ready" /\ w[2] = NoKeyUpdate)
    BY <1>5, <1>12, <1>8 DEF Waits
  <2>2. (pc[u] = "row" /\ op[u].kind = "status") \/ (pc[u] = "ready" /\ h[2] = KeyShare)
    BY <1>1, <1>12 DEF LockAt, Waits
  <2>3. pc[t] = "ready" => pc[u] = "row" /\ op[u].kind = "status"
    BY <1>1, <2>1, <2>2 DEF NoKeyUpdate, KeyShare
  <2> QED BY <2>1, <2>2, <2>3, HeightIs
<1>13. CASE w[1][1] = "inst" /\ pc[t] \notin {"org", "place", "touch"}
  <2>1. \/ pc[t] \in {"contact", "hold"} \/ (pc[t] = "row" /\ op[t].kind = "status")
        \/ pc[t] = "sweep" /\ op[t].kind = "offboard" /\ seen[t] = "inst"
    BY <1>5, <1>13, <1>8 DEF Waits
  <2>2. \/ pc[u] = "sweep" /\ op[u].kind = "generate"
        \/ pc[u] = "sweep" /\ op[u].kind = "offboard" /\ seen[u] \in {"inst", "code"}
    BY <1>1, <1>13 DEF LockAt, Waits
  <2>3. Height(t) \in {6, 7} /\ (Height(t) = 7 => op[t].kind = "offboard" /\ pc[t] = "sweep")
    BY <2>1, HeightIs
  <2>4. Height(u) \in Nat /\ Height(u) >= 7 /\ (op[u].kind = "generate" => Height(u) >= 8)
    BY <1>4, <2>2, HeightIs
  <2> QED BY <1>7, <2>2, <2>3, <2>4
<1>14. CASE w[1][1] = "code" /\ pc[t] \notin {"org", "place", "touch"}
  <2>1. \/ pc[t] = "code"
        \/ pc[t] = "sweep" /\ op[t].kind = "generate"
        \/ pc[t] = "sweep" /\ op[t].kind = "offboard" /\ seen[t] = "code"
    BY <1>5, <1>14, <1>8 DEF Waits
  <2>2. \/ op[u].kind = "redeem" /\ pc[u] = "branch" /\ h[1] = op[u].row
        \/ pc[u] = "sweep" /\ op[u].kind = "generate" /\ Passed(u, h[1])
        \/ pc[u] = "sweep" /\ op[u].kind = "offboard" /\ seen[u] = "code" /\ Passed(u, h[1])
    BY <1>1, <1>14 DEF LockAt, Waits
  <2>3. CASE pc[t] = "code"
    <3>1. Height(t) = 3
      BY <2>3, HeightIs
    <3>2. Height(u) \in Nat /\ Height(u) >= 4
      BY <1>4, <2>2, HeightIs
    <3> QED BY <3>1, <3>2
  <2>4. CASE pc[t] = "sweep" /\ pc[u] = "sweep"
    <3>1. Passed(u, w[1])
      BY <1>1, <2>2, <2>4
    <3>2. w[1][2] < First(todo[u])[2]
      BY <1>4, <2>4, <3>1 DEF Passed
    <3>3. Height(t) = 8 + w[1][2] /\ Height(u) = 8 + First(todo[u])[2]
      BY <1>5, <2>1, <2>2, <2>4, HeightIs
    <3> QED BY <1>4, <1>5, <2>4, <3>2, <3>3
  <2>5. CASE pc[t] = "sweep" /\ pc[u] = "branch"
    <3>1. op[t].kind = "generate" /\ op[u].kind = "redeem" /\ w[1] = op[u].row
      BY <1>1, <1>7, <2>1, <2>2, <2>5
    <3>2. InstOf(u) = op[t].row[2]
      BY <1>3, <1>5, <2>5, <3>1 DEF PlaceInv, InstOf
    <3> QED BY <3>1, <3>2 DEF GeneratesAndRedeems
  <2> QED BY <2>1, <2>2, <2>3, <2>4, <2>5
<1>15. \/ pc[t] \in {"org", "place", "touch"} \/ w[1][1] \in {"token", "key", "branch", "inst", "code"}
  BY <1>5, <1>8 DEF Waits
<1> QED BY <1>9, <1>10, <1>11, <1>12, <1>13, <1>14, <1>15

(* So a circle has one of the two exceptions in it. *)
LEMMA CirclesAreKnown == IInv /\ CInv /\ WInv => OnlyKnownCircles
<1> SUFFICES ASSUME IInv, CInv, WInv, NEW S \in SUBSET {t \in Tx : Running(t)}, Circle(S),
                    ~ \E t, u \in S : GeneratesAndRedeems(t, u) \/ OffboardsAndReports(t, u)
             PROVE  FALSE
  BY DEF OnlyKnownCircles
<1>1. S \in SUBSET Tx /\ S # {} /\ \A t \in S : \E u \in S : Blocks(u, t)
  BY DEF Circle
<1>2. \A t \in S : Wants(t) # {} /\ pc[t] # "commit" /\ (Waits(t) \/ pc[t] \in {"token", "key"} \/ AtKeys(t))
  BY <1>1, BlocksBy, WaitsSomewhere
<1>3. \A t \in S : Waits(t)
  BY <1>1, <1>2, RedeemWaits, RedeemEnds, OffboardWaits
<1>4. \A t \in S : \E u \in S : Height(t) < Height(u)
  BY <1>1, <1>3, Climbs
<1>5. ASSUME NEW t \in S
      PROVE  Height(t) \in Nat
  <2>1. pc[t] = "sweep" => First(todo[t])[2] \in Nat
    <3>1. PlaceInv(t)
      BY <1>1 DEF WInv
    <3>2. pc[t] = "sweep" => todo[t] # {}
      BY <1>3 DEF Waits
    <3> QED BY <1>1, <3>1, <3>2, SweptRows
  <2> QED BY <1>3, <2>1, HeightIs DEF Waits
<1> DEFINE f == [t \in Tx |-> Height(t)]
<1>6. \A t \in S : f[t] = Height(t) /\ f[t] \in Nat
  BY <1>1, <1>5
<1> HIDE DEF f
<1>7. PICK g \in S : \A t \in S : f[t] <= f[g]
  <2>1. S \in SUBSET (1..MaxTx) /\ MaxTx \in Nat
    BY <1>1, EnrollmentAssumption DEF Tx
  <2> QED BY <1>1, <1>6, <2>1, GreatestOf
<1>8. PICK u \in S : Height(g) < Height(u)
  BY <1>4
<1>9. f[g] \in Nat /\ f[u] \in Nat /\ f[u] <= f[g] /\ f[g] < f[u]
  BY <1>6, <1>7, <1>8
<1> QED BY <1>9

(* Transactions wait for each other in a circle only where a code is       *)
(* generated and redeemed at once, or where a heartbeat with a revoked     *)
(* token meets offboarding.                                                *)
THEOREM OnlyKnownCirclesAlways == Spec => []OnlyKnownCircles
BY CirclesAreKnown, InvariantHolds, CredentialsHold, LocksAreInPlace, PTL
-----------------------------------------------------------------------------
(* The fourth layer: what the inventory of the keys reads was left         *)
(* together, in one transaction.                                           *)

(* Nothing was heard of at its time yet. *)
Unheard(t) == pc[t] # "done" => \A r \in InstRows(db) \cup Keys(db) : db[r].heard # New(t)

(* A redemption has used its code, and a report has the key of its token's *)
(* installation, or one of nobody's.                                       *)
Claimed(t) ==
  op[t].kind = "redeem" /\ pc[t] = "key" =>
    op[t].row \in DOMAIN put[t] /\ put[t][op[t].row].state = "used" /\ put[t][op[t].row].at = New(t)
Paired(t) ==
  op[t].kind = "status_v2" /\ pc[t] \in {"beat", "contact", "commit"} => db[op[t].arg].owner \in {0, db[op[t].row].inst}

(* A token for a code comes with the code, and has its installation.       *)
Dates(t) ==
  LET n == <<"token", New(t)>>  c == <<"code", put[t][n].from>> IN
  n \in DOMAIN put[t] /\ put[t][n].from # 0 =>
    c \in DOMAIN put[t] /\ put[t][c].at = New(t) /\ put[t][n].inst = put[t][c].inst

(* A key with an owner comes with its record and the code.                 *)
Records(t) ==
  LET k == <<"key", New(t)>>  cut == <<"cut", New(t)>>  code == <<"code", put[t][cut].code>> IN
  k \in DOMAIN put[t] /\ put[t][k].owner # 0 =>
    /\ cut \in DOMAIN put[t] /\ put[t][cut].by = "enrollment" /\ put[t][cut].inst = put[t][k].owner
    /\ code \in DOMAIN put[t] /\ put[t][code].inst = put[t][k].owner /\ put[t][code].contract = 2
    /\ put[t][code].state = "used" /\ put[t][code].at = New(t)

(* What is heard of at its time is the key and the installation of the     *)
(* token that reports.                                                     *)
HeardAt(t, r, time) ==
  /\ time \in {New(t)} \cup (IF r \in DOMAIN db THEN {db[r].heard} ELSE {0})
  /\ time = New(t) =>
       /\ r[1] = "key"  => op[t].kind = "status_v2" /\ r = op[t].arg
       /\ r[1] = "inst" => op[t].kind \in {"status_v1", "status_v2"} /\ r = Inst(db[op[t].row].inst)
Hears(t) == \A r \in DOMAIN put[t] : r[1] \in {"key", "inst"} => HeardAt(t, r, put[t][r].heard)

LeftTogether(t) == Dates(t) /\ Records(t) /\ Hears(t)

RTx(t) == Unheard(t) /\ Claimed(t) /\ Paired(t) /\ LeftTogether(t)
RInv == Recorded(db) /\ \A t \in Tx : RTx(t)

-----------------------------------------------------------------------------
(* What the inventory says follows from what was left together.            *)

(* Of at most one there are none, or one. *)
LEMMA NoneOrOne ==
  ASSUME NEW some, AtMostOne(some)
  PROVE  ~(Cardinality(some) > 1) /\ \A x \in some : some = {x} /\ Cardinality(some) = 1
<1>1. ASSUME NEW x \in some
      PROVE  some = {x} /\ Cardinality(some) = 1
  <2>1. some = {x}
    BY <1>1 DEF AtMostOne
  <2> QED BY <2>1, FS_Singleton
<1>2. some = {} => Cardinality(some) = 0
  BY FS_EmptySet
<1> QED BY <1>1, <1>2

(* A record that is a candidate names the installation of the token that   *)
(* was issued with the key.                                                *)
LEMMA CandidatesIssued ==
  ASSUME NEW d, Typed(d), Spent(d), Recorded(d), NEW k \in Keys(d)
  PROVE  Candidates(d, k) \subseteq Issuers(d, k)
<1> SUFFICES ASSUME NEW i \in Candidates(d, k)
             PROVE  i \in Issuers(d, k)
  OBVIOUS
<1>1. E1(d, k) = "candidate" /\ i \in {d[x].inst : x \in Matching(d, k)}
  BY DEF Candidates
<1>2. PICK c \in Matching(d, k) : i = d[c].inst
  BY <1>1
<1>3. ~Disagrees(d, k, c) /\ ~Incomplete(d, c)
  <2>1. Matching(d, k) = {c}
    BY NoneOrOne DEF Recorded, Matching, AtMostOne
  <2>2. c = CHOOSE x \in Matching(d, k) : TRUE
    BY <2>1
  <2> QED BY <1>1, <2>1, <2>2 DEF E1
<1> DEFINE code == <<"code", d[c].code>>
<1>4. code \in Table(d, "code") /\ d[code].state = "used" /\ d[code].inst = i /\ d[code].at = k[2]
  BY <1>2, <1>3 DEF Disagrees, Incomplete, Table
<1>5. PICK y \in Table(d, "token") : d[y].from = d[c].code
  BY <1>4 DEF Spent
<1>6. d[c].code # 0
  BY <1>4 DEF Typed, Table
<1>7. d[code].inst = d[y].inst /\ d[code].at = y[2]
  BY <1>5, <1>6 DEF Recorded
<1> QED BY <1>4, <1>5, <1>6, <1>7 DEF Issuers

(* A key with an owner is a candidate, and of its owner.                   *)
LEMMA OwnersAreCandidates ==
  ASSUME NEW d, Typed(d), Spent(d), Recorded(d), NEW k \in Keys(d), d[k].owner # 0
  PROVE  Candidates(d, k) = {d[k].owner}
<1> DEFINE c    == <<"cut", k[2]>>
           code == <<"code", d[c].code>>
           i    == d[k].owner
<1>1. RecordOf(d, k) /\ HeartbeatInstallations(d, k) \subseteq {Inst(i)} /\ AtMostOne(EnrollmentCuts(d))
  BY DEF Recorded
<1>2. c \in Matching(d, k) /\ d[c].inst = i
  BY <1>1 DEF RecordOf, Matching
<1>3. Matching(d, k) = {c} /\ Cardinality(Matching(d, k)) = 1 /\ ~(Cardinality(EnrollmentCuts(d)) > 1)
  <2>1. AtMostOne(Matching(d, k))
    BY <1>1 DEF Matching, AtMostOne
  <2> QED BY <1>1, <1>2, <2>1, NoneOrOne
<1>4. c = CHOOSE x \in Matching(d, k) : TRUE
  BY <1>3
<1>5. ~FitsSeveral(d, c)
  <2>1. AtMostOne({x \in Keys(d) : c \in Matching(d, x)})
    <3>1. ASSUME NEW x \in Keys(d), c \in Matching(d, x)
          PROVE  x = k
      BY <3>1 DEF Matching, Keys, Table, Typed
    <3> QED BY <3>1 DEF AtMostOne
  <2> QED BY <2>1, NoneOrOne DEF FitsSeveral
<1>6. code \in Table(d, "code") /\ d[code].inst = i /\ d[code].contract = 2 /\ d[code].state = "used" /\ d[code].at = k[2]
  BY <1>1 DEF RecordOf, Table
<1>7. ~Disagrees(d, k, c)
  BY <1>2, <1>6 DEF Disagrees
<1>8. ~Incomplete(d, c)
  <2>1. PICK y \in Table(d, "token") : d[y].from = d[c].code
    BY <1>6 DEF Spent
  <2>2. d[c].code # 0
    BY <1>6 DEF Typed, Table
  <2>3. d[y].inst = i
    BY <1>6, <2>1, <2>2 DEF Recorded
  <2>4. y \in BoundTokens(d)
    BY <2>1, <2>3 DEF BoundTokens
  <2>5. Inst(i) \in DOMAIN d
    BY DEF Typed, Refers, Keys, Table
  <2> QED BY <1>2, <1>6, <2>3, <2>4, <2>5 DEF Incomplete, Table
<1>9. HeartbeatInstallations(d, k) \in {{}, {Inst(d[c].inst)}}
  BY <1>1, <1>2
<1>10. E1(d, k) = "candidate"
  <2> HIDE DEF c, code
  <2> QED BY <1>3, <1>4, <1>5, <1>7, <1>8, <1>9 DEF E1
<1> QED BY <1>2, <1>3, <1>10 DEF Candidates

(* All that the inventory promises. *)
LEMMA RecordsMakeItRight == Typed(db) /\ Kept(db) /\ Spent(db) /\ Recorded(db) => InventoryIsRight
<1> SUFFICES ASSUME Typed(db), Kept(db), Spent(db), Recorded(db)
             PROVE  InventoryIsRight
  OBVIOUS
<1>1. ASSUME NEW k \in Keys(db), db[k].active, db[k].owner # 0, db[Org] = "active", KeyFlags(db, k) = {}
      PROVE  Recoverable(db, db[k].owner)
  <2>1. k \in ActiveKeys(db) /\ Inst(db[k].owner) \in DOMAIN db /\ db[Inst(db[k].owner)].contract = 2
    BY <1>1 DEF ActiveKeys, Keys, Typed, Refers, Table
  <2>2. ActiveKeys(db) = {k} /\ Cardinality(ActiveKeys(db)) = 1
    BY <2>1, NoneOrOne DEF Kept
  <2>3. Owners(db) = {db[k].owner}
    BY <2>2 DEF Owners
  <2>4. Serving(db, db[k].owner)
    <3> SUFFICES ASSUME ~Serving(db, db[k].owner)
                 PROVE  "owner_installation_not_usable" \in KeyFlags(db, k)
      BY <1>1
    <3> QED BY <1>1 DEF KeyFlags
  <2> QED BY <1>1, <2>1, <2>2, <2>3, <2>4 DEF Recoverable, Enrollable, Usable, Serving
<1>2. ~(Cardinality(ActiveKeys(db)) > 1) /\ ~(Cardinality(EnrollmentCuts(db)) > 1)
  BY NoneOrOne DEF Kept, Recorded
<1>3. \A k \in BoundTokens(db) : Inst(db[k].inst) \in InstRows(db)
  BY DEF BoundTokens, Typed, Refers, InstRows, Table, Inst
<1>4. BranchFlags(db) \cap {"multiple_active_keys", "bound_token_installation_outside_this_branch",
                            "several_enrollment_cutovers"} = {}
  BY <1>2, <1>3 DEF BranchFlags
<1> QED BY <1>1, <1>4, CandidatesIssued, OwnersAreCandidates DEF InventoryIsRight

-----------------------------------------------------------------------------
(* The statements of a transaction.                                        *)

(* A row that records nothing: no token for a code, no key with an owner,  *)
(* and nothing is heard of.                                                *)
Plain(t, r, v, n) ==
  /\ r[1] = "code" => n \notin DOMAIN put[t]
  /\ r = n => v.from = 0
  /\ r = <<"key", New(t)>> => v.owner = 0
  /\ r[1] \in {"key", "inst"} =>
       v.heard = IF r \in DOMAIN put[t] THEN put[t][r].heard ELSE IF r \in DOMAIN db THEN db[r].heard ELSE 0

(* Such a row leaves the rest together. *)
LEMMA PlainRow ==
  ASSUME Shape, NEW t \in Tx, TxInv(t), Unheard(t), LeftTogether(t), Step(t), NEW r, NEW v,
         put'[t] = Over(One(r, v), put[t]), Plain(t, r, v, <<"token", New(t)>>)
  PROVE  LeftTogether(t)'
<1> DEFINE n == <<"token", New(t)>>
           k == <<"key", New(t)>>
<1>1. db' = db /\ op'[t] = op[t] /\ New(t)' = New(t) /\ New(t) # 0
  BY StepIsStatement, StatementFrame, NewIsNew DEF New
<1>2. /\ DOMAIN put'[t] = DOMAIN put[t] \cup {r} /\ put'[t][r] = v
      /\ \A x \in DOMAIN put[t] : x # r => put'[t][x] = put[t][x]
  <2>1. put'[t] = Over(One(r, v), put[t])
    OBVIOUS
  <2> QED BY ONLY <2>1 DEF Over, One
<1>3. pc[t] \notin {"commit", "done"}
  BY StepOfKind, StepIsStatement DEF Statement, Running
<1>4. Dates(t)'
  <2> SUFFICES ASSUME n \in DOMAIN put'[t], put'[t][n].from # 0
               PROVE  LET c == <<"code", put'[t][n].from>> IN
                      c \in DOMAIN put'[t] /\ put'[t][c].at = New(t) /\ put'[t][n].inst = put'[t][c].inst
    BY <1>1 DEF Dates
  <2>1. n # r /\ n \in DOMAIN put[t] /\ put'[t][n] = put[t][n]
    BY <1>2 DEF Plain
  <2>2. <<"code", put[t][n].from>> # r
    BY <2>1 DEF Plain
  <2>3. LET c == <<"code", put[t][n].from>> IN
        c \in DOMAIN put[t] /\ put[t][c].at = New(t) /\ put[t][n].inst = put[t][c].inst
    BY <2>1 DEF LeftTogether, Dates
  <2> HIDE DEF n
  <2> QED BY <1>2, <2>1, <2>2, <2>3
<1>5. Records(t)'
  <2>1. k \notin DOMAIN put[t]
    BY <1>3 DEF TxInv, NewKey
  <2>2. k \in DOMAIN put'[t] => put'[t][k].owner = 0
    BY <1>2, <2>1 DEF Plain
  <2> QED BY <1>1, <2>2 DEF Records
<1>6. Hears(t)'
  <2> SUFFICES ASSUME NEW x \in DOMAIN put'[t], x[1] \in {"key", "inst"}
               PROVE  HeardAt(t, x, put'[t][x].heard)
    BY <1>1 DEF Hears, HeardAt
  <2>1. CASE x \in DOMAIN put[t]
    <3>1. put'[t][x].heard = put[t][x].heard
      BY <1>2, <2>1 DEF Plain
    <3> QED BY <2>1, <3>1 DEF LeftTogether, Hears
  <2>2. CASE x \notin DOMAIN put[t]
    <3>1. put'[t][x].heard = IF x \in DOMAIN db THEN db[x].heard ELSE 0
      BY <1>2, <2>2 DEF Plain
    <3>2. x \in DOMAIN db => db[x].heard # New(t)
      BY <1>3 DEF Unheard, InstRows, Keys, Table
    <3> QED BY <1>1, <3>1, <3>2 DEF HeardAt
  <2> QED BY <2>1, <2>2
<1> QED BY <1>4, <1>5, <1>6 DEF LeftTogether

(* No row does. *)
LEMMA NoRow ==
  ASSUME Shape, NEW t \in Tx, LeftTogether(t), Step(t), put'[t] = Over(<<>>, put[t])
  PROVE  LeftTogether(t)'
<1>1. db' = db /\ op'[t] = op[t] /\ New(t)' = New(t) /\ put'[t] = put[t]
  BY StepIsStatement, StatementFrame, NoRowWritten DEF New
<1> QED BY <1>1 DEF LeftTogether, Dates, Records, Hears, HeardAt

(* Nor does a row of another table. *)
LEMMA OtherRow ==
  ASSUME Shape, NEW t \in Tx, TxInv(t), Unheard(t), LeftTogether(t), Step(t), NEW r, NEW v,
         put'[t] = Over(One(r, v), put[t]), r[1] \in {"org", "branch", "token", "cut"},
         r = <<"token", New(t)>> => v.from = 0
  PROVE  LeftTogether(t)'
<1>1. r # <<"key", New(t)>>
  OBVIOUS
<1>2. Plain(t, r, v, <<"token", New(t)>>)
  BY <1>1 DEF Plain
<1> QED BY <1>2, PlainRow

(* A row that a report hears of. *)
LEMMA HeardRow ==
  ASSUME Shape, NEW t \in Tx, TxInv(t), LeftTogether(t), Step(t), NEW r \in DOMAIN db, NEW v,
         put'[t] = Over(One(r, v), put[t]), r[1] \in {"key", "inst"}, HeardAt(t, r, v.heard)
  PROVE  LeftTogether(t)'
<1>1. db' = db /\ op'[t] = op[t] /\ New(t)' = New(t)
  BY StepIsStatement, StatementFrame DEF New
<1>2. /\ DOMAIN put'[t] = DOMAIN put[t] \cup {r} /\ put'[t][r] = v
      /\ \A x \in DOMAIN put[t] : x # r => put'[t][x] = put[t][x]
  <2>1. put'[t] = Over(One(r, v), put[t])
    OBVIOUS
  <2> QED BY ONLY <2>1 DEF Over, One
<1>3. pc[t] \notin {"commit", "done"}
  BY StepOfKind, StepIsStatement DEF Statement, Running
<1>4. Dates(t)'
  <2>1. \A i : <<"token", i>> # r /\ <<"code", i>> # r
    OBVIOUS
  <2> QED BY <1>1, <1>2, <2>1 DEF LeftTogether, Dates
<1>5. <<"key", New(t)>> \notin DOMAIN put'[t]
  <2>1. <<"key", New(t)>> \notin DOMAIN put[t] /\ r[2] # New(t)
    BY <1>3 DEF TxInv, NewKey, Fresh
  <2> QED BY <1>2, <2>1
<1>6. Records(t)'
  BY <1>1, <1>5 DEF Records
<1>7. Hears(t)'
  BY <1>1, <1>2 DEF LeftTogether, Hears, HeardAt
<1> QED BY <1>4, <1>6, <1>7 DEF LeftTogether

(* The statements that record nothing. *)
LEMMA PlainStatements ==
  ASSUME Shape, Typed(db), NEW t \in Tx, TxInv(t), Unheard(t), LeftTogether(t), Step(t),
         ~RedeemToken(t), ~RedeemKey(t), ~Beat(t), ~Contact(t)
  PROVE  LeftTogether(t)'
<1>1. CASE RedeemOrg(t) \/ RedeemCode(t) \/ RedeemScope(t) \/ RedeemBranch(t)
  <2>1. put'[t] = Over(<<>>, put[t])
    BY <1>1, GoDoes DEF RedeemOrg, RedeemCode, RedeemScope, RedeemBranch
  <2> QED BY <2>1, NoRow
<1>2. CASE GenerateHold(t) \/ RecoverOrg(t) \/ RecoverTokens(t) \/ OffboardNext(t) \/ OffboardEnd(t)
  <2>1. put'[t] = Over(<<>>, put[t])
    BY <1>2, GoDoes, SweepDoes DEF GenerateHold, RecoverOrg, RecoverTokens, OffboardNext, OffboardEnd
  <2> QED BY <2>1, NoRow
<1>3. CASE StatusBranch(t) \/ RevokeOrg(t) \/ GrantOrg(t) \/ IssueOrg(t) \/ Touch(t) \/ StoreEvents(t)
  <2>1. put'[t] = Over(<<>>, put[t])
    BY <1>3, GoDoes DEF StatusBranch, RevokeOrg, GrantOrg, IssueOrg, Touch, StoreEvents
  <2> QED BY <2>1, NoRow
<1>4. CASE SetLibrary(t) \/ OffboardOrg(t)
  <2>1. Org[1] = "org"
    BY DEF Org
  <2>2. \E v : put'[t] = Over(One(Org, v), put[t])
    BY <1>4, GoDoes, SweepDoes DEF SetLibrary, OffboardOrg
  <2> QED BY <2>1, <2>2, OtherRow
<1>5. CASE RevokeRow(t)
  <2>1. op[t].kind = "revoke" /\ pc[t] = "row" /\ put'[t] = Over(One(op[t].row, Ended(db, op[t].row)), put[t])
    BY <1>5, GoDoes DEF RevokeRow
  <2>2. op[t].row[1] = "token" /\ op[t].row # <<"token", New(t)>>
    BY <2>1 DEF TxInv, OpOk, Fresh, Table
  <2> QED BY <2>1, <2>2, OtherRow
<1>6. CASE GrantBranch(t) \/ RecoverHold(t)
  <2> DEFINE r == <<"token", New(t)>>
  <2>1. \E i : put'[t] = Over(One(r, [inst |-> i, active |-> TRUE, from |-> 0]), put[t])
    <3>1. CASE GrantBranch(t)
      <4>1. put'[t] = Over(One(r, [inst |-> 0, active |-> TRUE, from |-> 0]), put[t])
        BY <3>1, GoDoes DEF GrantBranch
      <4> QED BY <4>1
    <3>2. CASE RecoverHold(t)
      <4>1. put'[t] = Over(One(r, [inst |-> op[t].row[2], active |-> TRUE, from |-> 0]), put[t])
        BY <3>2, GoDoes DEF RecoverHold
      <4> QED BY <4>1
    <3> QED BY <1>6, <3>1, <3>2
  <2>2. PICK v : put'[t] = Over(One(r, v), put[t]) /\ v.from = 0
    BY <2>1
  <2>3. r[1] = "token"
    OBVIOUS
  <2> HIDE DEF r
  <2> QED BY <2>2, <2>3, OtherRow
<1>7. CASE CutoverInsert(t)
  <2>1. put'[t] = Over(One(<<"cut", New(t)>>, [by |-> "operator", code |-> 0, inst |-> 0]), put[t])
    BY <1>7, GoDoes DEF CutoverInsert
  <2> QED BY <2>1, OtherRow
<1>8. CASE BranchReady(t)
  <2>1. put'[t] = Over(One(Branch, "ready"), put[t]) /\ Branch[1] = "branch"
    BY <1>8, GoDoes DEF BranchReady, Branch
  <2> QED BY <2>1, OtherRow DEF Branch
<1>9. CASE GenerateInsert(t)
  <2> DEFINE r == <<"code", New(t)>>
  <2>1. op[t].kind = "generate" /\ \E v : put'[t] = Over(One(r, v), put[t])
    BY <1>9, GoDoes DEF GenerateInsert
  <2>2. PICK v : put'[t] = Over(One(r, v), put[t])
    BY <2>1
  <2>3. <<"token", New(t)>> \notin DOMAIN put[t]
    BY <2>1 DEF TxInv, SweepInv
  <2>4. Plain(t, r, v, <<"token", New(t)>>)
    BY <2>3 DEF Plain
  <2> HIDE DEF r
  <2> QED BY <2>2, <2>4, PlainRow
<1>10. CASE IssueBranch(t)
  <2> DEFINE r == <<"key", New(t)>>
             v == [owner |-> 0, active |-> TRUE, heard |-> 0]
  <2>1. op[t].kind = "issue" /\ pc[t] = "branch" /\ put'[t] = Over(One(r, v), put[t])
    BY <1>10, GoDoes DEF IssueBranch
  <2>2. r \notin DOMAIN put[t] /\ r \notin DOMAIN db
    BY <2>1 DEF TxInv, SingleInv, Single, Fresh
  <2>3. Plain(t, r, v, <<"token", New(t)>>)
    BY <2>2 DEF Plain
  <2> HIDE DEF r, v
  <2> QED BY <2>1, <2>3, PlainRow
<1>11. CASE CreatePlace(t)
  <2> DEFINE r == Inst(New(t))
             v == [status |-> "provisioning", contract |-> op[t].arg, heard |-> 0]
  <2>1. op[t].kind = "create" /\ pc[t] = "place" /\ put'[t] = Over(One(r, v), put[t])
    BY <1>11, GoDoes DEF CreatePlace
  <2>2. r \notin DOMAIN put[t] /\ r \notin DOMAIN db /\ r[1] = "inst" /\ v.heard = 0
    BY <2>1 DEF TxInv, SingleInv, Single, Fresh, Inst
  <2> HIDE DEF r, v
  <2>3. Plain(t, r, v, <<"token", New(t)>>)
    BY <2>2 DEF Plain
  <2> QED BY <2>1, <2>3, PlainRow
<1>12. CASE StatusRow(t) \/ RetireRow(t)
  <2> DEFINE r == op[t].row
             v == IF op[t].kind = "status" THEN [db[r] EXCEPT !.status = op[t].arg] ELSE Ended(db, r)
  <2>1. op[t].kind \in {"status", "retire"} /\ pc[t] = "row" /\ put'[t] = Over(One(r, v), put[t])
    BY <1>12, GoDoes DEF StatusRow, RetireRow
  <2>2. /\ DOMAIN put[t] = {} /\ r \in DOMAIN db /\ r[2] # New(t)
        /\ op[t].kind = "status" => r[1] = "inst"
        /\ op[t].kind = "retire" => r[1] = "key"
    BY <2>1 DEF TxInv, SingleInv, Single, OpOk, Fresh, Table
  <2>3. v.heard = db[r].heard
    <3>1. RowOf(r, db[r])
      BY <2>2, RowsArePairs
    <3>2. CASE r[1] = "inst"
      BY <2>1, <2>2, <3>1, <3>2 DEF RowOf
    <3>3. CASE r[1] = "key"
      BY <2>1, <2>2, <3>1, <3>3 DEF RowOf, Ended
    <3> QED BY <2>1, <2>2, <3>2, <3>3
  <2> HIDE DEF r, v
  <2>4. Plain(t, r, v, <<"token", New(t)>>)
    BY <2>1, <2>2, <2>3 DEF Plain
  <2> QED BY <2>1, <2>4, PlainRow
<1>13. CASE SweepRow(t)
  <2> DEFINE r == First(todo[t])
             v == Ended(View(t), r)
  <2>1. /\ op[t].kind \in Sweeps /\ pc[t] = "sweep" /\ r \in DOMAIN db
        /\ r[1] \in {"inst", "code", "token", "key"} /\ r[2] # New(t)
        /\ op[t].kind = "recover" => r[1] = "token"
        /\ put'[t] = Over(IF Live(View(t), r) THEN One(r, v) ELSE <<>>, put[t])
    BY <1>13, SweepRowEnds
  <2>2. CASE ~Live(View(t), r)
    <3>1. put'[t] = Over(<<>>, put[t])
      BY <2>1, <2>2
    <3> QED BY <3>1, NoRow
  <2>3. CASE Live(View(t), r)
    <3>1. put'[t] = Over(One(r, v), put[t])
      BY <2>1, <2>3
    <3>2. r[1] = "code" => <<"token", New(t)>> \notin DOMAIN put[t]
      <4>1. op[t].kind = "generate" => \A x \in DOMAIN put[t] : x[1] = "code"
        BY DEF TxInv, SweepInv
      <4>2. op[t].kind = "offboard" => \A x \in DOMAIN put[t] : x \in DOMAIN db /\ x[2] # New(t)
        BY <2>1 DEF TxInv, SweepInv, Fresh
      <4> HIDE DEF r
      <4> QED BY <2>1, <4>1, <4>2 DEF Sweeps
    <3>3. RowOf(r, View(t)[r]) /\ View(t)[r] = IF r \in DOMAIN put[t] THEN put[t][r] ELSE db[r]
      <4> HIDE DEF r
      <4>1. View(t)[r] = IF r \in DOMAIN put[t] THEN put[t][r] ELSE db[r]
        BY <2>1, ViewRows
      <4>2. r \in DOMAIN put[t] => RowOf(r, put[t][r])
        BY DEF TxInv, Written, Mine
      <4>3. RowOf(r, db[r])
        BY <2>1, RowsArePairs
      <4> QED BY <4>1, <4>2, <4>3
    <3>4. r[1] \in {"key", "inst"} => v.heard = View(t)[r].heard
      <4> HIDE DEF r
      <4>1. CASE r[1] = "inst"
        BY <3>3, <4>1 DEF RowOf, Ended
      <4>2. CASE r[1] = "key"
        BY <3>3, <4>2 DEF RowOf, Ended
      <4> QED BY <4>1, <4>2
    <3> HIDE DEF r, v
    <3>5. Plain(t, r, v, <<"token", New(t)>>)
      BY <2>1, <3>2, <3>3, <3>4 DEF Plain
    <3> QED BY <3>1, <3>5, PlainRow
  <2> QED BY <2>2, <2>3
<1> QED BY <1>1, <1>2, <1>3, <1>4, <1>5, <1>6, <1>7, <1>8, <1>9, <1>10, <1>11, <1>12, <1>13 DEF Step

(* A report hears of a key, and of an installation. *)
LEMMA Reported ==
  ASSUME Shape, Typed(db), NEW t \in Tx, TxInv(t), LeftTogether(t), Step(t), Beat(t) \/ Contact(t)
  PROVE  LeftTogether(t)'
<1>1. CASE Beat(t)
  <2> DEFINE r == op[t].arg
             v == [db[r] EXCEPT !.heard = New(t)]
  <2>1. op[t].kind = "status_v2" /\ put'[t] = Over(One(r, v), put[t])
    BY <1>1, GoDoes DEF Beat
  <2>2. r \in DOMAIN db /\ r[1] = "key"
    BY <2>1 DEF TxInv, OpOk, Table
  <2>3. v.heard = New(t)
    <3>1. RowOf(r, db[r])
      BY <2>2, RowsArePairs
    <3> QED BY <2>2, <3>1 DEF RowOf
  <2> HIDE DEF v
  <2>4. HeardAt(t, r, v.heard)
    BY <2>1, <2>2, <2>3 DEF HeardAt
  <2> HIDE DEF r
  <2> QED BY <2>1, <2>2, <2>4, HeardRow
<1>2. CASE Contact(t)
  <2> DEFINE r == Inst(db[op[t].row].inst)
             v == [db[r] EXCEPT !.status = "active", !.heard = New(t)]
  <2>1. op[t].kind \in {"status_v1", "status_v2"} /\ pc[t] = "contact" /\ put'[t] = Over(One(r, v), put[t])
    BY <1>2, GoDoes DEF Contact
  <2>2. r \in DOMAIN db /\ r[1] = "inst"
    <3>1. op[t].row \in DOMAIN db /\ op[t].row[1] = "token" /\ db[op[t].row].inst # 0
      BY <2>1 DEF TxInv, OpOk, Table
    <3> QED BY <3>1, RowsArePairs DEF Refers, Inst
  <2>3. v.heard = New(t)
    <3>1. RowOf(r, db[r])
      BY <2>2, RowsArePairs
    <3> QED BY <2>2, <3>1 DEF RowOf
  <2> HIDE DEF v
  <2>4. HeardAt(t, r, v.heard)
    BY <2>1, <2>2, <2>3 DEF HeardAt
  <2> HIDE DEF r
  <2> QED BY <2>1, <2>2, <2>4, HeardRow
<1> QED BY <1>1, <1>2

(* Whose statement a report's is. *)
LEMMA StepOfReport ==
  ASSUME NEW t \in Tx, Step(t), op[t].kind = "status_v2"
  PROVE  Touch(t) \/ Beat(t) \/ Contact(t)
<1> USE DEF At
<1>1. ~(RedeemOrg(t) \/ RedeemCode(t) \/ RedeemScope(t) \/ RedeemBranch(t) \/ RedeemToken(t) \/ RedeemKey(t))
  BY DEF RedeemOrg, RedeemCode, RedeemScope, RedeemBranch, RedeemToken, RedeemKey
<1>2. ~(GenerateHold(t) \/ GenerateInsert(t) \/ RecoverOrg(t) \/ RecoverTokens(t) \/ RecoverHold(t))
  BY DEF GenerateHold, GenerateInsert, RecoverOrg, RecoverTokens, RecoverHold
<1>3. ~(SweepRow(t) \/ OffboardOrg(t) \/ OffboardNext(t) \/ OffboardEnd(t))
  BY DEF SweepRow, OffboardOrg, OffboardNext, OffboardEnd
<1>4. ~(SetLibrary(t) \/ StatusBranch(t) \/ StatusRow(t) \/ CreatePlace(t) \/ RevokeOrg(t) \/ RevokeRow(t))
  BY DEF SetLibrary, StatusBranch, StatusRow, CreatePlace, RevokeOrg, RevokeRow
<1>5. ~(GrantOrg(t) \/ GrantBranch(t) \/ IssueOrg(t) \/ IssueBranch(t) \/ RetireRow(t) \/ CutoverInsert(t))
  BY DEF GrantOrg, GrantBranch, IssueOrg, IssueBranch, RetireRow, CutoverInsert
<1>6. ~(StoreEvents(t) \/ BranchReady(t))
  BY DEF StoreEvents, BranchReady
<1> HIDE DEF At
<1> QED BY <1>1, <1>2, <1>3, <1>4, <1>5, <1>6 DEF Step

(* The token of a redemption comes with its code. *)
LEMMA TokenLeft ==
  ASSUME Shape, Typed(db), NEW t \in Tx, TxInv(t), RedeemToken(t)
  PROVE  LeftTogether(t)' /\ Claimed(t)'
<1> DEFINE c == op[t].row
           n == <<"token", New(t)>>
           v == [db[c] EXCEPT !.state = "used", !.at = New(t)]
           w == [inst |-> InstOf(t), active |-> TRUE, from |-> c[2]]
<1>1. /\ op[t].kind = "redeem" /\ pc[t] = "token" /\ db' = db /\ op'[t] = op[t]
      /\ put'[t] = Over(Over(One(c, v), One(n, w)), put[t])
  BY GoDoes DEF RedeemToken
<1>2. DOMAIN put[t] = {} /\ c \in DOMAIN db /\ c[1] = "code"
  BY <1>1 DEF TxInv, RedeemInv, OpOk, Table
<1>3. c = <<"code", c[2]>> /\ c # n
      /\ db[c] \in [inst : Nat, contract : {1, 2}, state : {"unused", "used", "revoked"}, at : Nat]
  BY <1>2, RowsArePairs DEF RowOf
<1>4. /\ v.state = "used" /\ v.at = New(t) /\ v.inst = db[c].inst
      /\ w.inst = db[c].inst /\ w.from = c[2] /\ New(t)' = New(t)
  BY <1>1, <1>3 DEF New, InstOf
<1>5. DOMAIN put'[t] = {c, n} /\ put'[t][c] = v /\ put'[t][n] = w
  <2>1. put'[t] = Over(Over(One(c, v), One(n, w)), put[t]) /\ DOMAIN put[t] = {} /\ c # n
    BY <1>1, <1>2, <1>3
  <2> HIDE DEF c, n, v, w
  <2> QED BY ONLY <2>1 DEF Over, One
<1> HIDE DEF v, w
<1>6. Claimed(t)'
  <2>1. op'[t].row \in DOMAIN put'[t] /\ put'[t][op'[t].row] = v
    BY <1>1, <1>5
  <2> QED BY <1>4, <2>1 DEF Claimed
<1>7. Dates(t)'
  <2>1. <<"code", put'[t][n].from>> = c
    BY <1>3, <1>4, <1>5
  <2>2. LET x == <<"code", put'[t][n].from>> IN
        x \in DOMAIN put'[t] /\ put'[t][x].at = New(t) /\ put'[t][n].inst = put'[t][x].inst
    BY <1>4, <1>5, <2>1
  <2>3. <<"token", New(t)'>> = n
    BY <1>4
  <2> HIDE DEF n, c
  <2> QED BY <1>4, <2>2, <2>3 DEF Dates
<1>8. Records(t)' /\ Hears(t)'
  <2>1. \A x \in DOMAIN put'[t] : x[1] \in {"code", "token"}
    BY <1>2, <1>5
  <2> HIDE DEF n, c
  <2> QED BY <2>1 DEF Records, Hears
<1> QED BY <1>6, <1>7, <1>8 DEF LeftTogether

(* The key of a redemption comes with its record. *)
LEMMA KeyLeft ==
  ASSUME Shape, Typed(db), NEW t \in Tx, TxInv(t), LeftTogether(t), Claimed(t), RedeemKey(t)
  PROVE  LeftTogether(t)'
<1> DEFINE c == op[t].row
           i == db[c].inst
           k == <<"key", New(t)>>
           q == <<"cut", New(t)>>
           v == [owner |-> InstOf(t), active |-> TRUE, heard |-> 0]
           w == [by |-> "enrollment", code |-> c[2], inst |-> InstOf(t)]
<1>1. /\ op[t].kind = "redeem" /\ pc[t] = "key" /\ db' = db /\ op'[t] = op[t]
      /\ put'[t] = Over(Over(One(k, v), One(q, w)), put[t])
  BY GoDoes DEF RedeemKey
<1>2. /\ \A x \in DOMAIN put[t] : x[1] \in {"code", "token"}
      /\ c \in DOMAIN db /\ c[1] = "code" /\ db[c].contract = 2 /\ c[2] # New(t)
  BY <1>1 DEF TxInv, RedeemInv, OpOk, Table, Fresh
<1>3. c = <<"code", c[2]>>
  BY <1>2, RowsArePairs
<1>4. c \in DOMAIN put[t] /\ put[t][c].state = "used" /\ put[t][c].at = New(t)
  BY <1>1 DEF Claimed
<1>5. put[t][c].inst = i /\ put[t][c].contract = 2
  <2>1. Keeps(c, db[c], put[t][c])
    BY <1>2, <1>4 DEF TxInv, Written, Mine
  <2> QED BY <1>2, <2>1 DEF Keeps
<1>6. /\ v.owner = i /\ v.heard = 0 /\ w.by = "enrollment" /\ w.code = c[2] /\ w.inst = i
      /\ New(t)' = New(t) /\ New(t) # 0 /\ k # q
  BY <1>1, NewIsNew DEF New, InstOf
<1>7. /\ DOMAIN put'[t] = DOMAIN put[t] \cup {k, q} /\ put'[t][k] = v /\ put'[t][q] = w
      /\ \A x \in DOMAIN put[t] : put'[t][x] = put[t][x]
  <2>1. /\ put'[t] = Over(Over(One(k, v), One(q, w)), put[t]) /\ k # q
        /\ \A x \in DOMAIN put[t] : x \notin {k, q}
    BY <1>1, <1>2, <1>6
  <2> HIDE DEF k, q, v, w
  <2> QED BY ONLY <2>1 DEF Over, One
<1> HIDE DEF v, w
<1>8. Dates(t)'
  <2>1. \A x : <<"token", x>> \notin {k, q} /\ <<"code", x>> \notin {k, q}
    OBVIOUS
  <2> HIDE DEF k, q
  <2> QED BY <1>6, <1>7, <2>1 DEF LeftTogether, Dates
<1>9. Records(t)'
  <2>1. <<"code", put'[t][q].code>> = c /\ c \in DOMAIN put'[t] /\ put'[t][c] = put[t][c]
    BY <1>3, <1>4, <1>6, <1>7
  <2>2. LET code == <<"code", put'[t][q].code>> IN
        /\ q \in DOMAIN put'[t] /\ put'[t][q].by = "enrollment" /\ put'[t][q].inst = put'[t][k].owner
        /\ code \in DOMAIN put'[t] /\ put'[t][code].inst = put'[t][k].owner /\ put'[t][code].contract = 2
        /\ put'[t][code].state = "used" /\ put'[t][code].at = New(t)
    <3> HIDE DEF k, q, c, i
    <3> QED BY <1>4, <1>5, <1>6, <1>7, <2>1
  <2>3. <<"key", New(t)'>> = k /\ <<"cut", New(t)'>> = q
    BY <1>6
  <2> HIDE DEF k, q, c, i
  <2> QED BY <1>6, <2>2, <2>3 DEF Records
<1>10. Hears(t)'
  <2> SUFFICES ASSUME NEW x \in DOMAIN put'[t], x[1] \in {"key", "inst"}
               PROVE  HeardAt(t, x, put'[t][x].heard)
    BY <1>1, <1>6 DEF Hears, HeardAt
  <2>1. x = k
    BY <1>2, <1>7
  <2>2. put'[t][x].heard = 0
    BY <1>6, <1>7, <2>1
  <2>3. x \notin DOMAIN db
    BY <1>1, <2>1 DEF TxInv, Fresh
  <2> QED BY <1>1, <1>6, <2>2, <2>3 DEF HeardAt
<1> QED BY <1>8, <1>9, <1>10 DEF LeftTogether

(* Whose key a report has, it has looked up; nobody else is at a code. *)
LEMMA PlacesLeft ==
  ASSUME Shape, NEW t \in Tx, TxInv(t), Paired(t), Step(t)
  PROVE  Paired(t)' /\ (RedeemToken(t) \/ Claimed(t)')
<1>1. db' = db /\ op'[t] = op[t] /\ New(t)' = New(t)
  BY StepIsStatement, StatementFrame DEF New
<1>2. Paired(t)'
  <2> SUFFICES ASSUME op[t].kind = "status_v2", pc'[t] \in {"beat", "contact", "commit"}
               PROVE  db[op[t].arg].owner \in {0, db[op[t].row].inst}
    BY <1>1 DEF Paired
  <2>1. Touch(t) \/ Beat(t) \/ Contact(t)
    BY StepOfReport
  <2>2. CASE Touch(t)
    BY <2>2 DEF Touch, At, KeyServes
  <2>3. CASE Beat(t) \/ Contact(t)
    <3>1. pc[t] \in {"beat", "contact"}
      BY <2>3 DEF Beat, Contact, At
    <3> QED BY <3>1 DEF Paired
  <2> QED BY <2>1, <2>2, <2>3
<1>3. ASSUME ~RedeemToken(t)
      PROVE  Claimed(t)'
  <2> SUFFICES ASSUME op[t].kind = "redeem", pc'[t] = "key"
               PROVE  FALSE
    BY <1>1 DEF Claimed
  <2>1. RedeemOrg(t) \/ RedeemCode(t) \/ RedeemScope(t) \/ RedeemBranch(t) \/ RedeemKey(t)
    BY <1>3, StepOfKind
  <2>2. CASE RedeemOrg(t)
    BY <2>2, GoDoes DEF RedeemOrg
  <2>3. CASE RedeemCode(t)
    BY <2>3, GoDoes DEF RedeemCode
  <2>4. CASE RedeemScope(t)
    <3> DEFINE next == IF db[op[t].row].contract = 2 THEN "branch" ELSE "token"
    <3>1. At(t, "redeem", "scope") /\ Go(t, next, <<>>) /\ next # "key"
      BY <2>4 DEF RedeemScope
    <3> HIDE DEF next
    <3> QED BY <3>1, GoDoes
  <2>5. CASE RedeemBranch(t)
    BY <2>5, GoDoes DEF RedeemBranch
  <2>6. CASE RedeemKey(t)
    BY <2>6, GoDoes DEF RedeemKey
  <2> QED BY <2>1, <2>2, <2>3, <2>4, <2>5, <2>6
<1> QED BY <1>2, <1>3

(* All of it. *)
LEMMA StepKeepsR ==
  ASSUME Shape, Typed(db), NEW t \in Tx, TxInv(t), RTx(t), Step(t)
  PROVE  RTx(t)'
<1>1. Unheard(t)'
  <2>1. db' = db /\ New(t)' = New(t) /\ pc[t] # "done"
    BY StepIsStatement, StatementFrame DEF New, Statement, Running
  <2> QED BY <2>1 DEF RTx, Unheard
<1>2. Paired(t)' /\ (RedeemToken(t) \/ Claimed(t)')
  BY PlacesLeft DEF RTx
<1>3. LeftTogether(t)' /\ Claimed(t)'
  <2>1. CASE RedeemToken(t)
    BY <2>1, TokenLeft
  <2>2. CASE RedeemKey(t)
    <3>1. ~RedeemToken(t)
      BY <2>2 DEF RedeemKey, RedeemToken, At
    <3> QED BY <1>2, <2>2, <3>1, KeyLeft DEF RTx
  <2>3. CASE Beat(t) \/ Contact(t)
    <3>1. ~RedeemToken(t)
      BY <2>3 DEF Beat, Contact, RedeemToken, At
    <3> QED BY <1>2, <2>3, <3>1, Reported DEF RTx
  <2>4. CASE ~RedeemToken(t) /\ ~RedeemKey(t) /\ ~Beat(t) /\ ~Contact(t)
    BY <1>2, <2>4, PlainStatements DEF RTx
  <2> QED BY <2>1, <2>2, <2>3, <2>4
<1> QED BY <1>1, <1>2, <1>3 DEF RTx

-----------------------------------------------------------------------------
(* The beginning of a transaction, its end, and the steps of others.       *)

(* What changes nothing of a transaction keeps its invariant. *)
LEMMA SameStaysR ==
  ASSUME NEW u \in Tx, RTx(u), db' = db, op'[u] = op[u], pc'[u] = pc[u], put'[u] = put[u]
  PROVE  RTx(u)'
<1>1. db' = db /\ op'[u] = op[u] /\ pc'[u] = pc[u] /\ put'[u] = put[u] /\ New(u)' = New(u)
  BY DEF New
<1>2. Unheard(u)' /\ Claimed(u)' /\ Paired(u)'
  BY <1>1 DEF RTx, Unheard, Claimed, Paired
<1>3. Dates(u)' /\ Records(u)'
  BY <1>1 DEF RTx, LeftTogether, Dates, Records
<1>4. Hears(u)'
  BY <1>1 DEF RTx, LeftTogether, Hears, HeardAt
<1> QED BY <1>2, <1>3, <1>4 DEF RTx, LeftTogether

(* A transaction that begins has written nothing and is at the beginning.  *)
LEMMA BeginKeepsR ==
  ASSUME Shape, NEW t \in Tx, \A u \in Tx : RTx(u), Begin(t)
  PROVE  \A u \in Tx : RTx(u)'
<1>1. PICK o : op' = [op EXCEPT ![t] = o] /\ pc' = [pc EXCEPT ![t] = FirstStatement(o)]
  BY DEF Begin
<1>2. pc[t] = "idle" /\ db' = db /\ put' = put
  BY DEF Begin, Waiting
<1>3. DOMAIN put[t] = {}
  BY <1>2 DEF Shape, Running
<1>4. op'[t] = o /\ pc'[t] = FirstStatement(o) /\ FirstStatement(o) \notin {"key", "beat", "contact", "commit"}
  BY <1>1 DEF Shape, FirstStatement
<1>5. RTx(t)'
  <2>1. Unheard(t)'
    <3>1. db' = db /\ New(t)' = New(t) /\ pc[t] # "done"
      BY <1>2 DEF New
    <3> QED BY <3>1 DEF RTx, Unheard
  <2>2. Claimed(t)' /\ Paired(t)'
    BY <1>4 DEF Claimed, Paired
  <2>3. LeftTogether(t)'
    BY <1>2, <1>3 DEF LeftTogether, Dates, Records, Hears
  <2> QED BY <2>1, <2>2, <2>3 DEF RTx
<1>6. ASSUME NEW u \in Tx, u # t
      PROVE  RTx(u)'
  <2>1. db' = db /\ op'[u] = op[u] /\ pc'[u] = pc[u] /\ put'[u] = put[u]
    BY <1>1, <1>2, <1>6 DEF Shape
  <2> QED BY <2>1, SameStaysR
<1> QED BY <1>5, <1>6

(* One that is over has nothing to answer for. *)
LEMMA EndKeepsR ==
  ASSUME Shape, NEW t \in Tx, End(t)
  PROVE  RTx(t)'
<1>1. op'[t].kind = "none" /\ pc'[t] = "done" /\ DOMAIN put'[t] = {}
  BY DEF End, Shape
<1> QED BY <1>1 DEF RTx, Unheard, Claimed, Paired, LeftTogether, Dates, Records, Hears

-----------------------------------------------------------------------------
(* A commit.                                                               *)

(* What a commit does to what the inventory reads: codes that were used    *)
(* and records stay, and what was heard of is of before or of its time.    *)
LEMMA CommitLeaves ==
  ASSUME IInv, CInv, RInv, NEW t \in Tx, Commit(t)
  PROVE  /\ \A c \in DOMAIN db : c[1] = "code" /\ db[c].state = "used" => db'[c] = db[c]
         /\ \A c \in DOMAIN db : c[1] = "cut" => db'[c] = db[c]
         /\ \A r \in DOMAIN db' : r[1] \in {"key", "inst"} /\ db'[r].heard = New(t) => HeardAt(t, r, New(t)) /\ r \in DOMAIN put[t]
         /\ \A r \in DOMAIN db : r[1] \in {"key", "inst"} => db'[r].heard = New(t) \/ db'[r].heard = db[r].heard
         /\ \A r \in DOMAIN db' : r[1] \in {"key", "inst"} /\ r \notin DOMAIN db => db'[r].heard \in {0, New(t)}
<1>1. /\ DOMAIN db' = DOMAIN put[t] \cup DOMAIN db
      /\ \A r \in DOMAIN put[t] : db'[r] = put[t][r] /\ Mine(t, r, put[t][r])
      /\ \A r \in DOMAIN db : r \notin DOMAIN put[t] => db'[r] = db[r]
      /\ \A r \in DOMAIN put[t] : r \in DOMAIN db => r[2] # New(t)
      /\ \A r \in DOMAIN db : Keeps(r, db[r], db'[r])
  BY CommitRows DEF IInv
<1>2. /\ Spends(t) /\ NewCut(t) /\ Hears(t) /\ Unheard(t) /\ pc[t] # "done"
  BY DEF IInv, TxInv, CInv, CTx, RInv, RTx, LeftTogether, Commit
<1>3. ASSUME NEW c \in DOMAIN db, c[1] = "code", db[c].state = "used"
      PROVE  db'[c] = db[c]
  <2>1. c \in DOMAIN put[t] => put[t][c].state = "used"
    BY <1>1, <1>3 DEF Keeps
  <2>2. c \notin DOMAIN put[t]
    BY <1>2, <1>3, <2>1 DEF Spends
  <2> QED BY <1>1, <2>2
<1>4. ASSUME NEW c \in DOMAIN db, c[1] = "cut"
      PROVE  db'[c] = db[c]
  <2>1. c \notin DOMAIN put[t]
    BY <1>1, <1>2, <1>4 DEF NewCut
  <2> QED BY <1>1, <2>1
<1>5. \A r \in DOMAIN put[t] : r[1] \in {"key", "inst"} => HeardAt(t, r, put[t][r].heard)
  BY <1>2 DEF Hears
<1>6. \A r \in DOMAIN db : r[1] \in {"key", "inst"} => db[r].heard # New(t)
  BY <1>2 DEF Unheard, InstRows, Keys, Table
<1>7. ASSUME NEW r \in DOMAIN db', r[1] \in {"key", "inst"}, db'[r].heard = New(t)
      PROVE  HeardAt(t, r, New(t)) /\ r \in DOMAIN put[t]
  <2>1. r \in DOMAIN put[t]
    BY <1>1, <1>6, <1>7
  <2> QED BY <1>1, <1>5, <1>7, <2>1
<1>8. ASSUME NEW r \in DOMAIN db, r[1] \in {"key", "inst"}
      PROVE  db'[r].heard = New(t) \/ db'[r].heard = db[r].heard
  BY <1>1, <1>5, <1>8 DEF HeardAt
<1>9. ASSUME NEW r \in DOMAIN db', r[1] \in {"key", "inst"}, r \notin DOMAIN db
      PROVE  db'[r].heard \in {0, New(t)}
  BY <1>1, <1>5, <1>9 DEF HeardAt
<1> QED BY <1>3, <1>4, <1>7, <1>8, <1>9

(* The record of a key stays, and an owned key is heard of with its owner. *)
LEMMA CommitRecords ==
  ASSUME IInv, CInv, RInv, NEW t \in Tx, Commit(t), NEW k \in Keys(db'), db'[k].owner # 0
  PROVE  RecordOf(db', k) /\ HeartbeatInstallations(db', k) \subseteq {Inst(db'[k].owner)}
<1>1. /\ DOMAIN db' = DOMAIN put[t] \cup DOMAIN db
      /\ \A r \in DOMAIN put[t] : db'[r] = put[t][r]
      /\ \A r \in DOMAIN db : r \notin DOMAIN put[t] => db'[r] = db[r]
      /\ \A r \in DOMAIN put[t] : r \notin DOMAIN db => r[2] = New(t)
      /\ \A r \in DOMAIN db : Keeps(r, db[r], db'[r])
  BY CommitRows DEF IInv
<1>2. /\ \A c \in DOMAIN db : c[1] = "code" /\ db[c].state = "used" => db'[c] = db[c]
      /\ \A c \in DOMAIN db : c[1] = "cut" => db'[c] = db[c]
      /\ \A r \in DOMAIN db' : r[1] \in {"key", "inst"} /\ db'[r].heard = New(t) => HeardAt(t, r, New(t)) /\ r \in DOMAIN put[t]
      /\ \A r \in DOMAIN db : r[1] \in {"key", "inst"} => db'[r].heard = New(t) \/ db'[r].heard = db[r].heard
      /\ \A r \in DOMAIN db' : r[1] \in {"key", "inst"} /\ r \notin DOMAIN db => db'[r].heard \in {0, New(t)}
  BY CommitLeaves
<1>3. /\ Records(t) /\ Paired(t) /\ OpOk(t) /\ Written(t) /\ pc[t] = "commit" /\ k \in DOMAIN db' /\ k[1] = "key"
  BY DEF IInv, TxInv, RInv, RTx, LeftTogether, Commit, Keys, Table
<1>4. CASE k \in DOMAIN db
  <2>1. db'[k].owner = db[k].owner /\ k \in Keys(db)
    BY <1>1, <1>3, <1>4 DEF Keeps, Keys, Table
  <2>2. RecordOf(db, k) /\ HeartbeatInstallations(db, k) \subseteq {Inst(db[k].owner)}
    BY <2>1 DEF RInv, Recorded
  <2>3. RecordOf(db', k)
    <3> DEFINE cut  == <<"cut", k[2]>>
               code == <<"code", db[cut].code>>
    <3>1. /\ cut \in DOMAIN db /\ db[cut].by = "enrollment" /\ db[cut].inst = db[k].owner
          /\ code \in DOMAIN db /\ db[code].inst = db[k].owner /\ db[code].contract = 2
          /\ db[code].state = "used" /\ db[code].at = k[2]
      BY <2>2 DEF RecordOf, EnrollmentCuts, Table
    <3>2. db'[cut] = db[cut] /\ db'[code] = db[code]
      BY <1>2, <3>1
    <3>3. cut \in DOMAIN db' /\ code \in DOMAIN db' /\ cut[1] = "cut"
      BY <1>1, <3>1
    <3> QED BY <2>1, <3>1, <3>2, <3>3 DEF RecordOf, EnrollmentCuts, Table
  <2>4. ASSUME NEW i \in HeartbeatInstallations(db', k)
        PROVE  i = Inst(db[k].owner)
    <3>1. i \in DOMAIN db' /\ i[1] = "inst" /\ db'[k].heard # 0 /\ db'[i].heard = db'[k].heard
      BY <2>4 DEF HeartbeatInstallations, InstRows, Table
    <3>2. CASE db'[k].heard = New(t)
      <4>1. op[t].kind = "status_v2" /\ k = op[t].arg /\ i = Inst(db[op[t].row].inst)
        BY <1>2, <1>3, <3>1, <3>2 DEF HeardAt
      <4>2. db[k].owner \in {0, db[op[t].row].inst}
        BY <1>3, <4>1 DEF Paired
      <4> QED BY <2>1, <4>1, <4>2
    <3>3. CASE db'[k].heard # New(t)
      <4>1. i \in DOMAIN db /\ db[i].heard = db[k].heard /\ db[k].heard # 0
        BY <1>2, <1>3, <1>4, <3>1, <3>3
      <4>2. i \in HeartbeatInstallations(db, k)
        BY <3>1, <4>1 DEF HeartbeatInstallations, InstRows, Table
      <4> QED BY <2>2, <4>2
    <3> QED BY <3>2, <3>3
  <2> QED BY <2>1, <2>3, <2>4
<1>5. CASE k \notin DOMAIN db
  <2> DEFINE cut  == <<"cut", New(t)>>
             code == <<"code", put[t][cut].code>>
  <2>1. k \in DOMAIN put[t] /\ k = <<"key", New(t)>>
    <3>1. k \in DOMAIN put[t] /\ k[2] = New(t)
      BY <1>1, <1>3, <1>5
    <3>2. k \in Tables \X Nat
      BY <1>3, <3>1 DEF Written, Mine
    <3> QED BY <1>3, <3>1, <3>2
  <2>2. put[t][k] = db'[k]
    BY <1>1, <2>1
  <2>3. /\ cut \in DOMAIN put[t] /\ put[t][cut].by = "enrollment" /\ put[t][cut].inst = db'[k].owner
        /\ code \in DOMAIN put[t] /\ put[t][code].inst = db'[k].owner /\ put[t][code].contract = 2
        /\ put[t][code].state = "used" /\ put[t][code].at = New(t)
    BY <1>3, <2>1, <2>2 DEF Records
  <2>4. RecordOf(db', k)
    <3>1. db'[cut] = put[t][cut] /\ db'[code] = put[t][code] /\ cut \in DOMAIN db' /\ code \in DOMAIN db' /\ cut[1] = "cut"
      BY <1>1, <2>3
    <3>2. cut = <<"cut", k[2]>> /\ k[2] = New(t) /\ code = <<"code", db'[cut].code>>
      BY <2>1, <3>1
    <3> HIDE DEF cut, code
    <3> QED BY <2>3, <3>1, <3>2 DEF RecordOf, EnrollmentCuts, Table
  <2>5. db'[k].heard # New(t)
    <3> SUFFICES ASSUME db'[k].heard = New(t) PROVE FALSE
      OBVIOUS
    <3>1. op[t].kind = "status_v2" /\ k = op[t].arg
      BY <1>2, <1>3 DEF HeardAt
    <3> QED BY <1>3, <1>5, <3>1 DEF OpOk, Table
  <2>6. db'[k].heard = 0
    BY <1>2, <1>3, <1>5, <2>5
  <2> QED BY <2>4, <2>6 DEF HeartbeatInstallations
<1> QED BY <1>4, <1>5

(* A commit leaves records of what was done. *)
LEMMA CommitRecorded ==
  ASSUME IInv, CInv, RInv, NEW t \in Tx, Commit(t)
  PROVE  Recorded(db')
<1>1. /\ DOMAIN db' = DOMAIN put[t] \cup DOMAIN db
      /\ \A r \in DOMAIN put[t] : db'[r] = put[t][r] /\ Mine(t, r, put[t][r])
      /\ \A r \in DOMAIN db : r \notin DOMAIN put[t] => db'[r] = db[r]
      /\ \A r \in DOMAIN put[t] : r \notin DOMAIN db => r[2] = New(t)
      /\ \A r \in DOMAIN db : Keeps(r, db[r], db'[r])
  BY CommitRows DEF IInv
<1>2. /\ \A c \in DOMAIN db : c[1] = "code" /\ db[c].state = "used" => db'[c] = db[c]
      /\ \A c \in DOMAIN db : c[1] = "cut" => db'[c] = db[c]
  BY CommitLeaves
<1>3. Recorded(db) /\ Spent(db) /\ Dates(t) /\ NewCut(t)
  BY DEF RInv, RTx, LeftTogether, CInv, IInv, TxInv
<1>4. ASSUME NEW k \in Table(db', "token"), db'[k].from # 0
      PROVE  LET code == <<"code", db'[k].from>> IN db'[k].inst = db'[code].inst /\ db'[code].at = k[2]
  <2> DEFINE code == <<"code", db'[k].from>>
  <2>1. k \in DOMAIN db' /\ k[1] = "token"
    BY <1>4 DEF Table
  <2>2. CASE k \in DOMAIN db
    <3>1. k \in Table(db, "token") /\ db[k].from = db'[k].from /\ db[k].inst = db'[k].inst
      BY <1>1, <2>1, <2>2 DEF Keeps, Table
    <3>2. code \in Table(db, "code") /\ code[2] = db[k].from
      BY <1>3, <1>4, <3>1 DEF Spent, Table
    <3>3. db[code].state = "used"
      <4> HIDE DEF code
      <4> QED BY <1>3, <3>1, <3>2 DEF Spent
    <3>4. db'[code] = db[code]
      BY <1>2, <3>2, <3>3 DEF Table
    <3>5. db[k].inst = db[code].inst /\ db[code].at = k[2]
      BY <1>3, <1>4, <3>1 DEF Recorded
    <3> QED BY <3>1, <3>4, <3>5
  <2>3. CASE k \notin DOMAIN db
    <3>1. k \in DOMAIN put[t] /\ k[2] = New(t) /\ k \in Tables \X Nat
      BY <1>1, <2>1, <2>3 DEF Mine
    <3>2. k = <<"token", New(t)>> /\ put[t][k] = db'[k]
      BY <1>1, <2>1, <3>1
    <3>3. code \in DOMAIN put[t] /\ put[t][code].at = New(t) /\ put[t][k].inst = put[t][code].inst
      BY <1>3, <1>4, <3>1, <3>2 DEF Dates
    <3>4. db'[code] = put[t][code]
      BY <1>1, <3>3
    <3> QED BY <3>1, <3>2, <3>3, <3>4
  <2> QED BY <2>2, <2>3
<1>5. AtMostOne(EnrollmentCuts(db'))
  <2>1. \A c \in EnrollmentCuts(db') : c \in EnrollmentCuts(db) \/ (c \in DOMAIN put[t] /\ c = <<"cut", New(t)>> /\ Table(db, "cut") = {})
    <3>1. ASSUME NEW c \in EnrollmentCuts(db')
          PROVE  c \in EnrollmentCuts(db) \/ (c \in DOMAIN put[t] /\ c = <<"cut", New(t)>> /\ Table(db, "cut") = {})
      <4>1. c \in DOMAIN db' /\ c[1] = "cut" /\ db'[c].by = "enrollment"
        BY <3>1 DEF EnrollmentCuts, Table
      <4>2. CASE c \in DOMAIN db
        BY <1>2, <4>1, <4>2 DEF EnrollmentCuts, Table
      <4>3. CASE c \notin DOMAIN db
        <5>1. c \in DOMAIN put[t] /\ c \in Tables \X Nat /\ put[t][c].by = "enrollment"
          BY <1>1, <4>1, <4>3 DEF Mine
        <5>2. c[2] = New(t) /\ Table(db, "cut") = {}
          BY <1>3, <4>1, <5>1 DEF NewCut
        <5> QED BY <4>1, <5>1, <5>2
      <4> QED BY <4>2, <4>3
    <3> QED BY <3>1
  <2>2. EnrollmentCuts(db) \subseteq Table(db, "cut") /\ AtMostOne(EnrollmentCuts(db))
    BY <1>3 DEF EnrollmentCuts, Recorded
  <2> QED BY <2>1, <2>2 DEF AtMostOne
<1>6. \A k \in Keys(db') : db'[k].owner # 0 =>
        RecordOf(db', k) /\ HeartbeatInstallations(db', k) \subseteq {Inst(db'[k].owner)}
  BY CommitRecords
<1> QED BY <1>4, <1>5, <1>6 DEF Recorded

(* And it disturbs nobody. *)
LEMMA CommitOthersR ==
  ASSUME IInv, CInv, RInv, NEW t \in Tx, Commit(t), NEW u \in Tx, u # t,
         op'[u] = op[u], pc'[u] = pc[u], put'[u] = put[u]
  PROVE  RTx(u)'
<1>1. Respects(u) /\ TxInv(u) /\ RTx(u)
  BY CommitRespects DEF IInv, RInv
<1>2. New(u)' = New(u) /\ New(u) # 0 /\ New(u) # New(t)
  BY NewIsNew DEF New
<1>3. Unheard(u)'
  <2>1. \A r \in DOMAIN db' : r[1] \in {"key", "inst"} =>
          IF r \in DOMAIN db THEN db'[r].heard \in {New(t), db[r].heard} ELSE db'[r].heard \in {0, New(t)}
    BY CommitLeaves
  <2> QED BY <1>1, <1>2, <2>1 DEF RTx, Unheard, InstRows, Keys, Table
<1>4. \A r \in DOMAIN db : Keeps(r, db[r], db'[r]) /\ (Holds(u, r, Exclusive) => db'[r] = db[r])
  BY <1>1 DEF Respects
<1>5. op[u].kind \in {"status_v1", "status_v2"} => db'[op[u].row].inst = db[op[u].row].inst
  BY <1>1, <1>4 DEF TxInv, OpOk, Table, Keeps
<1>6. Paired(u)'
  <2>1. op[u].kind = "status_v2" => db'[op[u].arg].owner = db[op[u].arg].owner
    BY <1>1, <1>4 DEF TxInv, OpOk, Table, Keeps
  <2> QED BY <1>1, <1>5, <2>1 DEF RTx, Paired
<1>7. Claimed(u)' /\ Dates(u)' /\ Records(u)'
  BY <1>1, <1>2 DEF RTx, LeftTogether, Claimed, Dates, Records
<1>8. Hears(u)'
  <2> SUFFICES ASSUME NEW r \in DOMAIN put[u], r[1] \in {"key", "inst"}
               PROVE  HeardAt(u, r, put[u][r].heard)'
    BY DEF Hears
  <2>1. HeardAt(u, r, put[u][r].heard)
    BY <1>1 DEF RTx, LeftTogether, Hears
  <2>2. (r \in DOMAIN db' <=> r \in DOMAIN db) /\ (r \in DOMAIN db => db'[r] = db[r])
    <3>1. pc[u] # "done"
      BY DEF IInv, Shape, Running
    <3>2. r \in DOMAIN db => Holds(u, r, Exclusive)
      BY <1>1, <3>1 DEF TxInv, Written, Mine, Fresh
    <3>3. r \notin DOMAIN db => r[2] = New(u)
      BY <1>1 DEF TxInv, Written, Mine
    <3> QED BY <1>1, <1>4, <3>2, <3>3 DEF Respects
  <2> QED BY <1>2, <1>5, <2>1, <2>2 DEF HeardAt
<1> QED BY <1>3, <1>6, <1>7, <1>8 DEF RTx, LeftTogether

(* Any step keeps it. *)
LEMMA NextRInv ==
  ASSUME IInv, CInv, RInv, [Next]_vars
  PROVE  RInv'
<1>1. Shape /\ Typed(db) /\ (\A u \in Tx : TxInv(u)) /\ Recorded(db) /\ \A u \in Tx : RTx(u)
  BY DEF IInv, RInv
<1>2. ASSUME NEW t \in Tx, Begin(t)
      PROVE  RInv'
  <2>1. db' = db /\ \A u \in Tx : RTx(u)'
    BY <1>1, <1>2, BeginKeepsR DEF Begin
  <2> QED BY <1>1, <2>1 DEF RInv
<1>3. ASSUME NEW t \in Tx, Step(t)
      PROVE  RInv'
  <2>1. Statement(t, Wants(t))
    BY <1>1, <1>3, StepIsStatement
  <2>2. db' = db /\ \A u \in Tx \ {t} : RTx(u)'
    BY <1>1, <2>1, StatementFrame, SameStaysR
  <2>3. RTx(t)'
    BY <1>1, <1>3, StepKeepsR
  <2> QED BY <1>1, <2>2, <2>3 DEF RInv
<1>4. ASSUME NEW t \in Tx, Commit(t) \/ Fail(t)
      PROVE  RInv'
  <2>1. End(t)
    BY <1>4 DEF Commit, Fail
  <2>2. RTx(t)'
    BY <1>1, <2>1, EndKeepsR
  <2>3. \A u \in Tx \ {t} : op'[u] = op[u] /\ pc'[u] = pc[u] /\ put'[u] = put[u]
    BY <1>1, <2>1 DEF End, Shape
  <2>4. CASE Fail(t)
    <3>1. db' = db
      BY <2>4 DEF Fail
    <3>2. \A u \in Tx \ {t} : RTx(u)'
      BY <1>1, <2>3, <3>1, SameStaysR
    <3> QED BY <1>1, <2>2, <3>1, <3>2 DEF RInv
  <2>5. CASE Commit(t)
    <3>1. Recorded(db)'
      BY <2>5, CommitRecorded
    <3>2. \A u \in Tx \ {t} : RTx(u)'
      BY <2>3, <2>5, CommitOthersR
    <3> QED BY <2>2, <3>1, <3>2 DEF RInv
  <2> QED BY <1>4, <2>4, <2>5
<1>5. CASE UNCHANGED vars
  <2>1. db' = db /\ op' = op /\ pc' = pc /\ put' = put
    BY <1>5 DEF vars
  <2>2. \A u \in Tx : RTx(u)'
    BY <1>1, <2>1, SameStaysR
  <2> QED BY <1>1, <2>1, <2>2 DEF RInv
<1> QED BY <1>2, <1>3, <1>4, <1>5 DEF Next

(* Between any two steps the tokens, keys, records, codes and heartbeats   *)
(* of a branch are those of transactions that wrote all of it or nothing.  *)
THEOREM RecordsHold == Spec => []RInv
<1>1. ASSUME Init
      PROVE  RInv
  <2>1. Begun(Pasts, 0)
    BY <1>1 DEF Init, Idle
  <2>2. Shape
    BY <2>1, BegunExcludes
  <2>3. Recorded(db) /\ \A r \in InstRows(db) \cup Keys(db) : db[r].heard <= Past
    BY <2>1, InventoryAssumption DEF Begun
  <2>4. ASSUME NEW t \in Tx
        PROVE  RTx(t)
    <3>1. op[t].kind = "none" /\ DOMAIN put[t] = {}
      BY <2>1, <2>2 DEF Begun, Shape, Running
    <3>2. Unheard(t)
      <4>1. New(t) \in Nat /\ New(t) > Past
        BY NewIsNew DEF Past
      <4> QED BY <2>3, <4>1 DEF Unheard, Past
    <3> QED BY <3>1, <3>2 DEF RTx, Claimed, Paired, LeftTogether, Dates, Records, Hears
  <2> QED BY <2>3, <2>4 DEF RInv
<1>2. IInv /\ CInv /\ RInv /\ [Next]_vars => RInv'
  BY NextRInv
<1> QED BY <1>1, <1>2, InvariantHolds, CredentialsHold, PTL DEF Spec

(* At whatever moment it is taken, the inventory points only at the        *)
(* installation whose redemption issued the key, and at the owner of a key *)
(* that has one; and an owned key without flags can be recovered.          *)
THEOREM InventoryIsRightAlways == Spec => []InventoryIsRight
<1>1. IInv /\ CInv /\ RInv => InventoryIsRight
  BY RecordsMakeItRight DEF IInv, CInv, RInv
<1> QED BY <1>1, InvariantHolds, CredentialsHold, RecordsHold, PTL
=============================================================================
