--------------------------- MODULE SettingsProofs ---------------------------
(***************************************************************************)
(* Identities are one and a writer changes its own keys and no other, for  *)
(* any number of overlapping transactions, any documents and any databases *)
(* to begin with: the inductive invariant of LibrarySettings.              *)
(***************************************************************************)
EXTENDS LibrarySettings, TransactionProofs, FiniteSetTheorems

-----------------------------------------------------------------------------
(* The inductive invariant: a transaction's share.                         *)

(* What a writer makes of a document. *)
Becomes(o, document) == Over(Change(o), [k \in DOMAIN document \ KeysOf(o.kind) |-> document[k]])

(* What it is about is there, or not yet; what it has locked is what it    *)
(* has seen; a change of the platform's is on record when it is over.      *)
About(t) ==
  /\ op[t].kind \notin {"none", "provision"} => Org(op[t].row) \in DOMAIN db
  /\ op[t].kind = "provision" => op[t].row = New(t)
  /\ op[t].kind = "identify" /\ pc[t] \in {"branch", "commit"} =>
       <<Org(op[t].row), Update>> \in lock[t] /\ seen[t].read = db[Org(op[t].row)].customer
  /\ pc[t] # "done" => Org(New(t)) \notin DOMAIN db /\ Customer(New(t)) \notin DOMAIN db
  /\ pc[t] \notin {"record", "answer", "commit"} => DOMAIN put[t] = {}
  /\ op[t].kind \in Platform /\ pc[t] = "commit" => Audit(t) \in DOMAIN put[t]

(* The rows it writes: of a library that is there, its own, locked, with a *)
(* customer it keeps or makes; or a new library with all that is its;      *)
(* of documents, the one it is to change, locked, and changed as asked.    *)
OwnOrg(t, r) ==
  /\ r \in DOMAIN db /\ r = Org(op[t].row) /\ <<r, Update>> \in lock[t] /\ put[t][r].slug = db[r].slug
  /\ \/ put[t][r].customer = db[r].customer
     \/ db[r].customer = 0 /\ put[t][r].customer = New(t) /\ Customer(New(t)) \in DOMAIN put[t]
NewOrg(t, r) ==
  /\ op[t].kind = "provision" /\ r = Org(New(t)) /\ put[t][r].slug = op[t].arg /\ put[t][r].customer = New(t)
  /\ {Slug_(op[t].arg), Customer(New(t)), Branch(New(t)), Doc(New(t)), Site(New(t))} \subseteq DOMAIN put[t]
OwnDoc(t, r) ==
  /\ op[t].kind \in Writers /\ r = DocOf(op[t]) /\ <<r, NoKeyUpdate>> \in lock[t]
  /\ put[t][r] = Becomes(op[t], Stored(db, r))
NewDoc(t, r) == op[t].kind = "provision" /\ r \in {Doc(New(t)), Site(New(t))}
Writes(t, r) ==
  /\ Fits(r, put[t][r])
  /\ r[1] = "org" => OwnOrg(t, r) \/ NewOrg(t, r)
  /\ r[1] = "customer" =>
       r = Customer(New(t)) /\ Org(op[t].row) \in DOMAIN put[t] /\ put[t][Org(op[t].row)].customer = New(t)
  /\ r[1] = "slug" =>
       /\ op[t].kind = "provision" /\ r = Slug_(op[t].arg) /\ <<r, Update>> \in lock[t] /\ r \notin DOMAIN db
       /\ put[t][r] = New(t)
  /\ r[1] = "branch" => put[t][r] = r[2]
  /\ r[1] \in {"doc", "site"} => OwnDoc(t, r) \/ NewDoc(t, r)

TxInv(t) == About(t) /\ \A r \in DOMAIN put[t] : Writes(t, r)

(* The database's share: identities are one, and a library that was        *)
(* provisioned is complete.                                                *)
Complete(d) ==
  \A i \in Libraries(d) : i > Past =>
    /\ Customer(d[Org(i)].customer) \in DOMAIN d
    /\ {Branch(i), Doc(i), Site(i)} \subseteq DOMAIN d /\ d[Branch(i)] = i

SInv == Shape /\ Exclusion /\ Typed(db) /\ Kept(db) /\ Complete(db) /\ \A t \in Tx : TxInv(t)

-----------------------------------------------------------------------------
(* Rows, and the numbers of libraries.                                     *)

(* The first component of a row is its table. *)
LEMMA RowNames ==
  ASSUME NEW i
  PROVE  /\ Org(i)[1] = "org" /\ Branch(i)[1] = "branch" /\ Customer(i)[1] = "customer" /\ Slug_(i)[1] = "slug"
         /\ Doc(i)[1] = "doc" /\ Site(i)[1] = "site" /\ Member(i)[1] = "member" /\ Sorter(i)[1] = "sorter"
         /\ Audit(i)[1] = "audit" /\ Handed(i)[1] = "handed"
         /\ Org(i)[2] = i /\ Branch(i)[2] = i /\ Customer(i)[2] = i /\ Slug_(i)[2] = i
         /\ Doc(i)[2] = i /\ Site(i)[2] = i
BY DEF Org, Branch, Customer, Slug_, Doc, Site, Member, Sorter, Audit, Handed

(* The library a transaction creates is no library there was, and no other *)
(* transaction's.                                                          *)
LEMMA NewIsNew ==
  ASSUME NEW t \in Tx
  PROVE  /\ New(t) \in Nat /\ New(t) > Past /\ New(t) # 0 /\ New(t) \notin 1..Past
         /\ \A u \in Tx : u # t => New(u) # New(t)
<1>1. MaxTx \in Nat
  BY SettingsAssumption
<1>2. t \in Nat /\ t >= 1 /\ \A u \in Tx : u \in Nat
  BY <1>1 DEF Tx
<1> QED BY <1>2 DEF New, Past

(* The libraries of a database, and what its row says of each. *)
LEMMA LibraryRow ==
  ASSUME NEW d, Typed(d)
  PROVE  /\ \A i : i \in Libraries(d) <=> Org(i) \in DOMAIN d
         /\ \A i \in Libraries(d) :
              d[Org(i)] = [slug |-> d[Org(i)].slug, status |-> d[Org(i)].status, customer |-> d[Org(i)].customer]
         /\ \A r \in DOMAIN d : r[1] = "org" => r = Org(r[2]) /\ r[2] \in Libraries(d)
         /\ \A r \in DOMAIN d : r[1] = "customer" => r = Customer(r[2]) /\ r[2] # 0
<1>1. \A r \in DOMAIN d : r[1] = "org" =>
        r = Org(r[2]) /\ d[r] = [slug |-> d[r].slug, status |-> d[r].status, customer |-> d[r].customer]
  BY DEF Typed, Fits
<1>2. \A r \in DOMAIN d : r[1] = "customer" => r = Customer(r[2]) /\ r[2] # 0
  <2> TAKE r \in DOMAIN d
  <2> HAVE r[1] = "customer"
  <2>1. Fits(r, d[r]) /\ r[1] # "org"
    BY DEF Typed
  <2> QED BY <2>1 DEF Fits
<1>3. \A i : i \in Libraries(d) <=> Org(i) \in DOMAIN d
  <2> TAKE i
  <2>1. Org(i) \in DOMAIN d => i \in Libraries(d)
    BY RowNames DEF Libraries
  <2>2. ASSUME i \in Libraries(d) PROVE Org(i) \in DOMAIN d
    <3>1. PICK r \in DOMAIN d : r[1] = "org" /\ r[2] = i
      BY <2>2 DEF Libraries
    <3> QED BY <3>1, <1>1
  <2> QED BY <2>1, <2>2
<1>4. \A r \in DOMAIN d : r[1] = "org" => r[2] \in Libraries(d)
  BY DEF Libraries
<1> QED BY <1>1, <1>2, <1>3, <1>4, RowNames

(* A library's document is none of the identities' rows. *)
LEMMA DocumentRow ==
  ASSUME NEW o
  PROVE  DocOf(o)[1] \in {"doc", "site"}
BY RowNames DEF DocOf

-----------------------------------------------------------------------------
(* Statements.                                                             *)

(* What a statement wants are locks. *)
LEMMA WantsAreLocks ==
  ASSUME NEW t \in Tx
  PROVE  \A w \in Wants(t) : w[2] \in 1..4
BY DEF Wants, KeyShare, Share, NoKeyUpdate, Update, IdentifyLock

(* A statement that has its locks is one. *)
LEMMA GoIsStatement ==
  ASSUME SInv, NEW t \in Tx, NEW where, NEW w, Running(t), Free(t, Wants(t)), Go(t, where, w),
         where \notin {"idle", "done"}
  PROVE  /\ Statement(t, Wants(t)) /\ pc'[t] = where /\ put'[t] = Over(w, put[t])
         /\ seen'[t] = seen[t] /\ lock'[t] = lock[t] \cup Wants(t)
<1>1. Shape
  BY DEF SInv
<1>2. /\ pc' = [pc EXCEPT ![t] = where] /\ lock' = [lock EXCEPT ![t] = @ \cup Wants(t)]
      /\ put' = [put EXCEPT ![t] = Over(w, @)] /\ UNCHANGED <<db, op, seen, todo>>
  BY DEF Go, GoOn, Take
<1>3. /\ pc = [u \in Tx |-> pc[u]] /\ seen = [u \in Tx |-> seen[u]] /\ todo = [u \in Tx |-> todo[u]]
      /\ put = [u \in Tx |-> put[u]] /\ lock = [u \in Tx |-> lock[u]]
  BY <1>1 DEF Shape
<1>4. pc'[t] = where /\ put'[t] = Over(w, put[t]) /\ seen'[t] = seen[t] /\ lock'[t] = lock[t] \cup Wants(t)
  BY ONLY <1>2, <1>3
<1>5. /\ \E x : put' = [put EXCEPT ![t] = Over(x, @)]
      /\ pc' = [u \in Tx |-> pc'[u]] /\ seen' = [u \in Tx |-> seen'[u]] /\ todo' = [u \in Tx |-> todo'[u]]
      /\ \A u \in Tx \ {t} : pc'[u] = pc[u] /\ seen'[u] = seen[u] /\ todo'[u] = todo[u]
  BY ONLY <1>2, <1>3
<1> QED BY <1>2, <1>4, <1>5 DEF Statement

(* What a transaction is in does not change with the others' rows. *)
LEMMA OthersStay ==
  ASSUME NEW u \in Tx, TxInv(u), db' = db, op'[u] = op[u], pc'[u] = pc[u], seen'[u] = seen[u],
         put'[u] = put[u], lock'[u] = lock[u]
  PROVE  TxInv(u)'
<1>1. About(u)'
  BY DEF TxInv, About
<1>2. ASSUME NEW r \in DOMAIN put'[u] PROVE Writes(u, r)'
  <2>1. r \in DOMAIN put[u] /\ Writes(u, r)
    BY DEF TxInv
  <2>2. (OwnOrg(u, r) <=> OwnOrg(u, r)') /\ (NewOrg(u, r) <=> NewOrg(u, r)')
        /\ (OwnDoc(u, r) <=> OwnDoc(u, r)') /\ (NewDoc(u, r) <=> NewDoc(u, r)')
    BY DEF OwnOrg, NewOrg, OwnDoc, NewDoc
  <2> QED BY <2>1, <2>2 DEF Writes
<1> QED BY <1>1, <1>2 DEF TxInv

(* A statement goes on from the invariant, if its transaction's share of   *)
(* it does.                                                                *)
LEMMA Onward ==
  ASSUME SInv, NEW t \in Tx, Statement(t, Wants(t)), TxInv(t)'
  PROVE  SInv'
<1>1. Shape' /\ Exclusion'
  BY WantsAreLocks, StatementExcludes DEF SInv
<1>2. Shape
  BY DEF SInv
<1>3. db' = db /\ op' = op /\ \A u \in Tx \ {t} :
        pc'[u] = pc[u] /\ seen'[u] = seen[u] /\ put'[u] = put[u] /\ lock'[u] = lock[u]
  BY <1>2, StatementFrame
<1>4. \A u \in Tx : TxInv(u)'
  <2> TAKE u \in Tx
  <2>1. CASE u = t
    BY <2>1
  <2>2. CASE u # t
    <3>1. TxInv(u)
      BY DEF SInv
    <3> QED BY <2>2, <3>1, <1>3, OthersStay
  <2> QED BY <2>1, <2>2
<1>5. Typed(db') /\ Kept(db') /\ Complete(db')
  BY <1>3 DEF SInv
<1> QED BY <1>1, <1>4, <1>5 DEF SInv

(* What it is about when it has gone on. *)
LEMMA Arrives ==
  ASSUME SInv, NEW t \in Tx, Statement(t, Wants(t)),
         op[t].kind = "identify" /\ pc'[t] \in {"branch", "commit"} =>
           <<Org(op[t].row), Update>> \in lock'[t] /\ seen'[t].read = db[Org(op[t].row)].customer,
         pc'[t] \notin {"record", "answer", "commit"} => DOMAIN put'[t] = {},
         op[t].kind \in Platform /\ pc'[t] = "commit" => Audit(t) \in DOMAIN put'[t]
  PROVE  About(t)'
<1>1. About(t) /\ pc[t] # "done"
  BY DEF SInv, TxInv, Statement, Running
<1>2. db' = db /\ op' = op
  BY DEF Statement
<1> QED BY <1>1, <1>2 DEF About

(* The rows it wrote before are as they were; of a record nothing is asked. *)
LEMMA RowStays ==
  ASSUME SInv, NEW t \in Tx, Statement(t, Wants(t)), NEW r \in DOMAIN put[t], r[1] # "audit",
         \A x \in DOMAIN put[t] : x \in DOMAIN put'[t] /\ (x[1] # "audit" => put'[t][x] = put[t][x])
  PROVE  Writes(t, r)'
<1>1. db' = db /\ op' = op /\ lock[t] \subseteq lock'[t] /\ put'[t][r] = put[t][r] /\ DOMAIN put[t] \subseteq DOMAIN put'[t]
  BY StatementFrame DEF SInv, Statement
<1>2. Writes(t, r)
  BY DEF SInv, TxInv
<1>3. OwnOrg(t, r) => OwnOrg(t, r)'
  BY <1>1 DEF OwnOrg
<1>4. NewOrg(t, r) => NewOrg(t, r)'
  BY <1>1 DEF NewOrg
<1>5. (OwnDoc(t, r) => OwnDoc(t, r)') /\ (NewDoc(t, r) => NewDoc(t, r)')
  BY <1>1 DEF OwnDoc, NewDoc
<1>6. Fits(r, put'[t][r])
  BY <1>1, <1>2 DEF Writes
<1>7. r[1] = "customer" => Org(op[t].row) \in DOMAIN put'[t] /\ put'[t][Org(op[t].row)].customer = New(t)
  BY <1>1, <1>2, RowNames DEF Writes
<1> QED BY <1>1, <1>2, <1>3, <1>4, <1>5, <1>6, <1>7 DEF Writes

(* Nothing is asked of the rows of the other tables.                       *)
LEMMA OtherTables ==
  ASSUME NEW t \in Tx, NEW r, r[1] \notin {"org", "customer", "slug", "branch", "doc", "site"}
  PROVE  Writes(t, r)'
BY DEF Writes, Fits

(* The first rows a transaction writes.                                    *)
LEMMA FirstRows ==
  ASSUME SInv, NEW t \in Tx, pc[t] \notin {"record", "answer", "commit"}, NEW w, put'[t] = Over(w, put[t])
  PROVE  DOMAIN put'[t] = DOMAIN w /\ \A r \in DOMAIN w : put'[t][r] = w[r]
<1>1. DOMAIN put[t] = {}
  BY DEF SInv, TxInv, About
<1>2. put'[t] = Over(w, put[t])
  OBVIOUS
<1> QED BY ONLY <1>1, <1>2 DEF Over

(* A transaction that is at a step, and may take it, is running.           *)
LEMMA AtRuns ==
  ASSUME NEW t \in Tx, NEW kind, NEW where, At(t, kind, where), where \notin {"idle", "done"}
  PROVE  Running(t) /\ Free(t, Wants(t)) /\ op[t].kind = kind /\ pc[t] = where
BY DEF At, Running

-----------------------------------------------------------------------------
(* A writer's steps.                                                       *)

(* It has found a document to write, or not. *)
LEMMA IssueStep ==
  ASSUME SInv, NEW t \in Tx, Issue(t)
  PROVE  SInv'
<1>1. Shape /\ Exclusion /\ op[t].kind \in Writers /\ pc[t] = "issue" /\ TxInv(t)
  BY DEF SInv, Issue
<1>2. pc' = [pc EXCEPT ![t] = IF Resolves(db, op[t]) THEN "apply" ELSE "answer"] /\ UNCHANGED <<db, op, seen, todo, put, lock>>
  BY DEF Issue
<1>3. pc'[t] \in {"apply", "answer"} /\ pc' = [u \in Tx |-> pc'[u]] /\ \A u \in Tx \ {t} : pc'[u] = pc[u]
  BY <1>1, <1>2 DEF Shape
<1>4. Shape' /\ Exclusion'
  <2>1. op' = [u \in Tx |-> op'[u]]
    BY <1>1, <1>2 DEF Shape
  <2>2. \A u \in Tx : pc'[u] \in {"idle", "done"} => pc'[u] = pc[u] /\ op'[u] = op[u]
    BY <1>2, <1>3
  <2> QED BY <1>1, <1>2, <1>3, <2>1, <2>2, PlacesOnly
<1>5. \A u \in Tx : u # t => TxInv(u)'
  <2> TAKE u \in Tx
  <2> HAVE u # t
  <2>1. TxInv(u) /\ pc'[u] = pc[u]
    BY <1>3 DEF SInv
  <2> QED BY <2>1, <1>2, OthersStay
<1>6. TxInv(t)'
  <2>1. DOMAIN put[t] = {} /\ About(t)
    BY <1>1 DEF TxInv, About
  <2>2. op[t].kind # "identify"
    BY <1>1 DEF Writers, Customers, Platform
  <2>3. About(t)'
    BY <2>1, <2>2, <1>1, <1>2, <1>3 DEF About
  <2> QED BY <2>1, <2>3, <1>2 DEF TxInv
<1>7. Typed(db') /\ Kept(db') /\ Complete(db')
  BY <1>2 DEF SInv
<1> QED BY <1>4, <1>5, <1>6, <1>7 DEF SInv

(* It changes its document as it was asked to, with the row locked. *)
LEMMA ApplyStep ==
  ASSUME SInv, NEW t \in Tx, Apply(t)
  PROVE  SInv'
<1> DEFINE row   == DocOf(op[t])
           value == Applied(t, Stored(db, DocOf(op[t])))
           w     == IF Touches(t) THEN One(row, value) ELSE <<>>
           where == IF op[t].kind \in Platform THEN "record" ELSE "answer"
<1>1. Running(t) /\ Free(t, Wants(t)) /\ op[t].kind \in Writers /\ pc[t] = "apply" /\ Go(t, where, w)
  BY AtRuns DEF Apply
<1>2. where \in {"record", "answer"}
  OBVIOUS
<1> HIDE DEF where
<1>3. /\ Statement(t, Wants(t)) /\ pc'[t] = where /\ put'[t] = Over(w, put[t]) /\ seen'[t] = seen[t]
      /\ lock'[t] = lock[t] \cup Wants(t) /\ db' = db /\ op' = op
  <2> HIDE DEF w
  <2>1. where \notin {"idle", "done"}
    BY <1>2
  <2> QED BY <1>1, <2>1, GoIsStatement DEF Statement
<1>4. DOMAIN put'[t] = DOMAIN w /\ \A r \in DOMAIN w : put'[t][r] = w[r]
  <2> HIDE DEF w
  <2> QED BY <1>1, <1>3, FirstRows
<1>5. About(t)'
  <2>1. op[t].kind # "identify"
    BY <1>1 DEF Writers, Customers, Platform
  <2> QED BY <2>1, <1>2, <1>3, Arrives
<1>6. ASSUME NEW r \in DOMAIN put'[t] PROVE Writes(t, r)'
  <2>1. Touches(t) /\ r = row /\ put'[t][r] = value
    BY <1>4, <1>6 DEF One
  <2>2. <<row, NoKeyUpdate>> \in Wants(t)
    BY <1>1, <2>1 DEF Wants
  <2>3. value = Becomes(op[t], Stored(db, row))
    BY DEF Applied, Becomes
  <2>4. OwnDoc(t, r)'
    BY <1>1, <1>3, <2>1, <2>2, <2>3 DEF OwnDoc
  <2>5. r[1] \in {"doc", "site"}
    BY <2>1, DocumentRow
  <2> QED BY <2>4, <2>5 DEF Writes, Fits
<1> QED BY <1>3, <1>5, <1>6, Onward DEF TxInv

(* The platform's change is put on record. *)
LEMMA RecordStep ==
  ASSUME SInv, NEW t \in Tx, Record(t)
  PROVE  SInv'
<1>1. PICK kind \in Platform : At(t, kind, "record") /\ Go(t, "commit", Recorded(t, kind, op[t].row))
  BY DEF Record
<1> DEFINE value == [kind |-> kind, library |-> op[t].row]
<1>2. Running(t) /\ Free(t, Wants(t)) /\ op[t].kind = kind /\ pc[t] = "record"
  BY <1>1, AtRuns
<1>3. Go(t, "commit", One(Audit(t), value))
  BY <1>1 DEF Recorded
<1> HIDE DEF value
<1>4. Statement(t, Wants(t)) /\ pc'[t] = "commit" /\ put'[t] = Over(One(Audit(t), value), put[t]) /\ seen'[t] = seen[t]
  BY <1>2, <1>3, GoIsStatement
<1>5. /\ DOMAIN put'[t] = DOMAIN put[t] \cup {Audit(t)}
      /\ \A x \in DOMAIN put[t] : x # Audit(t) => put'[t][x] = put[t][x]
  BY <1>4, OneRowWritten
<1>6. About(t)'
  <2>1. op[t].kind # "identify"
    BY <1>2 DEF Platform
  <2> QED BY <2>1, <1>4, <1>5, Arrives
<1>7. ASSUME NEW r \in DOMAIN put'[t] PROVE Writes(t, r)'
  <2>1. CASE r[1] = "audit"
    BY <2>1, OtherTables
  <2>2. CASE r[1] # "audit"
    <3>1. r \in DOMAIN put[t]
      BY <2>2, <1>5, RowNames
    <3>2. \A x \in DOMAIN put[t] : x \in DOMAIN put'[t] /\ (x[1] # "audit" => put'[t][x] = put[t][x])
      BY <1>5, RowNames
    <3> QED BY <2>2, <3>1, <3>2, <1>4, RowStays
  <2> QED BY <2>1, <2>2
<1> QED BY <1>4, <1>6, <1>7, Onward DEF TxInv

(* The customer's change is answered. *)
LEMMA AnswerStep ==
  ASSUME SInv, NEW t \in Tx, Answer(t)
  PROVE  SInv'
<1>1. PICK kind \in Customers : At(t, kind, "answer") /\ Go(t, "commit", <<>>)
  BY DEF Answer
<1>2. Running(t) /\ Free(t, Wants(t)) /\ op[t].kind = kind /\ pc[t] = "answer"
  BY <1>1, AtRuns
<1>3. Statement(t, Wants(t)) /\ pc'[t] = "commit" /\ put'[t] = Over(<<>>, put[t])
  BY <1>1, <1>2, GoIsStatement
<1>4. put'[t] = put[t]
  BY <1>3, NoRowWritten DEF SInv
<1>5. About(t)'
  <2>1. op[t].kind # "identify" /\ op[t].kind \notin Platform
    BY <1>2 DEF Platform, Customers
  <2> QED BY <2>1, <1>3, Arrives
<1>6. ASSUME NEW r \in DOMAIN put'[t] PROVE Writes(t, r)'
  <2>1. CASE r[1] = "audit"
    BY <2>1, OtherTables
  <2>2. CASE r[1] # "audit"
    BY <2>2, <1>3, <1>4, RowStays
  <2> QED BY <2>1, <2>2
<1> QED BY <1>3, <1>5, <1>6, Onward DEF TxInv

-----------------------------------------------------------------------------
(* The steps of provisioning, identifying and enrolling a library.         *)

(* A statement that writes nothing yet. *)
LEMMA SilentStep ==
  ASSUME SInv, NEW t \in Tx, Statement(t, Wants(t)), put'[t] = put[t], About(t)'
  PROVE  SInv'
<1>1. ASSUME NEW r \in DOMAIN put'[t] PROVE Writes(t, r)'
  <2>1. CASE r[1] = "audit"
    BY <2>1, OtherTables
  <2>2. CASE r[1] # "audit"
    BY <2>2, RowStays
  <2> QED BY <2>1, <2>2
<1> QED BY <1>1, Onward DEF TxInv

(* A transaction that has written nothing writes rows that nothing is      *)
(* asked of.                                                               *)
LEMMA PlainStep ==
  ASSUME SInv, NEW t \in Tx, NEW kind \in {"enroll", "remove", "unhost"}, op[t].kind = kind,
         pc[t] \notin {"record", "answer", "commit"}, Running(t), Free(t, Wants(t)),
         NEW r, r[1] \in {"handed", "member", "sorter"}, NEW w, DOMAIN w = {r}, Go(t, "commit", w)
  PROVE  SInv'
<1>1. Statement(t, Wants(t)) /\ pc'[t] = "commit" /\ put'[t] = Over(w, put[t])
  BY GoIsStatement
<1>2. DOMAIN put'[t] = {r}
  BY <1>1, FirstRows
<1>3. About(t)'
  BY <1>1, Arrives DEF Platform
<1>4. \A x \in DOMAIN put'[t] : Writes(t, x)'
  <2> TAKE x \in DOMAIN put'[t]
  <2>1. x[1] \notin {"org", "customer", "slug", "branch", "doc", "site"}
    BY <1>2
  <2> QED BY <2>1, OtherTables
<1> QED BY <1>1, <1>3, <1>4, Onward DEF TxInv

(* A new library's rows. *)
LEMMA CreatedRows ==
  ASSUME NEW n, NEW slug
  PROVE  LET c == Created(n, slug) IN
         /\ DOMAIN c = {Org(n), Branch(n), Doc(n), Site(n), Slug_(slug)}
         /\ c[Org(n)] = [slug |-> slug, status |-> "active", customer |-> 0] /\ c[Slug_(slug)] = n
<1> DEFINE org == [slug |-> slug, status |-> "active", customer |-> 0]
<1> HIDE DEF org
<1>1. Created(n, slug) =
        Over(One(Org(n), org), Over(One(Branch(n), 0), Over(One(Doc(n), <<>>), Over(One(Site(n), <<>>), One(Slug_(slug), n)))))
  BY DEF Created, org
<1>2. /\ Slug_(slug) # Org(n) /\ Slug_(slug) # Branch(n) /\ Slug_(slug) # Doc(n) /\ Slug_(slug) # Site(n)
  BY RowNames
<1>3. DOMAIN Created(n, slug) = {Org(n), Branch(n), Doc(n), Site(n), Slug_(slug)}
  BY ONLY <1>1 DEF Over, One
<1>4. Created(n, slug)[Org(n)] = org
  BY ONLY <1>1 DEF Over, One
<1>5. Created(n, slug)[Slug_(slug)] = n
  BY ONLY <1>1, <1>2 DEF Over, One
<1> QED BY <1>3, <1>4, <1>5 DEF org

(* What identifying a library makes of its row, and the rows it writes. *)
RowsOf(i, read, t) == {Org(i), Branch(i)} \cup (IF read = 0 THEN {Customer(New(t))} ELSE {})
Named(org, t) == [org EXCEPT !.customer = IF org.customer = 0 THEN New(t) ELSE org.customer]
LEMMA IdentifiedRows ==
  ASSUME NEW d, NEW i, NEW read, NEW t
  PROVE  /\ DOMAIN Identified(d, i, read, t) = RowsOf(i, read, t)
         /\ Identified(d, i, read, t)[Org(i)] = Named(d[Org(i)], t)
         /\ Identified(d, i, read, t)[Branch(i)] = i
<1> DEFINE own   == IF d[Org(i)].customer = 0 THEN New(t) ELSE d[Org(i)].customer
           org   == [d[Org(i)] EXCEPT !.customer = own]
           named == Over(One(Org(i), org), One(Branch(i), i))
           w     == Identified(d, i, read, t)
<1>0. org = Named(d[Org(i)], t)
  BY DEF Named
<1>1. w = IF read = 0 THEN Over(One(Customer(New(t)), "a customer"), named) ELSE named
  BY DEF Identified
<1> HIDE DEF org, w
<1>2. Org(i) # Branch(i) /\ Customer(New(t)) # Org(i) /\ Customer(New(t)) # Branch(i)
  BY RowNames
<1>3. DOMAIN named = {Org(i), Branch(i)} /\ named[Org(i)] = org /\ named[Branch(i)] = i
  BY ONLY <1>2 DEF Over, One
<1> HIDE DEF named
<1>4. CASE read = 0
  <2>1. w = Over(One(Customer(New(t)), "a customer"), named)
    BY <1>1, <1>4
  <2>2. DOMAIN w = {Org(i), Branch(i), Customer(New(t))} /\ w[Org(i)] = org /\ w[Branch(i)] = i
    BY ONLY <1>2, <1>3, <2>1 DEF Over, One
  <2>3. RowsOf(i, read, t) = {Org(i), Branch(i), Customer(New(t))}
    BY <1>4 DEF RowsOf
  <2> QED BY <2>2, <2>3, <1>0 DEF w
<1>5. CASE read # 0
  <2>1. RowsOf(i, read, t) = {Org(i), Branch(i)}
    BY <1>5 DEF RowsOf
  <2> QED BY <2>1, <1>0, <1>1, <1>3, <1>5 DEF w
<1> QED BY <1>4, <1>5

(* A library is provisioned: all its rows at once. *)
LEMMA ProvisionStep ==
  ASSUME SInv, NEW t \in Tx, Provision(t)
  PROVE  SInv'
<1>a. PICK slug : slug = op[t].arg
  OBVIOUS
<1> DEFINE n     == New(t)
           c     == Created(n, slug)
           named == Identified(c, n, 0, t)
           rec   == Recorded(t, "provision", n)
           rest  == Over(named, c)
           w     == Over(rec, rest)
<1>1. Running(t) /\ Free(t, Wants(t)) /\ op[t].kind = "provision" /\ pc[t] = "slug"
  BY AtRuns DEF Provision
<1>2. op[t].row = New(t)
  BY <1>1 DEF SInv, TxInv, About
<1>3. Slug_(slug) \notin DOMAIN db /\ Go(t, "commit", w)
  BY <1>a, <1>2 DEF Provision
<1>4. /\ DOMAIN c = {Org(n), Branch(n), Doc(n), Site(n), Slug_(slug)}
      /\ c[Org(n)] = [slug |-> slug, status |-> "active", customer |-> 0] /\ c[Slug_(slug)] = n
  BY CreatedRows
<1>5. /\ DOMAIN named = {Org(n), Branch(n), Customer(n)} /\ named[Branch(n)] = n
      /\ named[Org(n)] = [slug |-> slug, status |-> "active", customer |-> n]
  <2> HIDE DEF c
  <2>1. DOMAIN named = {Org(n), Branch(n), Customer(n)} /\ named[Branch(n)] = n /\ named[Org(n)] = Named(c[Org(n)], t)
    <3>1. RowsOf(n, 0, t) = {Org(n), Branch(n), Customer(n)}
      BY DEF RowsOf
    <3> QED BY <3>1, IdentifiedRows
  <2> QED BY <2>1, <1>4 DEF Named
<1>6. DOMAIN rec = {Audit(t)}
  BY DEF Recorded, One
<1> HIDE DEF c, named, rec
<1>7. Slug_(slug)[1] = "slug" /\ Audit(t)[1] = "audit" /\ Org(n)[1] = "org" /\ Branch(n)[1] = "branch"
      /\ Customer(n)[1] = "customer" /\ Branch(n)[2] = n /\ Org(n)[2] = n /\ Doc(n)[1] = "doc" /\ Site(n)[1] = "site"
  BY RowNames
<1>8. /\ DOMAIN rest = {Org(n), Branch(n), Customer(n), Doc(n), Site(n), Slug_(slug)}
      /\ rest[Branch(n)] = n /\ rest[Slug_(slug)] = n
      /\ rest[Org(n)] = [slug |-> slug, status |-> "active", customer |-> n]
  BY ONLY <1>4, <1>5, <1>7 DEF Over
<1> HIDE DEF rest
<1>9. /\ DOMAIN w = {Org(n), Branch(n), Customer(n), Doc(n), Site(n), Slug_(slug), Audit(t)}
      /\ w[Branch(n)] = n /\ w[Slug_(slug)] = n
      /\ w[Org(n)] = [slug |-> slug, status |-> "active", customer |-> n]
  BY ONLY <1>6, <1>7, <1>8 DEF Over
<1> HIDE DEF w
<1>10. /\ Statement(t, Wants(t)) /\ pc'[t] = "commit" /\ put'[t] = Over(w, put[t]) /\ lock'[t] = lock[t] \cup Wants(t)
  BY <1>3, <1>1, GoIsStatement
<1>11. db' = db /\ op' = op
  BY <1>10 DEF Statement
<1>12. DOMAIN put'[t] = DOMAIN w /\ \A r \in DOMAIN w : put'[t][r] = w[r]
  BY <1>1, <1>10, FirstRows
<1>13. About(t)'
  BY <1>1, <1>10, Arrives DEF Platform
<1>14. <<Slug_(slug), Update>> \in lock'[t]
  BY <1>a, <1>1, <1>10 DEF Wants
<1>15. Writes(t, Org(n))'
  <2>1. NewOrg(t, Org(n))'
    BY <1>a, <1>1, <1>2, <1>9, <1>11, <1>12 DEF NewOrg
  <2>2. Fits(Org(n), put'[t][Org(n)])
    BY <1>7, <1>9, <1>12 DEF Fits
  <2> QED BY <2>1, <2>2, <1>7 DEF Writes
<1>16. Writes(t, Customer(n))'
  <2>1. Fits(Customer(n), put'[t][Customer(n)])
    BY <1>2, RowNames, NewIsNew DEF Fits
  <2> QED BY <2>1, <1>2, <1>7, <1>9, <1>11, <1>12 DEF Writes
<1>17. Writes(t, Slug_(slug))'
  BY <1>a, <1>3, <1>1, <1>2, <1>7, <1>9, <1>11, <1>12, <1>14 DEF Writes, Fits
<1>18. Writes(t, Branch(n))'
  BY <1>7, <1>9, <1>12 DEF Writes, Fits
<1>19. Writes(t, Doc(n))' /\ Writes(t, Site(n))'
  <2>1. NewDoc(t, Doc(n))' /\ NewDoc(t, Site(n))'
    BY <1>1, <1>2, <1>11 DEF NewDoc
  <2> QED BY <2>1, <1>7 DEF Writes, Fits
<1>20. Writes(t, Audit(t))'
  BY <1>7, OtherTables
<1>21. \A r \in DOMAIN put'[t] : Writes(t, r)'
  BY <1>9, <1>12, <1>15, <1>16, <1>17, <1>18, <1>19, <1>20
<1> QED BY <1>10, <1>13, <1>21, Onward DEF TxInv

(* The library is locked, and so is what was read of it. *)
LEMMA IdentifyOrgStep ==
  ASSUME SInv, NEW t \in Tx, IdentifyOrg(t)
  PROVE  SInv'
<1>1. At(t, "identify", "org") /\ Shape
  BY DEF IdentifyOrg, SInv
<1>2. Running(t) /\ Free(t, Wants(t)) /\ op[t].kind = "identify" /\ pc[t] = "org"
  BY <1>1, AtRuns
<1>3. /\ pc' = [pc EXCEPT ![t] = "branch"] /\ lock' = [lock EXCEPT ![t] = @ \cup Wants(t)]
      /\ put' = [put EXCEPT ![t] = Over(<<>>, @)] /\ UNCHANGED <<db, op, todo>>
      /\ seen' = [seen EXCEPT ![t] = [read |-> db[Org(op[t].row)].customer]]
  BY DEF IdentifyOrg, Take
<1>4. /\ pc = [u \in Tx |-> pc[u]] /\ seen = [u \in Tx |-> seen[u]] /\ todo = [u \in Tx |-> todo[u]]
      /\ put = [u \in Tx |-> put[u]] /\ lock = [u \in Tx |-> lock[u]]
  BY <1>1 DEF Shape
<1>5. /\ pc'[t] = "branch" /\ put'[t] = Over(<<>>, put[t]) /\ seen'[t].read = db[Org(op[t].row)].customer
      /\ lock'[t] = lock[t] \cup Wants(t)
  BY ONLY <1>3, <1>4
<1>6. /\ \E x : put' = [put EXCEPT ![t] = Over(x, @)]
      /\ pc' = [u \in Tx |-> pc'[u]] /\ seen' = [u \in Tx |-> seen'[u]] /\ todo' = [u \in Tx |-> todo'[u]]
      /\ \A u \in Tx \ {t} : pc'[u] = pc[u] /\ seen'[u] = seen[u] /\ todo'[u] = todo[u]
  BY ONLY <1>3, <1>4
<1>7. Statement(t, Wants(t))
  BY <1>2, <1>3, <1>5, <1>6 DEF Statement
<1>8. put'[t] = put[t] /\ DOMAIN put[t] = {}
  <2>1. put'[t] = put[t]
    BY <1>1, <1>5, NoRowWritten
  <2> QED BY <2>1, <1>2 DEF SInv, TxInv, About
<1>9. About(t)'
  <2>1. <<Org(op[t].row), Update>> \in lock'[t]
    BY <1>2, <1>5 DEF Wants, IdentifyLock
  <2> QED BY <2>1, <1>2, <1>5, <1>7, <1>8, Arrives DEF Platform
<1> QED BY <1>7, <1>8, <1>9, SilentStep

(* It gets its identity, with its row and its branch's locked. *)
LEMMA IdentifyBranchStep ==
  ASSUME SInv, NEW t \in Tx, IdentifyBranch(t)
  PROVE  SInv'
<1>a. PICK i, read : i = op[t].row /\ read = seen[t].read
  OBVIOUS
<1> DEFINE named   == Identified(db, i, read, t)
           changed == read = 0 \/ db[Branch(i)] = 0
           rec     == Recorded(t, "identify", i)
           w       == IF changed THEN Over(rec, named) ELSE <<>>
<1>1. At(t, "identify", "branch") /\ Go(t, "commit", w)
  BY <1>a DEF IdentifyBranch
<1>2. Running(t) /\ Free(t, Wants(t)) /\ op[t].kind = "identify" /\ pc[t] = "branch"
  BY <1>1, AtRuns
<1>3. /\ Org(i) \in DOMAIN db /\ <<Org(i), Update>> \in lock[t] /\ read = db[Org(i)].customer
  BY <1>a, <1>2 DEF SInv, TxInv, About
<1>4. /\ DOMAIN named = RowsOf(i, read, t)
      /\ named[Org(i)] = Named(db[Org(i)], t) /\ named[Branch(i)] = i
  BY IdentifiedRows
<1>5. db[Org(i)] = [slug |-> db[Org(i)].slug, status |-> db[Org(i)].status, customer |-> db[Org(i)].customer]
  BY <1>3, LibraryRow DEF SInv
<1>6. DOMAIN rec = {Audit(t)}
  BY DEF Recorded, One
<1> HIDE DEF named, rec, changed
<1>7. /\ Audit(t)[1] = "audit" /\ Org(i)[1] = "org" /\ Branch(i)[1] = "branch" /\ Branch(i)[2] = i /\ Org(i)[2] = i
      /\ Customer(New(t))[1] = "customer" /\ Customer(New(t))[2] = New(t)
  BY RowNames
<1>8. CASE ~changed
  <2>1. Go(t, "commit", <<>>)
    BY <1>1, <1>8
  <2>2. Statement(t, Wants(t)) /\ pc'[t] = "commit" /\ put'[t] = Over(<<>>, put[t]) /\ seen'[t] = seen[t]
        /\ lock'[t] = lock[t] \cup Wants(t)
    BY <2>1, <1>2, GoIsStatement
  <2>3. put'[t] = put[t]
    BY <2>2, NoRowWritten DEF SInv
  <2>4. About(t)'
    BY <2>2, <1>a, <1>2, <1>3, Arrives DEF Platform
  <2> QED BY <2>2, <2>3, <2>4, SilentStep
<1>9. CASE changed
  <2> DEFINE x == Over(rec, named)
  <2>1. Go(t, "commit", x)
    BY <1>1, <1>9
  <2>2. /\ DOMAIN x = DOMAIN named \cup {Audit(t)}
        /\ x[Org(i)] = named[Org(i)] /\ x[Branch(i)] = i
    BY ONLY <1>4, <1>6, <1>7 DEF Over, RowsOf
  <2> HIDE DEF x
  <2>3. Statement(t, Wants(t)) /\ pc'[t] = "commit" /\ put'[t] = Over(x, put[t]) /\ seen'[t] = seen[t]
        /\ lock'[t] = lock[t] \cup Wants(t)
    BY <2>1, <1>2, GoIsStatement
  <2>4. About(t)'
    BY <2>3, <1>a, <1>2, <1>3, Arrives DEF Platform
  <2>5. DOMAIN put'[t] = DOMAIN x /\ \A r \in DOMAIN x : put'[t][r] = x[r]
    BY <2>3, <1>2, FirstRows
  <2>6. db' = db /\ op' = op
    BY <2>3 DEF Statement
  <2>7. /\ Org(i) \in DOMAIN put'[t] /\ put'[t][Org(i)].slug = db[Org(i)].slug
        /\ put'[t][Org(i)] = [slug |-> put'[t][Org(i)].slug, status |-> put'[t][Org(i)].status,
                              customer |-> put'[t][Org(i)].customer]
        /\ put'[t][Org(i)].customer = IF db[Org(i)].customer = 0 THEN New(t) ELSE db[Org(i)].customer
    <3>1. Org(i) \in DOMAIN put'[t] /\ put'[t][Org(i)] = named[Org(i)]
      BY <2>2, <2>5, <1>4 DEF RowsOf
    <3> QED BY ONLY <3>1, <1>4, <1>5 DEF Named
  <2>8. Writes(t, Org(i))'
    <3>1. read = 0 => Customer(New(t)) \in DOMAIN put'[t]
      BY <1>4, <2>2, <2>5 DEF RowsOf
    <3>2. OwnOrg(t, Org(i))'
      BY <3>1, <1>a, <1>3, <2>3, <2>6, <2>7 DEF OwnOrg
    <3>3. Fits(Org(i), put'[t][Org(i)])
      BY <1>7, <2>7 DEF Fits
    <3> QED BY <3>2, <3>3, <1>7 DEF Writes
  <2>9. read = 0 => Writes(t, Customer(New(t)))'
    <3> HAVE read = 0
    <3>1. Fits(Customer(New(t)), put'[t][Customer(New(t))])
      BY <1>7, NewIsNew DEF Fits
    <3> QED BY <3>1, <1>a, <1>3, <1>7, <2>6, <2>7 DEF Writes
  <2>10. Writes(t, Branch(i))'
    BY <1>4, <1>7, <2>2, <2>5 DEF Writes, Fits, RowsOf
  <2>11. Writes(t, Audit(t))'
    BY <1>7, OtherTables
  <2>12. \A r \in DOMAIN put'[t] : Writes(t, r)'
    BY <1>4, <2>2, <2>5, <2>8, <2>9, <2>10, <2>11 DEF RowsOf
  <2> QED BY <2>3, <2>4, <2>12, Onward DEF TxInv
<1> QED BY <1>8, <1>9

(* An enrollment. *)
LEMMA EnrollStep ==
  ASSUME SInv, NEW t \in Tx, EnrollOrg(t) \/ EnrollBranch(t)
  PROVE  SInv'
<1>1. CASE EnrollOrg(t)
  <2>1. At(t, "enroll", "org") /\ Go(t, "branch", <<>>)
    BY <1>1 DEF EnrollOrg
  <2>2. Running(t) /\ Free(t, Wants(t)) /\ op[t].kind = "enroll" /\ pc[t] = "org"
    BY <2>1, AtRuns
  <2>3. Statement(t, Wants(t)) /\ pc'[t] = "branch" /\ put'[t] = Over(<<>>, put[t])
    BY <2>1, <2>2, GoIsStatement
  <2>4. put'[t] = put[t] /\ DOMAIN put[t] = {}
    <3>1. put'[t] = put[t]
      BY <2>3, NoRowWritten DEF SInv
    <3> QED BY <3>1, <2>2 DEF SInv, TxInv, About
  <2>5. About(t)'
    BY <2>2, <2>3, <2>4, Arrives DEF Platform
  <2> QED BY <2>3, <2>4, <2>5, SilentStep
<1>2. CASE EnrollBranch(t)
  <2> DEFINE r == Handed(op[t].row)
             w == One(r, HandOut(Effective(db, op[t].row)))
  <2>1. At(t, "enroll", "branch") /\ Go(t, "commit", w) /\ DOMAIN w = {r}
    BY <1>2 DEF EnrollBranch, One
  <2>2. Running(t) /\ Free(t, Wants(t)) /\ op[t].kind = "enroll" /\ pc[t] = "branch"
    BY <2>1, AtRuns
  <2>3. r[1] = "handed"
    BY RowNames
  <2> HIDE DEF r, w
  <2> QED BY <2>1, <2>2, <2>3, PlainStep
<1> QED BY <1>1, <1>2

(* A library's status, its administrator, its sorter. *)
LEMMA DecideStep ==
  ASSUME SInv, NEW t \in Tx, Decide(t)
  PROVE  SInv'
<1>a. PICK i, status : i = op[t].row /\ status = op[t].arg
  OBVIOUS
<1>b. PICK org : org = db[Org(i)]
  OBVIOUS
<1> DEFINE v == [org EXCEPT !.status = status]
<1>1. CASE At(t, "status", "status") /\ Go(t, "commit", One(Org(i), v))
  <2>1. Running(t) /\ Free(t, Wants(t)) /\ op[t].kind = "status" /\ pc[t] = "status"
    BY <1>1, AtRuns
  <2>2. Org(i) \in DOMAIN db
    BY <1>a, <2>1 DEF SInv, TxInv, About
  <2>3. org = [slug |-> org.slug, status |-> org.status, customer |-> org.customer]
    BY <1>b, <2>2, LibraryRow DEF SInv
  <2>4. v = [slug |-> v.slug, status |-> v.status, customer |-> v.customer] /\ v.slug = org.slug /\ v.customer = org.customer
    BY ONLY <2>3
  <2> HIDE DEF v
  <2>5. Statement(t, Wants(t)) /\ pc'[t] = "commit" /\ put'[t] = Over(One(Org(i), v), put[t])
        /\ lock'[t] = lock[t] \cup Wants(t)
    BY <1>1, <2>1, GoIsStatement
  <2>6. db' = db /\ op' = op
    BY <2>5 DEF Statement
  <2>7. DOMAIN put'[t] = {Org(i)} /\ put'[t][Org(i)] = v
    <3>1. DOMAIN put[t] = {}
      BY <2>1 DEF SInv, TxInv, About
    <3> QED BY <3>1, <2>5, OneRowWritten
  <2>8. About(t)'
    BY <2>1, <2>5, Arrives DEF Platform
  <2>9. Writes(t, Org(i))'
    <3>1. <<Org(i), Update>> \in lock'[t]
      BY <1>a, <2>1, <2>5 DEF Wants
    <3>2. OwnOrg(t, Org(i))'
      BY <3>1, <1>a, <1>b, <2>2, <2>4, <2>6, <2>7 DEF OwnOrg
    <3>3. Org(i)[1] = "org" /\ Org(i)[2] = i
      BY RowNames
    <3>4. Fits(Org(i), v)
      BY <3>3, <2>4 DEF Fits
    <3> QED BY <3>2, <3>3, <3>4, <2>7 DEF Writes
  <2> QED BY <2>5, <2>7, <2>8, <2>9, Onward DEF TxInv
<1>2. CASE At(t, "remove", "remove") /\ Go(t, "commit", One(Member(i), FALSE))
  <2>1. Running(t) /\ Free(t, Wants(t)) /\ op[t].kind = "remove" /\ pc[t] = "remove"
    BY <1>2, AtRuns
  <2> DEFINE r == Member(i)
             w == One(r, FALSE)
  <2>2. r[1] = "member" /\ DOMAIN w = {r} /\ Go(t, "commit", w)
    BY <1>2, RowNames DEF One
  <2> HIDE DEF r, w
  <2> QED BY <2>1, <2>2, PlainStep
<1>3. CASE At(t, "unhost", "unhost") /\ Go(t, "commit", One(Sorter(i), FALSE))
  <2>1. Running(t) /\ Free(t, Wants(t)) /\ op[t].kind = "unhost" /\ pc[t] = "unhost"
    BY <1>3, AtRuns
  <2> DEFINE r == Sorter(i)
             w == One(r, FALSE)
  <2>2. r[1] = "sorter" /\ DOMAIN w = {r} /\ Go(t, "commit", w)
    BY <1>3, RowNames DEF One
  <2> HIDE DEF r, w
  <2> QED BY <2>1, <2>2, PlainStep
<1> QED BY <1>a, <1>b, <1>1, <1>2, <1>3 DEF Decide

-----------------------------------------------------------------------------
(* The operations begin and end.                                           *)

(* What begins is about a library that is there, or about a new one.       *)
Begins(t, kind, row) ==
  /\ kind # "none" /\ (IF kind = "provision" THEN row = New(t) ELSE Org(row) \in DOMAIN db)
  /\ \E arg : \E where \in {"issue", "org", "slug", "status", "remove", "unhost"} : Start(t, kind, row, arg, where)

LEMMA BeginIsStart ==
  ASSUME SInv, NEW t \in Tx, BeginCustomer(t) \/ BeginPlatform(t)
  PROVE  \E kind, row : Begins(t, kind, row)
<1>1. \A i \in Libraries(db) : Org(i) \in DOMAIN db
  BY LibraryRow DEF SInv
<1>2. CASE BeginCustomer(t)
  <2>1. PICK i \in Libraries(db), kind \in Customers : \E w : Put(t, kind, i, w)
    BY <1>2 DEF BeginCustomer, Customers
  <2>2. \E w : Start(t, kind, i, w, "issue")
    BY <2>1 DEF Put
  <2>3. kind \notin {"none", "provision"}
    BY DEF Customers
  <2> QED BY <1>1, <2>2, <2>3 DEF Begins
<1>3. CASE \E s \in Slugs : Start(t, "provision", New(t), s, "slug")
  <2>1. Begins(t, "provision", New(t))
    BY <1>3 DEF Begins
  <2> QED BY <2>1
<1>4. CASE \E i \in Libraries(db) :
             \/ \E w \in ListWishes : Put(t, "internal", i, w)
             \/ Put(t, "review", i, "a zone")
             \/ Start(t, "identify", i, "none", "org") \/ Start(t, "enroll", i, "none", "org")
             \/ \E s \in {"active", "suspended", "cancelled"} : Start(t, "status", i, s, "status")
             \/ Start(t, "remove", i, "none", "remove")
             \/ Start(t, "unhost", i, "none", "unhost")
  <2>1. PICK i \in Libraries(db) :
             \/ \E w : Put(t, "internal", i, w)
             \/ Put(t, "review", i, "a zone")
             \/ Start(t, "identify", i, "none", "org") \/ Start(t, "enroll", i, "none", "org")
             \/ \E s : Start(t, "status", i, s, "status")
             \/ Start(t, "remove", i, "none", "remove")
             \/ Start(t, "unhost", i, "none", "unhost")
    BY <1>4
  <2>2. \/ \E w : Start(t, "internal", i, w, "issue")
        \/ Start(t, "review", i, "a zone", "issue")
        \/ Start(t, "identify", i, "none", "org") \/ Start(t, "enroll", i, "none", "org")
        \/ \E s : Start(t, "status", i, s, "status")
        \/ Start(t, "remove", i, "none", "remove")
        \/ Start(t, "unhost", i, "none", "unhost")
    BY <2>1 DEF Put
  <2>3. Org(i) \in DOMAIN db
    BY <1>1
  <2> HIDE DEF Start
  <2>4. \E kind \in {"internal", "review", "identify", "enroll", "status", "remove", "unhost"} :
          \E arg : \E where \in {"issue", "org", "slug", "status", "remove", "unhost"} : Start(t, kind, i, arg, where)
    BY <2>2
  <2> QED BY <2>3, <2>4 DEF Begins
<1> QED BY <1>2, <1>3, <1>4 DEF BeginPlatform

(* It begins with nothing written and nothing locked. *)
LEMMA BeginStep ==
  ASSUME SInv, NEW t \in Tx, BeginCustomer(t) \/ BeginPlatform(t)
  PROVE  SInv'
<1>1. PICK kind, row : Begins(t, kind, row)
  BY BeginIsStart
<1>2. PICK where \in {"issue", "org", "slug", "status", "remove", "unhost"} : \E arg : Start(t, kind, row, arg, where)
  BY <1>1 DEF Begins
<1>a. PICK arg : Start(t, kind, row, arg, where)
  BY <1>2
<1>3. Shape /\ Exclusion /\ TxInv(t)
  BY DEF SInv
<1>4. /\ pc[t] = "idle" /\ UNCHANGED <<db, todo, put, lock>>
      /\ op'[t] = [kind |-> kind, row |-> row, arg |-> arg] /\ pc'[t] = where
      /\ \A u \in Tx \ {t} : op'[u] = op[u] /\ pc'[u] = pc[u] /\ seen'[u] = seen[u]
      /\ pc' = [u \in Tx |-> pc'[u]] /\ op' = [u \in Tx |-> op'[u]] /\ seen' = [u \in Tx |-> seen'[u]]
  BY <1>a, <1>3 DEF Start, Waiting, Shape
<1>5. lock[t] = {} /\ DOMAIN put[t] = {}
  BY <1>3, <1>4 DEF Shape, Running
<1>6. Shape'
  <2>1. \A u \in Tx : ~Running(u)' => lock'[u] = {} /\ todo'[u] = {} /\ DOMAIN put'[u] = {} /\ op'[u].kind = "none"
    BY <1>3, <1>4 DEF Shape, Running
  <2> QED BY <1>3, <1>4, <2>1 DEF Shape
<1>7. Exclusion'
  BY <1>3, <1>4 DEF Exclusion, Conflict
<1>8. \A u \in Tx : u # t => TxInv(u)'
  <2> TAKE u \in Tx
  <2> HAVE u # t
  <2>1. TxInv(u)
    BY DEF SInv
  <2> QED BY <2>1, <1>4, OthersStay
<1>9. TxInv(t)'
  <2>1. Org(New(t)) \notin DOMAIN db /\ Customer(New(t)) \notin DOMAIN db
    BY <1>3, <1>4 DEF TxInv, About
  <2>2. op'[t].kind = kind /\ op'[t].row = row /\ kind # "none"
        /\ (IF kind = "provision" THEN row = New(t) ELSE Org(row) \in DOMAIN db)
    BY <1>1, <1>4 DEF Begins
  <2>3. About(t)'
    BY <1>4, <1>5, <2>1, <2>2 DEF About
  <2> QED BY <1>4, <1>5, <2>3 DEF TxInv
<1>10. Typed(db') /\ Kept(db') /\ Complete(db')
  BY <1>4 DEF SInv
<1> QED BY <1>6, <1>7, <1>8, <1>9, <1>10 DEF SInv

(* What ends a transaction leaves the others alone, and nothing of it. *)
LEMMA EndFrame ==
  ASSUME SInv, NEW t \in Tx, End(t), db' = db \/ DOMAIN db \subseteq DOMAIN db'
  PROVE  /\ Shape' /\ Exclusion' /\ TxInv(t)'
         /\ \A u \in Tx \ {t} : /\ op'[u] = op[u] /\ pc'[u] = pc[u] /\ seen'[u] = seen[u]
                                /\ put'[u] = put[u] /\ lock'[u] = lock[u]
<1>1. Shape /\ Exclusion
  BY DEF SInv
<1>2. /\ pc'[t] = "done" /\ op'[t] = [kind |-> "none"] /\ put'[t] = <<>>
      /\ \A u \in Tx \ {t} : /\ op'[u] = op[u] /\ pc'[u] = pc[u] /\ seen'[u] = seen[u]
                             /\ put'[u] = put[u] /\ lock'[u] = lock[u]
  BY <1>1 DEF End, Shape
<1>3. DOMAIN put'[t] = {}
  BY <1>2
<1>4. TxInv(t)'
  BY <1>2, <1>3 DEF TxInv, About, Platform
<1> QED BY <1>1, <1>2, <1>4, EndExcludes

(* A transaction is rolled back. *)
LEMMA FailStep ==
  ASSUME SInv, NEW t \in Tx, Fail(t)
  PROVE  SInv'
<1>1. End(t) /\ db' = db
  BY DEF Fail
<1>2. /\ Shape' /\ Exclusion' /\ TxInv(t)'
      /\ \A u \in Tx \ {t} : /\ op'[u] = op[u] /\ pc'[u] = pc[u] /\ seen'[u] = seen[u]
                             /\ put'[u] = put[u] /\ lock'[u] = lock[u]
  BY <1>1, EndFrame
<1>3. \A u \in Tx : TxInv(u)'
  <2> TAKE u \in Tx
  <2>1. TxInv(u)
    BY DEF SInv
  <2>2. CASE u = t
    BY <2>2, <1>2
  <2>3. CASE u # t
    BY <2>1, <2>3, <1>1, <1>2, OthersStay
  <2> QED BY <2>2, <2>3
<1>4. Typed(db') /\ Kept(db') /\ Complete(db')
  BY <1>1 DEF SInv
<1> QED BY <1>2, <1>3, <1>4 DEF SInv

-----------------------------------------------------------------------------
(* A commit, and the transactions it overtakes.                            *)

(* A library that was there, and that another has locked, is not written.  *)
LEMMA LockedOrg ==
  ASSUME SInv, NEW t \in Tx, pc[t] = "commit", NEW u \in Tx, u # t,
         NEW r, r[1] = "org", r \in DOMAIN db, <<r, Update>> \in lock[u]
  PROVE  r \notin DOMAIN put[t]
<1> SUFFICES ASSUME r \in DOMAIN put[t] PROVE FALSE
  OBVIOUS
<1>1. OwnOrg(t, r) \/ NewOrg(t, r)
  BY DEF SInv, TxInv, Writes
<1>2. ~NewOrg(t, r)
  BY DEF SInv, TxInv, About, NewOrg
<1>3. <<r, Update>> \in lock[t]
  BY <1>1, <1>2 DEF OwnOrg
<1> QED BY <1>3, ExclusiveRow DEF SInv, Update

(* So it is with a document, and a slug. *)
LEMMA LockedDoc ==
  ASSUME SInv, NEW t \in Tx, pc[t] = "commit", NEW u \in Tx, u # t, op[u].kind \in Writers,
         <<DocOf(op[u]), NoKeyUpdate>> \in lock[u]
  PROVE  DocOf(op[u]) \notin DOMAIN put[t]
<1> DEFINE r == DocOf(op[u])
<1> SUFFICES ASSUME r \in DOMAIN put[t] PROVE FALSE
  OBVIOUS
<1>1. OwnDoc(t, r) \/ NewDoc(t, r)
  BY DocumentRow DEF SInv, TxInv, Writes
<1>2. ~NewDoc(t, r)
  <2>1. r \in {Doc(op[u].row), Site(op[u].row)}
    BY DEF DocOf
  <2>2. op[u].kind \notin {"none", "provision"}
    BY DEF Writers, Customers, Platform
  <2>3. Org(op[u].row) \in DOMAIN db /\ Org(New(t)) \notin DOMAIN db
    BY <2>2 DEF SInv, TxInv, About
  <2>4. r[2] = op[u].row
    BY <2>1, RowNames
  <2> QED BY <2>3, <2>4, RowNames DEF NewDoc
<1>3. <<r, NoKeyUpdate>> \in lock[t]
  BY <1>1, <1>2 DEF OwnDoc
<1> QED BY <1>3, ExclusiveRow DEF SInv, NoKeyUpdate

LEMMA LockedSlug ==
  ASSUME SInv, NEW t \in Tx, NEW u \in Tx, u # t, NEW r, r[1] = "slug", <<r, Update>> \in lock[u]
  PROVE  r \notin DOMAIN put[t]
<1> SUFFICES ASSUME r \in DOMAIN put[t] PROVE FALSE
  OBVIOUS
<1>1. <<r, Update>> \in lock[t]
  BY DEF SInv, TxInv, Writes
<1> QED BY <1>1, ExclusiveRow DEF SInv, Update

(* What the others are in stands after a commit. *)
LEMMA OthersAfterCommit ==
  ASSUME SInv, NEW t \in Tx, Commit(t), NEW u \in Tx, u # t
  PROVE  TxInv(u)'
<1>1. pc[t] = "commit" /\ End(t)
  BY DEF Commit
<1>2. /\ DOMAIN db' = DOMAIN put[t] \cup DOMAIN db
      /\ \A r \in DOMAIN db : r \notin DOMAIN put[t] => db'[r] = db[r]
  BY RowsAfterCommit
<1>3. op'[u] = op[u] /\ pc'[u] = pc[u] /\ seen'[u] = seen[u] /\ put'[u] = put[u] /\ lock'[u] = lock[u]
  BY <1>1, <1>2, EndFrame
<1>4. TxInv(u) /\ TxInv(t)
  BY DEF SInv
<1>5. \A r \in DOMAIN db : r[1] = "org" /\ <<r, Update>> \in lock[u] => db'[r] = db[r]
  BY <1>1, <1>2, LockedOrg
<1>6. About(u)'
  <2>1. op[u].kind \notin {"none", "provision"} => Org(op[u].row) \in DOMAIN db'
    BY <1>2, <1>4 DEF TxInv, About
  <2>2. op[u].kind = "identify" /\ pc[u] \in {"branch", "commit"} => seen[u].read = db'[Org(op[u].row)].customer
    <3>1. Org(op[u].row)[1] = "org"
      BY RowNames
    <3> QED BY <3>1, <1>4, <1>5 DEF TxInv, About
  <2>3. pc[u] # "done" => Org(New(u)) \notin DOMAIN db'
    <3> HAVE pc[u] # "done"
    <3>1. Org(New(u)) \notin DOMAIN db
      BY <1>4 DEF TxInv, About
    <3>2. Org(New(u)) \notin DOMAIN put[t]
      <4> SUFFICES ASSUME Org(New(u)) \in DOMAIN put[t] PROVE FALSE
        OBVIOUS
      <4>1. OwnOrg(t, Org(New(u))) \/ NewOrg(t, Org(New(u)))
        BY <1>4, RowNames DEF TxInv, Writes
      <4>2. Org(New(u)) = Org(New(t))
        BY <4>1, <3>1 DEF OwnOrg, NewOrg
      <4> QED BY <4>2, RowNames, NewIsNew
    <3> QED BY <1>2, <3>1, <3>2
  <2>4. pc[u] # "done" => Customer(New(u)) \notin DOMAIN db'
    <3> HAVE pc[u] # "done"
    <3>1. Customer(New(u)) \notin DOMAIN db
      BY <1>4 DEF TxInv, About
    <3>2. Customer(New(u)) \notin DOMAIN put[t]
      <4> SUFFICES ASSUME Customer(New(u)) \in DOMAIN put[t] PROVE FALSE
        OBVIOUS
      <4>0. Writes(t, Customer(New(u))) /\ Customer(New(u))[1] = "customer"
        BY <1>4, RowNames DEF TxInv
      <4>1. Customer(New(u)) = Customer(New(t))
        BY <4>0 DEF Writes
      <4> QED BY <4>1, RowNames, NewIsNew
    <3> QED BY <1>2, <3>1, <3>2
  <2> QED BY <1>3, <1>4, <2>1, <2>2, <2>3, <2>4 DEF TxInv, About
<1>7. ASSUME NEW r \in DOMAIN put'[u] PROVE Writes(u, r)'
  <2>1. r \in DOMAIN put[u] /\ Writes(u, r)
    BY <1>3, <1>4, <1>7 DEF TxInv
  <2>2. r[1] = "org" => (OwnOrg(u, r) => OwnOrg(u, r)')
    BY <1>2, <1>3, <1>5 DEF OwnOrg
  <2>3. NewOrg(u, r) => NewOrg(u, r)'
    BY <1>3 DEF NewOrg
  <2>4. OwnDoc(u, r) => OwnDoc(u, r)'
    <3> HAVE OwnDoc(u, r)
    <3>1. r \notin DOMAIN put[t]
      BY <1>1, LockedDoc DEF OwnDoc
    <3>2. Stored(db', r) = Stored(db, r)
      BY <1>2, <3>1 DEF Stored
    <3> QED BY <1>3, <3>2 DEF OwnDoc
  <2>5. NewDoc(u, r) => NewDoc(u, r)'
    BY <1>3 DEF NewDoc
  <2>6. r[1] = "slug" => r \notin DOMAIN db'
    BY <1>2, <2>1, LockedSlug DEF Writes
  <2> QED BY <1>3, <2>1, <2>2, <2>3, <2>4, <2>5, <2>6 DEF Writes
<1> QED BY <1>6, <1>7 DEF TxInv

(* What a commit makes of the libraries: of those that were there it       *)
(* changes no slug, and a customer only from none to a new one; what it    *)
(* adds is the new library, complete.                                      *)
LEMMA LibrariesAfterCommit ==
  ASSUME SInv, NEW t \in Tx, Commit(t)
  PROVE  /\ Typed(db')
         /\ \A i \in Libraries(db) :
              /\ i \in Libraries(db') /\ db'[Org(i)].slug = db[Org(i)].slug
              /\ \/ db'[Org(i)].customer = db[Org(i)].customer
                 \/ db[Org(i)].customer = 0 /\ db'[Org(i)].customer = New(t) /\ Customer(New(t)) \in DOMAIN db'
         /\ \A i \in Libraries(db') \ Libraries(db) :
              i = New(t) /\ op[t].kind = "provision" /\ NewOrg(t, Org(i)) /\ Org(i) \in DOMAIN put[t]
<1>1. /\ DOMAIN db' = DOMAIN put[t] \cup DOMAIN db
      /\ \A r \in DOMAIN put[t] : db'[r] = put[t][r]
      /\ \A r \in DOMAIN db : r \notin DOMAIN put[t] => db'[r] = db[r]
      /\ db' = [r \in DOMAIN db' |-> db'[r]]
  BY RowsAfterCommit
<1>2. Typed(db) /\ pc[t] = "commit" /\ \A r \in DOMAIN put[t] : Writes(t, r)
  BY DEF SInv, TxInv, Commit
<1>3. Typed(db')
  BY <1>1, <1>2 DEF Typed, Writes
<1>4. Org(New(t)) \notin DOMAIN db
  BY <1>2 DEF SInv, TxInv, About
<1>5. ASSUME NEW i \in Libraries(db)
      PROVE  /\ i \in Libraries(db') /\ db'[Org(i)].slug = db[Org(i)].slug
             /\ \/ db'[Org(i)].customer = db[Org(i)].customer
                \/ db[Org(i)].customer = 0 /\ db'[Org(i)].customer = New(t) /\ Customer(New(t)) \in DOMAIN db'
  <2>1. Org(i) \in DOMAIN db
    BY <1>2, <1>5, LibraryRow
  <2>2. i \in Libraries(db')
    BY <1>1, <1>3, <2>1, LibraryRow
  <2>3. CASE Org(i) \notin DOMAIN put[t]
    BY <1>1, <2>1, <2>2, <2>3
  <2>4. CASE Org(i) \in DOMAIN put[t]
    <3>1. OwnOrg(t, Org(i)) \/ NewOrg(t, Org(i))
      BY <1>2, <2>4, RowNames DEF Writes
    <3>2. OwnOrg(t, Org(i))
      BY <1>4, <2>1, <3>1 DEF NewOrg
    <3> QED BY <1>1, <2>2, <2>4, <3>2 DEF OwnOrg
  <2> QED BY <2>3, <2>4
<1>6. ASSUME NEW i \in Libraries(db') \ Libraries(db)
      PROVE  i = New(t) /\ op[t].kind = "provision" /\ NewOrg(t, Org(i)) /\ Org(i) \in DOMAIN put[t]
  <2>1. Org(i) \in DOMAIN db' /\ Org(i) \notin DOMAIN db
    BY <1>2, <1>3, <1>6, LibraryRow
  <2>2. Org(i) \in DOMAIN put[t]
    BY <1>1, <2>1
  <2>3. OwnOrg(t, Org(i)) \/ NewOrg(t, Org(i))
    BY <1>2, <2>2, RowNames DEF Writes
  <2>4. NewOrg(t, Org(i))
    BY <2>1, <2>3 DEF OwnOrg
  <2>5. i = New(t)
    BY <2>4, RowNames DEF NewOrg
  <2> QED BY <2>2, <2>4, <2>5 DEF NewOrg
<1> QED BY <1>3, <1>5, <1>6

(* Identities stay one. *)
LEMMA KeptAfterCommit ==
  ASSUME SInv, NEW t \in Tx, Commit(t)
  PROVE  Kept(db')
<1>1. /\ DOMAIN db' = DOMAIN put[t] \cup DOMAIN db
      /\ \A r \in DOMAIN put[t] : db'[r] = put[t][r]
      /\ \A r \in DOMAIN db : r \notin DOMAIN put[t] => db'[r] = db[r]
  BY RowsAfterCommit
<1>2. Typed(db) /\ Kept(db) /\ pc[t] = "commit" /\ (\A r \in DOMAIN put[t] : Writes(t, r)) /\ About(t)
  BY DEF SInv, TxInv, Commit
<1>3. /\ Typed(db')
      /\ \A i \in Libraries(db) :
           /\ i \in Libraries(db') /\ db'[Org(i)].slug = db[Org(i)].slug
           /\ \/ db'[Org(i)].customer = db[Org(i)].customer
              \/ db[Org(i)].customer = 0 /\ db'[Org(i)].customer = New(t) /\ Customer(New(t)) \in DOMAIN db'
      /\ \A i \in Libraries(db') \ Libraries(db) :
           i = New(t) /\ op[t].kind = "provision" /\ NewOrg(t, Org(i)) /\ Org(i) \in DOMAIN put[t]
  BY LibrariesAfterCommit
<1>4. Org(New(t)) \notin DOMAIN db /\ Customer(New(t)) \notin DOMAIN db /\ New(t) # 0
  BY <1>2, NewIsNew DEF About
<1>5. \A i \in Libraries(db') \ Libraries(db) :
        /\ db'[Org(i)].slug = op[t].arg /\ db'[Org(i)].customer = New(t)
        /\ {Slug_(op[t].arg), Customer(New(t))} \subseteq DOMAIN put[t]
  BY <1>1, <1>3 DEF NewOrg
<1>6. ASSUME NEW r \in DOMAIN db', r[1] = "customer"
      PROVE  \E i \in Libraries(db') : LibrariesOf(db', r[2]) = {i}
  <2>1. r = Customer(r[2]) /\ r[2] # 0
    BY <1>3, <1>6, LibraryRow
  <2>2. CASE r \in DOMAIN db
    <3>1. PICK j \in Libraries(db) : LibrariesOf(db, r[2]) = {j}
      BY <1>2, <1>6, <2>2 DEF Kept
    <3>2. r[2] # New(t)
      BY <1>4, <2>1, <2>2
    <3>3. j \in Libraries(db') /\ db'[Org(j)].customer = r[2]
      BY <1>3, <2>1, <3>1 DEF LibrariesOf
    <3>4. \A k \in Libraries(db') : db'[Org(k)].customer = r[2] => k = j
      BY <1>3, <1>5, <3>1, <3>2 DEF LibrariesOf
    <3> QED BY <3>3, <3>4 DEF LibrariesOf
  <2>3. CASE r \notin DOMAIN db
    <3>1. r \in DOMAIN put[t]
      BY <1>1, <2>3
    <3>a. Writes(t, r)
      BY <1>2, <3>1
    <3>b. r = Customer(New(t)) /\ Org(op[t].row) \in DOMAIN put[t] /\ put[t][Org(op[t].row)].customer = New(t)
      BY <1>6, <3>a DEF Writes
    <3>2. r[2] = New(t) /\ Org(op[t].row) \in DOMAIN put[t] /\ put[t][Org(op[t].row)].customer = New(t)
      BY <3>b, RowNames
    <3>3. op[t].row \in Libraries(db') /\ db'[Org(op[t].row)].customer = New(t)
      BY <1>1, <1>3, <3>2, LibraryRow
    <3>4. ASSUME NEW k \in Libraries(db'), db'[Org(k)].customer = New(t) PROVE k = op[t].row
      <4>1. CASE k \notin Libraries(db)
        BY <1>2, <1>3, <3>4, <4>1 DEF About
      <4>2. CASE k \in Libraries(db)
        <5>1. Org(k) \in DOMAIN db
          BY <1>2, <4>2, LibraryRow
        <5>2. db[Org(k)].customer # New(t)
          BY <1>2, <1>4, <4>2 DEF Kept
        <5>3. Org(k) \in DOMAIN put[t]
          BY <1>1, <3>4, <5>1, <5>2
        <5>4. OwnOrg(t, Org(k)) \/ NewOrg(t, Org(k))
          BY <1>2, <5>3, RowNames DEF Writes
        <5>5. Org(k) = Org(op[t].row)
          BY <1>4, <5>1, <5>4 DEF OwnOrg, NewOrg
        <5> QED BY <5>5, RowNames
      <4> QED BY <4>1, <4>2
    <3> QED BY <3>2, <3>3, <3>4 DEF LibrariesOf
  <2> QED BY <2>2, <2>3
<1>7. ASSUME NEW i \in Libraries(db')
      PROVE  /\ db'[Org(i)].customer = 0 \/ Customer(db'[Org(i)].customer) \in DOMAIN db'
             /\ Slug_(db'[Org(i)].slug) \in DOMAIN db' /\ db'[Slug_(db'[Org(i)].slug)] = i
  <2>1. CASE i \in Libraries(db)
    <3>1. /\ db[Org(i)].customer = 0 \/ Customer(db[Org(i)].customer) \in DOMAIN db
          /\ Slug_(db[Org(i)].slug) \in DOMAIN db /\ db[Slug_(db[Org(i)].slug)] = i
      BY <1>2, <2>1 DEF Kept
    <3>2. Slug_(db[Org(i)].slug) \notin DOMAIN put[t]
      <4> SUFFICES ASSUME Slug_(db[Org(i)].slug) \in DOMAIN put[t] PROVE FALSE
        OBVIOUS
      <4>1. Writes(t, Slug_(db[Org(i)].slug)) /\ Slug_(db[Org(i)].slug)[1] = "slug"
        BY <1>2, RowNames
      <4> QED BY <3>1, <4>1 DEF Writes
    <3> QED BY <1>1, <1>3, <2>1, <3>1, <3>2
  <2>2. CASE i \notin Libraries(db)
    <3>1. put[t][Slug_(op[t].arg)] = New(t)
      <4>1. Writes(t, Slug_(op[t].arg)) /\ Slug_(op[t].arg)[1] = "slug"
        BY <1>2, <1>5, <2>2, RowNames
      <4> QED BY <4>1 DEF Writes
    <3> QED BY <1>1, <1>3, <1>5, <2>2, <3>1
  <2> QED BY <2>1, <2>2
<1> QED BY <1>6, <1>7 DEF Kept

(* What was provisioned is complete. *)
LEMMA CompleteAfterCommit ==
  ASSUME SInv, NEW t \in Tx, Commit(t)
  PROVE  Complete(db')
<1>1. /\ DOMAIN db' = DOMAIN put[t] \cup DOMAIN db
      /\ \A r \in DOMAIN put[t] : db'[r] = put[t][r]
      /\ \A r \in DOMAIN db : r \notin DOMAIN put[t] => db'[r] = db[r]
  BY RowsAfterCommit
<1>2. Complete(db) /\ \A r \in DOMAIN put[t] : Writes(t, r)
  BY DEF SInv, TxInv
<1>3. /\ \A i \in Libraries(db) :
           \/ db'[Org(i)].customer = db[Org(i)].customer
           \/ db[Org(i)].customer = 0 /\ db'[Org(i)].customer = New(t) /\ Customer(New(t)) \in DOMAIN db'
      /\ \A i \in Libraries(db') \ Libraries(db) : i = New(t) /\ NewOrg(t, Org(i)) /\ Org(i) \in DOMAIN put[t]
  BY LibrariesAfterCommit
<1>4. \A i : Branch(i) \in DOMAIN put[t] => db'[Branch(i)] = i
  <2> TAKE i
  <2> HAVE Branch(i) \in DOMAIN put[t]
  <2>1. Writes(t, Branch(i)) /\ Branch(i)[1] = "branch" /\ Branch(i)[2] = i
    BY <1>2, RowNames
  <2>2. put[t][Branch(i)] = i
    BY <2>1 DEF Writes
  <2> QED BY <1>1, <2>2
<1>5. ASSUME NEW i \in Libraries(db'), i > Past
      PROVE  /\ Customer(db'[Org(i)].customer) \in DOMAIN db'
             /\ {Branch(i), Doc(i), Site(i)} \subseteq DOMAIN db' /\ db'[Branch(i)] = i
  <2>1. CASE i \in Libraries(db)
    <3>1. /\ Customer(db[Org(i)].customer) \in DOMAIN db
          /\ {Branch(i), Doc(i), Site(i)} \subseteq DOMAIN db /\ db[Branch(i)] = i
      BY <1>2, <1>5, <2>1 DEF Complete
    <3>2. Customer(db'[Org(i)].customer) \in DOMAIN db'
      BY <1>1, <1>3, <2>1, <3>1
    <3>3. db'[Branch(i)] = i
      BY <1>1, <1>4, <3>1
    <3> QED BY <1>1, <3>1, <3>2, <3>3
  <2>2. CASE i \notin Libraries(db)
    <3>1. i = New(t) /\ NewOrg(t, Org(i)) /\ Org(i) \in DOMAIN put[t]
      BY <1>3, <2>2
    <3>2. /\ put[t][Org(i)].customer = i /\ {Customer(i), Branch(i), Doc(i), Site(i)} \subseteq DOMAIN put[t]
      BY <3>1 DEF NewOrg
    <3> QED BY <1>1, <1>4, <3>1, <3>2
  <2> QED BY <2>1, <2>2
<1> QED BY <1>5 DEF Complete

(* A commit. *)
LEMMA CommitStep ==
  ASSUME SInv, NEW t \in Tx, Commit(t)
  PROVE  SInv'
<1>1. End(t) /\ DOMAIN db \subseteq DOMAIN db'
  BY RowsAfterCommit DEF Commit
<1>2. Shape' /\ Exclusion' /\ TxInv(t)'
  BY <1>1, EndFrame
<1>3. \A u \in Tx : TxInv(u)'
  BY <1>2, OthersAfterCommit
<1>4. Typed(db') /\ Kept(db') /\ Complete(db')
  BY LibrariesAfterCommit, KeptAfterCommit, CompleteAfterCommit
<1> QED BY <1>2, <1>3, <1>4 DEF SInv

-----------------------------------------------------------------------------
(* The invariant, and what it says.                                        *)

(* It holds in the beginning. *)
LEMMA InitHolds ==
  ASSUME Init
  PROVE  SInv
<1>1. PICK p \in Pasts : Begun({p.db}, p.over)
  BY DEF Init
<1>2. Shape /\ Exclusion
  BY <1>1, BegunExcludes
<1>3. db = p.db
  BY <1>1 DEF Begun
<1>4. Typed(db) /\ Kept(db) /\ \A r \in DOMAIN db : r[1] \in {"org", "customer"} => r[2] \in 1..Past
  BY <1>3, SettingsAssumption
<1>5. Complete(db)
  <2>1. \A i \in Libraries(db) : i \in 1..Past
    BY <1>4 DEF Libraries
  <2>2. \A i \in 1..Past : ~(i > Past)
    BY DEF Past
  <2> QED BY <2>1, <2>2 DEF Complete
<1>6. ASSUME NEW t \in Tx PROVE TxInv(t)
  <2>1. op[t].kind = "none" /\ put[t] = <<>> /\ pc[t] \in {"idle", "done"}
    BY <1>1 DEF Begun
  <2>2. DOMAIN put[t] = {}
    BY <2>1
  <2>3. Org(New(t)) \notin DOMAIN db /\ Customer(New(t)) \notin DOMAIN db
    BY <1>4, RowNames, NewIsNew
  <2>4. About(t)
    BY <2>1, <2>2, <2>3 DEF About, Platform
  <2> QED BY <2>2, <2>4 DEF TxInv
<1> QED BY <1>2, <1>4, <1>5, <1>6 DEF SInv

(* Every step keeps it. *)
LEMMA NextHolds ==
  ASSUME SInv, [Next]_vars
  PROVE  SInv'
<1>1. CASE UNCHANGED vars
  <2>1. \A u \in Tx : TxInv(u)'
    BY <1>1, OthersStay DEF vars, SInv
  <2>2. Shape' /\ Exclusion'
    BY <1>1 DEF vars, SInv, Shape, Exclusion, Running, Conflict
  <2>3. Typed(db') /\ Kept(db') /\ Complete(db')
    BY <1>1 DEF vars, SInv
  <2> QED BY <2>1, <2>2, <2>3 DEF SInv
<1>2. CASE Next
  <2>1. PICK t \in Tx : BeginCustomer(t) \/ BeginPlatform(t) \/ Step(t) \/ Commit(t) \/ Fail(t)
    BY <1>2 DEF Next
  <2>2. CASE Step(t)
    BY <2>2, IssueStep, ApplyStep, RecordStep, AnswerStep, ProvisionStep, IdentifyOrgStep,
       IdentifyBranchStep, EnrollStep, DecideStep DEF Step
  <2> QED BY <2>1, <2>2, BeginStep, CommitStep, FailStep
<1> QED BY <1>1, <1>2

(* The inductive invariant holds of the specification. *)
THEOREM SettingsHold == Spec => []SInv
<1>1. Init => SInv
  BY InitHolds
<1>2. SInv /\ [Next]_vars => SInv'
  BY NextHolds
<1> QED BY <1>1, <1>2, PTL DEF Spec

(* Whatever overlaps, identities are one: a customer is of one library, a  *)
(* slug of one, and a library that was provisioned is complete.            *)
THEOREM IdentitiesAreOneAlways == Spec => []IdentitiesAreOne
<1>1. SInv => IdentitiesAreOne
  <2> HAVE SInv
  <2>1. Kept(db) /\ Complete(db)
    BY DEF SInv
  <2>2. \A r \in DOMAIN db : r[1] = "customer" => Cardinality(LibrariesOf(db, r[2])) = 1
    <3> TAKE r \in DOMAIN db
    <3> HAVE r[1] = "customer"
    <3>1. PICK i : LibrariesOf(db, r[2]) = {i}
      BY <2>1 DEF Kept
    <3> QED BY <3>1, FS_Singleton
  <2>3. \A i, j \in Libraries(db) : i # j => db[Org(i)].slug # db[Org(j)].slug
    BY <2>1 DEF Kept
  <2>4. \A i \in Libraries(db) : i > Past =>
          /\ Slug_(db[Org(i)].slug) \in DOMAIN db /\ Customer(db[Org(i)].customer) \in DOMAIN db
          /\ {Branch(i), Doc(i), Site(i)} \subseteq DOMAIN db /\ db[Branch(i)] = i
    BY <2>1 DEF Kept, Complete
  <2> QED BY <2>2, <2>3, <2>4 DEF IdentitiesAreOne
<1> QED BY <1>1, SettingsHold, PTL

-----------------------------------------------------------------------------
(* A writer changes its own keys and no other.                             *)

(* What a change sets are its writer's keys. *)
LEMMA ChangeKeys ==
  ASSUME NEW o, o.kind \in Writers
  PROVE  DOMAIN Change(o) \subseteq KeysOf(o.kind)
<1>1. \A r, v : DOMAIN One(r, v) = {r}
  BY DEF One
<1>2. \A r, v : DOMAIN Setting(r, v) \subseteq {r}
  <2> TAKE r, v
  <2>1. CASE DOMAIN v = {}
    <3>1. Setting(r, v) = <<>>
      BY <2>1 DEF Setting
    <3> QED BY <3>1
  <2>2. CASE DOMAIN v # {}
    BY <2>2, <1>1 DEF Setting
  <2> QED BY <2>1, <2>2
<1>3. CASE o.kind = "review"
  <2>1. Change(o) = Over(One("zone", "a zone"), One("review", "a review"))
    BY <1>3 DEF Change
  <2>2. DOMAIN Over(One("zone", "a zone"), One("review", "a review")) = {"zone", "review"}
    BY DEF Over, One
  <2> QED BY <1>3, <2>1, <2>2 DEF KeysOf
<1>4. CASE o.kind = "transit"
  <2> DEFINE v == Over(One("by", "api"), o.arg)
  <2>1. Change(o) = One("transit", v)
    BY <1>4 DEF Change
  <2> HIDE DEF v
  <2>2. KeysOf(o.kind) = {"transit"}
    BY <1>4 DEF KeysOf
  <2> QED BY <1>1, <2>1, <2>2
<1>5. CASE o.kind = "internal"
  <2> DEFINE v == [l \in DOMAIN o.arg |-> Normalized(o.arg[l])]
  <2>1. Change(o) = One("internal", v)
    BY <1>5 DEF Change
  <2> HIDE DEF v
  <2>2. KeysOf(o.kind) = {"internal"}
    BY <1>5 DEF KeysOf
  <2> QED BY <1>1, <2>1, <2>2
<1>6. CASE o.kind = "efficiency"
  <2> DEFINE v == Written(OrganizationEfficiency(o.arg), EfficiencyFields)
  <2>1. Change(o) = Setting("efficiency", v)
    BY <1>6 DEF Change
  <2> HIDE DEF v
  <2>2. KeysOf(o.kind) = {"efficiency"}
    BY <1>6 DEF KeysOf
  <2> QED BY <1>2, <2>1, <2>2
<1>7. CASE o.kind = "sorter"
  <2> DEFINE v == Written(SorterEfficiency(o.arg), EfficiencyFields)
  <2>1. Change(o) = Setting("efficiency", v)
    BY <1>7 DEF Change
  <2> HIDE DEF v
  <2>2. KeysOf(o.kind) = {"efficiency"}
    BY <1>7 DEF KeysOf
  <2> QED BY <1>2, <2>1, <2>2
<1>8. CASE o.kind = "value"
  <2> DEFINE v == ValueWritten(ValueSettings(o.arg))
  <2>1. Change(o) = Setting("value", v)
    BY <1>8 DEF Change
  <2> HIDE DEF v
  <2>2. KeysOf(o.kind) = {"value"}
    BY <1>8 DEF KeysOf
  <2> QED BY <1>2, <2>1, <2>2
<1> QED BY <1>3, <1>4, <1>5, <1>6, <1>7, <1>8 DEF Writers, Customers, Platform

(* What becomes of a document: its writer's keys are as the change says,   *)
(* the others as they were.                                                *)
LEMMA BecomesAsAsked ==
  ASSUME NEW o, o.kind \in Writers, NEW document
  PROVE  LET new == Becomes(o, document) IN
         /\ \A k \in (DOMAIN document \cup DOMAIN new) \ KeysOf(o.kind) :
              k \in DOMAIN document /\ k \in DOMAIN new /\ new[k] = document[k]
         /\ \A k \in KeysOf(o.kind) : IF k \in DOMAIN Change(o) THEN new[k] = Change(o)[k] ELSE k \notin DOMAIN new
<1> DEFINE change == Change(o)
           keys   == KeysOf(o.kind)
           new    == Becomes(o, document)
<1>1. new = Over(change, [k \in DOMAIN document \ keys |-> document[k]])
  BY DEF Becomes
<1>2. DOMAIN change \subseteq keys
  BY ChangeKeys
<1> HIDE DEF change, keys, new
<1>3. DOMAIN new = DOMAIN change \cup (DOMAIN document \ keys)
  BY <1>1 DEF Over
<1>4. \A k \in DOMAIN new : new[k] = IF k \in DOMAIN change THEN change[k] ELSE document[k]
  BY <1>1 DEF Over
<1>5. \A k \in (DOMAIN document \cup DOMAIN new) \ keys :
        k \in DOMAIN document /\ k \in DOMAIN new /\ new[k] = document[k]
  BY <1>2, <1>3, <1>4
<1>6. \A k \in keys : IF k \in DOMAIN change THEN new[k] = change[k] ELSE k \notin DOMAIN new
  BY <1>3, <1>4
<1> QED BY <1>5, <1>6 DEF change, keys, new

(* Whoever else writes: a commit changes of a document the keys of its     *)
(* writer, as it was asked to, and no other, and a platform                *)
(* administrator's change is on record.                                    *)
THEOREM OneKeyOnlyAlways == Spec => OneKeyOnly
<1> DEFINE A(t, r) ==
             LET o == op[t] IN
             /\ pc[t] = "commit" /\ pc'[t] = "done" /\ o.kind \in Writers /\ r = DocOf(o)
             /\ \A k \in (DOMAIN Stored(db, r) \cup DOMAIN db'[r]) \ KeysOf(o.kind) :
                  k \in DOMAIN Stored(db, r) /\ k \in DOMAIN db'[r] /\ db'[r][k] = db[r][k]
             /\ \A k \in KeysOf(o.kind) :
                  IF k \in DOMAIN Change(o) THEN db'[r][k] = Change(o)[k] ELSE k \notin DOMAIN db'[r]
             /\ o.kind \in Platform => Audit(t) \in DOMAIN db'
           K == \A i \in Libraries(db) : \A r \in {Doc(i), Site(i)} :
                  Stored(db', r) # Stored(db, r) => \E t \in Tx : A(t, r)
<1>1. ASSUME SInv, NEW t \in Tx, Commit(t), NEW i \in Libraries(db), NEW r \in {Doc(i), Site(i)},
             Stored(db', r) # Stored(db, r)
      PROVE  A(t, r)
  <2>1. /\ DOMAIN db' = DOMAIN put[t] \cup DOMAIN db
        /\ \A x \in DOMAIN put[t] : db'[x] = put[t][x]
        /\ \A x \in DOMAIN db : x \notin DOMAIN put[t] => db'[x] = db[x]
    BY <1>1, RowsAfterCommit
  <2>2. r \in DOMAIN put[t]
    BY <1>1, <2>1 DEF Stored
  <2>3. pc[t] = "commit" /\ pc'[t] = "done" /\ TxInv(t) /\ Org(i) \in DOMAIN db /\ Org(New(t)) \notin DOMAIN db
    BY <1>1, LibraryRow DEF Commit, End, SInv, Shape, TxInv, About
  <2>4. r[1] \in {"doc", "site"} /\ r[2] = i
    BY <1>1, RowNames
  <2>5. OwnDoc(t, r)
    <3>1. OwnDoc(t, r) \/ NewDoc(t, r)
      BY <2>2, <2>3, <2>4 DEF TxInv, Writes
    <3>2. ~NewDoc(t, r)
      BY <2>3, <2>4, RowNames DEF NewDoc
    <3> QED BY <3>1, <3>2
  <2>6. PICK o : o = op[t]
    OBVIOUS
  <2>7. o.kind \in Writers /\ r = DocOf(o) /\ db'[r] = Becomes(o, Stored(db, r))
    BY <2>1, <2>2, <2>5, <2>6 DEF OwnDoc
  <2>8. /\ \A k \in (DOMAIN Stored(db, r) \cup DOMAIN db'[r]) \ KeysOf(o.kind) :
             k \in DOMAIN Stored(db, r) /\ k \in DOMAIN db'[r] /\ db'[r][k] = Stored(db, r)[k]
        /\ \A k \in KeysOf(o.kind) :
             IF k \in DOMAIN Change(o) THEN db'[r][k] = Change(o)[k] ELSE k \notin DOMAIN db'[r]
    BY <2>7, BecomesAsAsked
  <2>9. \A k \in DOMAIN Stored(db, r) : Stored(db, r)[k] = db[r][k]
    <3>1. CASE r \in DOMAIN db
      BY <3>1 DEF Stored
    <3>2. CASE r \notin DOMAIN db
      <4>1. Stored(db, r) = <<>>
        BY <3>2 DEF Stored
      <4> QED BY <4>1
    <3> QED BY <3>1, <3>2
  <2>10. o.kind \in Platform => Audit(t) \in DOMAIN db'
    BY <2>1, <2>3, <2>6 DEF TxInv, About
  <2> QED BY <2>3, <2>6, <2>7, <2>8, <2>9, <2>10
<1> HIDE DEF A
<1>2. ASSUME SInv, [Next]_vars PROVE [K]_vars
  <2>1. CASE \E t \in Tx : Commit(t)
    <3>1. PICK t \in Tx : Commit(t)
      BY <2>1
    <3>2. K
      BY <1>1, <1>2, <3>1
    <3> QED BY <3>2
  <2>2. CASE ~\E t \in Tx : Commit(t)
    <3>1. db' = db
      <4>1. CASE UNCHANGED vars
        BY <4>1 DEF vars
      <4>2. CASE Next
        <5>1. PICK t \in Tx : BeginCustomer(t) \/ BeginPlatform(t) \/ Step(t) \/ Fail(t)
          BY <2>2, <4>2 DEF Next
        <5>2. CASE BeginCustomer(t) \/ BeginPlatform(t)
          BY <1>2, <5>2, BeginIsStart DEF Begins, Start
        <5>3. CASE Fail(t)
          BY <5>3 DEF Fail
        <5>4. CASE Step(t)
          BY <5>4 DEF Step, Issue, Apply, Record, Answer, Provision, IdentifyOrg, IdentifyBranch, EnrollOrg,
                      EnrollBranch, Decide, Go, GoOn, Take
        <5> QED BY <5>1, <5>2, <5>3, <5>4
      <4> QED BY <1>2, <4>1, <4>2
    <3>2. K
      BY <3>1
    <3> QED BY <3>2
  <2> QED BY <2>1, <2>2
<1>3. SInv /\ [Next]_vars => [K]_vars
  BY <1>2
<1>4. Spec => [][Next]_vars
  BY DEF Spec
<1> HIDE DEF K
<1>5. Spec => [][K]_vars
  BY <1>3, <1>4, SettingsHold, PTL
<1> QED BY <1>5 DEF OneKeyOnly, K, A
=============================================================================
