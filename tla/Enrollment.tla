----------------------------- MODULE Enrollment -----------------------------
(***************************************************************************)
(* The credentials of one library with one branch: enrollment codes, agent *)
(* tokens, ingest keys and cutovers, and the transactions that issue, use  *)
(* and revoke them while the library is being suspended or offboarded.     *)
(***************************************************************************)
EXTENDS Transactions, FiniteSets

CONSTANT Pasts   \* the databases to begin with

Past   == 3                 \* ids of the rows there are to begin with
New(t) == Past + t          \* the id of a row that t inserts

Org    == <<"org", 0>>
Branch == <<"branch", 0>>

(* The rows of the tables, by name and id; 0 is "no installation", "no     *)
(* code" and "never".  A transaction has one time, that of its beginning,  *)
(* and the id of the rows it inserts stands for it.                        *)
(*   inst   status, contract, and when it was heard of                     *)
(*   code   installation, contract, state, and when it was used            *)
(*   token  installation, active, and (history) the code it came from      *)
(*   key    owner, active, and when it was heard of                        *)
(*   cut    by whom; an enrollment's names its code and its installation   *)
Tables   == {"org", "branch", "inst", "code", "token", "key", "cut"}
Statuses == {"provisioning", "active", "inactive", "retired"}
RowOf(r, v) ==
  CASE r[1] = "inst"  -> v \in [status : Statuses, contract : {1, 2}, heard : Nat]
    [] r[1] = "code"  -> v \in [inst : Nat, contract : {1, 2}, state : {"unused", "used", "revoked"}, at : Nat]
    [] r[1] = "token" -> v \in [inst : Nat, active : BOOLEAN, from : Nat]
    [] r[1] = "key"   -> v \in [owner : Nat, active : BOOLEAN, heard : Nat]
    [] OTHER          -> TRUE

Init == Idle(Pasts)

-----------------------------------------------------------------------------
(* Questions to a database.                                                *)
Table(d, name)   == {r \in DOMAIN d : r[1] = name}
Inst(i)          == <<"inst", i>>
Usable(d)        == d[Org] = "active"
Enrollable(d, i) == Usable(d) /\ d[Inst(i)].status \in {"provisioning", "active"}
ActiveKeys(d)    == {r \in Table(d, "key") : d[r].active}
Owners(d)        == {d[r].owner : r \in ActiveKeys(d)}
Enrolled(d)      == ActiveKeys(d) # {} \/ Table(d, "cut") # {}

(* What revocation looks for and what it makes of it.                      *)
Live(d, r) ==
  CASE r[1] = "inst" -> d[r].status # "retired"
    [] r[1] = "code" -> d[r].state = "unused"
    [] OTHER         -> d[r].active
Ended(d, r) ==
  CASE r[1] = "inst" -> [d[r] EXCEPT !.status = "retired"]
    [] r[1] = "code" -> [d[r] EXCEPT !.state = "revoked"]
    [] OTHER         -> [d[r] EXCEPT !.active = FALSE]
LiveIn(d, name) == {r \in Table(d, name) : Live(d, r)}
LiveOf(d, name, i) == {r \in LiveIn(d, name) : d[r].inst = i}
AtMostOne(S) == \A x, y \in S : x = y

(* What the services keep true of a database between transactions: what a  *)
(* row with the value v refers to is there, and                            *)
Refers(d, r, v) ==
  /\ r[1] = "code"  => Inst(v.inst) \in DOMAIN d /\ v.contract = d[Inst(v.inst)].contract
  /\ r[1] = "token" => v.inst = 0 \/ Inst(v.inst) \in DOMAIN d
  /\ r[1] = "key"   => v.owner = 0 \/ (Inst(v.owner) \in DOMAIN d /\ d[Inst(v.owner)].contract = 2)
Typed(d) ==
  /\ {Org, Branch} \subseteq DOMAIN d /\ DOMAIN d \subseteq (Tables \X Nat) \ {Inst(0), <<"code", 0>>}
  /\ \A r \in DOMAIN d : RowOf(r, d[r]) /\ Refers(d, r, d[r])
Kept(d) ==
  /\ AtMostOne(ActiveKeys(d))
  /\ \A r \in ActiveKeys(d) : d[r].owner # 0 => d[Inst(d[r].owner)].status # "retired"
  /\ \A r \in Table(d, "key") : d[r].owner # 0 => Table(d, "cut") # {}
  /\ \A i \in Table(d, "inst") : d[i].contract = 2 =>
       AtMostOne(LiveOf(d, "token", i[2])) /\ (LiveOf(d, "token", i[2]) # {} => Table(d, "cut") # {})

Spent(d) ==
  /\ \A k \in Table(d, "token") : d[k].from = 0 \/ <<"code", d[k].from>> \in DOMAIN d
  /\ \A c \in Table(d, "code") :
       LET of == {k \in Table(d, "token") : d[k].from = c[2]}
       IN IF d[c].state = "used" THEN \E k \in of : of = {k} ELSE of = {}
  /\ \A i \in Table(d, "inst") : AtMostOne(LiveOf(d, "code", i[2]))
Closed(d) ==
  d[Org] = "cancelled" =>
    /\ \A name \in {"code", "token", "key"} : LiveIn(d, name) = {}
    /\ \A i \in Table(d, "inst") : d[i].status \in {"retired", "provisioning"}
    /\ \A k \in Table(d, "token") : d[k].inst # 0 => d[Inst(d[k].inst)].status = "retired"

ASSUME EnrollmentAssumption ==
  /\ MaxTx \in Nat
  /\ \A d \in Pasts : Typed(d) /\ Kept(d) /\ Spent(d) /\ Closed(d) /\ \A r \in DOMAIN d : r[2] <= Past

-----------------------------------------------------------------------------
(* Locks: what the next statement of t has to wait for.                    *)
ExclusiveOnOrg == {"recover", "revoke", "offboard", "library"}
InstOf(t) == IF op[t].kind = "redeem" THEN db[op[t].row].inst ELSE op[t].row[2]

(* Mutants: FOR NO KEY UPDATE is taken to keep out FOR KEY SHARE; the      *)
(* branch is looked at and not locked.                                     *)
OrgLock_NoKey(kind)      == IF kind \in ExclusiveOnOrg THEN NoKeyUpdate ELSE KeyShare
BranchLock_KeyShare(kind) == KeyShare

OrgLock(kind)    == IF kind \in ExclusiveOnOrg THEN Update ELSE Share
BranchLock(kind) == IF kind = "redeem" THEN Update ELSE NoKeyUpdate

Wants(t) ==
  CASE pc[t] = "org"     -> {<<Org, OrgLock(op[t].kind)>>}
    [] pc[t] = "code"    -> {<<op[t].row, Update>>}
    [] pc[t] = "branch"  -> {<<Branch, BranchLock(op[t].kind)>>}
    [] pc[t] = "token"   -> {<<Inst(InstOf(t)), KeyShare>>}
    [] pc[t] = "key"     -> {<<Inst(InstOf(t)), KeyShare>>, <<Branch, KeyShare>>}
    [] pc[t] = "hold"    -> {<<op[t].row, Update>>}
    [] pc[t] = "sweep"   -> IF todo[t] = {} THEN {} ELSE {<<First(todo[t]), NoKeyUpdate>>}
    [] pc[t] \in {"row", "touch"} -> {<<op[t].row, NoKeyUpdate>>}
    [] pc[t] = "beat"    -> {<<op[t].arg, NoKeyUpdate>>}
    [] pc[t] = "contact" -> {<<Inst(db[op[t].row].inst), NoKeyUpdate>>}
    [] pc[t] = "place"   -> {<<Org, KeyShare>>, <<Branch, KeyShare>>}
    [] pc[t] = "events"  -> {<<Branch, KeyShare>>}
    [] pc[t] = "ready"   -> {<<Branch, NoKeyUpdate>>}
    [] OTHER             -> {}

Blocks(u, t) == HoldsUp(u, t, Wants(t))
At(t, kind, where) == op[t].kind = kind /\ pc[t] = where /\ Free(t, Wants(t))
Go(t, where, written) == GoOn(t, Wants(t), where, written)
Sweep(t, stage, rows, written) ==
  seen' = [seen EXCEPT ![t] = stage] /\ Find(t, Wants(t), "sweep", rows, written)

-----------------------------------------------------------------------------
(* The operations.  What an administrator's request or a script read       *)
(* before its transaction, and a statement that waits for nothing, are     *)
(* conditions of its beginning; they may be false by the next statement.   *)
Transitions(s) ==
  CASE s \in {"provisioning", "active"} -> {"inactive", "retired"}
    [] s = "inactive"                   -> {"provisioning", "retired"}
    [] OTHER                            -> {}

Op(kind, row, arg) == [kind |-> kind, row |-> row, arg |-> arg]

AdminOps ==
  IF db[Org] = "cancelled" THEN {}
  ELSE {Op(k, r, 0) : k \in {"generate", "recover"}, r \in Table(db, "inst")}
       \cup {Op("status", r, s) : r \in Table(db, "inst"), s \in {"provisioning", "inactive", "retired"}}
       \cup {Op("revoke", r, 0) : r \in LiveOf(db, "token", 0)}
       \cup {Op("create", Org, c) : c \in {1, 2}}
       \cup {Op("library", Org, s) : s \in {"active", "suspended"}}
       \cup {Op("offboard", Org, 0), Op("cutover", Org, 0)}
ScriptOps ==
  {Op("grant", Org, 0), Op("issue", Org, 0)} \cup {Op("retire", r, 0) : r \in ActiveKeys(db)}
Authenticated(r) == db[r].active /\ IF db[r].inst = 0 THEN Usable(db) ELSE Enrollable(db, db[r].inst)
AgentOps ==
  {Op("redeem", r, 0) : r \in Table(db, "code")}
  \cup {Op(k, r, q) : k \in {"status_v2", "upload"}, r \in {x \in Table(db, "token") : Authenticated(x)},
                      q \in Table(db, "key")}
  \cup {Op("status_v1", r, 0) : r \in {x \in Table(db, "token") : db[x].inst # 0 /\ Authenticated(x)}}

FirstStatement(o) ==
  CASE o.kind \in ExclusiveOnOrg \cup {"redeem", "grant", "issue"} -> "org"
    [] o.kind = "generate" -> "hold"
    [] o.kind = "status"   -> IF o.arg = "retired" THEN "branch" ELSE "row"
    [] o.kind = "retire"   -> "row"
    [] o.kind = "create"   -> "place"
    [] o.kind = "cutover"  -> "events"
    [] OTHER               -> "touch"

Begin(t) ==
  /\ Waiting(t)
  /\ \E o \in AdminOps \cup ScriptOps \cup AgentOps :
       /\ o.kind = "status" => o.arg \in Transitions(db[o.row].status)
       /\ op' = [op EXCEPT ![t] = o] /\ pc' = [pc EXCEPT ![t] = FirstStatement(o)]
       /\ seen' = [seen EXCEPT ![t] = IF o.kind = "status" THEN db[o.row].status ELSE "none"]
  /\ UNCHANGED <<db, todo, put, lock>>

-----------------------------------------------------------------------------
(* redeem_enrollment_code: the code's library, the code, its installation. *)
RedeemOrg(t)  == At(t, "redeem", "org") /\ Go(t, "code", <<>>)
RedeemCode(t) == At(t, "redeem", "code") /\ db[op[t].row].state = "unused" /\ Go(t, "scope", <<>>)
RedeemScope(t) ==
  /\ At(t, "redeem", "scope") /\ Enrollable(db, InstOf(t))
  /\ Go(t, IF db[op[t].row].contract = 2 THEN "branch" ELSE "token", <<>>)

(* _prepare_v2_enrollment: under the branch's lock the installation again, *)
(* and the branch must have neither an active key nor any cutover.         *)
RedeemBranch(t) ==
  /\ At(t, "redeem", "branch")
  /\ db[Inst(InstOf(t))].status \in {"provisioning", "active"} /\ ~Enrolled(db)
  /\ Go(t, "token", <<>>)

(* The guarded claim of the code, and the token. *)
RedeemToken(t) ==
  /\ At(t, "redeem", "token") /\ db[op[t].row].state = "unused"
  /\ Go(t, IF db[op[t].row].contract = 2 THEN "key" ELSE "commit",
        Over(One(op[t].row, [db[op[t].row] EXCEPT !.state = "used", !.at = New(t)]),
             One(<<"token", New(t)>>, [inst |-> InstOf(t), active |-> TRUE, from |-> op[t].row[2]])))

(* The branch's key and its first cutover. *)
RedeemKey(t) ==
  /\ At(t, "redeem", "key") /\ db[Org] # "cancelled" /\ Table(db, "cut") = {}
  /\ Go(t, "commit", Over(One(<<"key", New(t)>>, [owner |-> InstOf(t), active |-> TRUE, heard |-> 0]),
                          One(<<"cut", New(t)>>, [by |-> "enrollment", code |-> op[t].row[2], inst |-> InstOf(t)])))

(* Mutant: the older codes of the installation are left as they are. *)
GenerateHold_KeepsOlder(t) ==
  /\ At(t, "generate", "hold") /\ Enrollable(db, op[t].row[2])
  /\ db[op[t].row].contract = 2 => ~Enrolled(db)
  /\ Sweep(t, "codes", {}, <<>>)

(* issue_enrollment_code, with create_enrollment_code. *)
GenerateHold(t) ==
  /\ At(t, "generate", "hold") /\ Enrollable(db, op[t].row[2])
  /\ db[op[t].row].contract = 2 => ~Enrolled(db)
  /\ Sweep(t, "codes", LiveOf(db, "code", op[t].row[2]), <<>>)
GenerateInsert(t) ==
  /\ At(t, "generate", "sweep") /\ todo[t] = {}
  /\ Go(t, "commit", One(<<"code", New(t)>>,
        [inst |-> op[t].row[2], contract |-> db[op[t].row].contract, state |-> "unused", at |-> 0]))

(* issue_recovery_token: the library, the tokens, then the installation,   *)
(* which must own the branch's only active key.                            *)
RecoverOrg(t) ==
  /\ At(t, "recover", "org") /\ db[Org] # "cancelled"
  /\ Sweep(t, "tokens", LiveOf(db, "token", op[t].row[2]), <<>>)
RecoverTokens(t) == At(t, "recover", "sweep") /\ todo[t] = {} /\ Go(t, "hold", <<>>)
RecoverHold(t) ==
  /\ At(t, "recover", "hold") /\ Enrollable(db, op[t].row[2]) /\ db[op[t].row].contract = 2
  /\ Cardinality(ActiveKeys(db)) = 1 /\ Owners(db) = {op[t].row[2]}
  /\ Go(t, "commit", One(<<"token", New(t)>>, [inst |-> op[t].row[2], active |-> TRUE, from |-> 0]))

(* One row of a statement over many: taken, and tested again. *)
SweepRow(t) ==
  /\ \E kind \in {"generate", "recover", "offboard"} : At(t, kind, "sweep")
  /\ todo[t] # {}
  /\ LET r == First(todo[t]) IN
       /\ todo' = [todo EXCEPT ![t] = @ \ {r}]
       /\ Take(t, Wants(t), IF Live(View(t), r) THEN One(r, Ended(View(t), r)) ELSE <<>>)
  /\ UNCHANGED <<pc, seen>>

(* offboard_library: tokens, installations, codes, keys. *)
OffboardOrg(t) ==
  /\ At(t, "offboard", "org") /\ db[Org] # "cancelled"
  /\ Sweep(t, "token", LiveIn(db, "token"), One(Org, "cancelled"))
(* Mutant: codes before installations. *)
NextStage_CodesFirst(stage) ==
  CASE stage = "token" -> "code" [] stage = "code" -> "inst" [] stage = "inst" -> "key"

NextStage(stage) ==
  CASE stage = "token" -> "inst" [] stage = "inst" -> "code" [] stage = "code" -> "key"
OffboardNext(t) ==
  /\ At(t, "offboard", "sweep") /\ todo[t] = {} /\ seen[t] # "key"
  /\ Sweep(t, NextStage(seen[t]), LiveIn(View(t), NextStage(seen[t])), <<>>)
OffboardEnd(t) ==
  /\ At(t, "offboard", "sweep") /\ todo[t] = {} /\ seen[t] = "key" /\ Go(t, "commit", <<>>)

(* set_library_active_status. *)
SetLibrary(t) ==
  /\ At(t, "library", "org") /\ db[Org] \notin {"cancelled", op[t].arg}
  /\ Go(t, "commit", One(Org, op[t].arg))

(* change_status: no retirement of the owner of an active key, under the   *)
(* branch's lock; then the update, guarded on the status it read.          *)
StatusBranch(t) == At(t, "status", "branch") /\ op[t].row[2] \notin Owners(db) /\ Go(t, "row", <<>>)
StatusRow(t) ==
  /\ At(t, "status", "row") /\ db[op[t].row].status = seen[t] /\ db[Org] # "cancelled"
  /\ Go(t, "commit", One(op[t].row, [db[op[t].row] EXCEPT !.status = op[t].arg]))

(* insert_collector_installation: its check of the library is its first    *)
(* statement, and takes no lock.                                           *)
CreatePlace(t) ==
  /\ At(t, "create", "place")
  /\ Go(t, "commit", One(Inst(New(t)), [status |-> "provisioning", contract |-> op[t].arg, heard |-> 0]))

(* revoke_unbound_token. *)
RevokeOrg(t) == At(t, "revoke", "org") /\ db[Org] # "cancelled" /\ Go(t, "row", <<>>)
RevokeRow(t) == At(t, "revoke", "row") /\ db[op[t].row].active /\ Go(t, "commit", One(op[t].row, Ended(db, op[t].row)))

(* create_agent_token.py: an unbound token, unless a key is owned. *)
GrantOrg(t) == At(t, "grant", "org") /\ Usable(db) /\ Go(t, "branch", <<>>)
GrantBranch(t) ==
  /\ At(t, "grant", "branch") /\ Owners(db) \subseteq {0}
  /\ Go(t, "commit", One(<<"token", New(t)>>, [inst |-> 0, active |-> TRUE, from |-> 0]))

(* issue_ingest_key for an operator: an unowned key, unless one is active, *)
(* one was ever owned, or the branch was enrolled.                         *)
IssueOrg(t) == At(t, "issue", "org") /\ Go(t, "branch", <<>>)
IssueBranch(t) ==
  /\ At(t, "issue", "branch") /\ db[Org] # "cancelled" /\ ActiveKeys(db) = {}
  /\ \A r \in Table(db, "key") : db[r].owner = 0
  /\ \A r \in Table(db, "cut") : db[r].by # "enrollment"
  /\ Go(t, "commit", One(<<"key", New(t)>>, [owner |-> 0, active |-> TRUE, heard |-> 0]))

(* retire_ingest_key: one guarded statement. *)
RetireRow(t) ==
  /\ At(t, "retire", "row") /\ db[op[t].row].active /\ db[op[t].row].owner = 0
  /\ Go(t, "commit", One(op[t].row, Ended(db, op[t].row)))

(* record_v2_cutover for an operator: checks, then inserts. *)
CutoverInsert(t) == At(t, "cutover", "events") /\ Go(t, "commit", One(<<"cut", New(t)>>, [by |-> "operator", code |-> 0, inst |-> 0]))

(* An authenticated request: the token is stamped, then its key checked.   *)
KeyServes(r, q) == db[q].active /\ db[q].owner \in {0, db[r].inst}
Touch(t) ==
  \/ At(t, "status_v1", "touch") /\ Go(t, "contact", <<>>)
  \/ At(t, "status_v2", "touch") /\ KeyServes(op[t].row, op[t].arg) /\ Go(t, "beat", <<>>)
  \/ At(t, "upload", "touch") /\ KeyServes(op[t].row, op[t].arg) /\ Go(t, "events", <<>>)
Beat(t) ==
  /\ At(t, "status_v2", "beat") /\ db[op[t].arg].active
  /\ Go(t, IF db[op[t].row].inst = 0 THEN "commit" ELSE "contact",
        One(op[t].arg, [db[op[t].arg] EXCEPT !.heard = New(t)]))

(* Mutant: any heartbeat puts its installation in service. *)
Contact_Unguarded(t) ==
  /\ At(t, "status_v1", "contact") \/ At(t, "status_v2", "contact")
  /\ LET r == Inst(db[op[t].row].inst) IN Go(t, "commit", One(r, [db[r] EXCEPT !.status = "active", !.heard = New(t)]))

(* record_installation_heartbeat: its guard keeps an administrator's       *)
(* decision; where it fails the heartbeat is rolled back.                  *)
Contact(t) ==
  /\ At(t, "status_v1", "contact") \/ At(t, "status_v2", "contact")
  /\ LET r == Inst(db[op[t].row].inst) IN
       /\ db[r].status \in {"provisioning", "active"}
       /\ Go(t, "commit", One(r, [db[r] EXCEPT !.status = "active", !.heard = New(t)]))

(* /v2/upload: the events, and the branch's readiness with the first. *)
StoreEvents(t) == At(t, "upload", "events") /\ Go(t, IF db[Branch] = "pending" THEN "ready" ELSE "commit", <<>>)
BranchReady(t) == At(t, "upload", "ready") /\ Go(t, "commit", One(Branch, "ready"))

Step(t) ==
  \/ RedeemOrg(t) \/ RedeemCode(t) \/ RedeemScope(t) \/ RedeemBranch(t) \/ RedeemToken(t) \/ RedeemKey(t)
  \/ GenerateHold(t) \/ GenerateInsert(t) \/ RecoverOrg(t) \/ RecoverTokens(t) \/ RecoverHold(t)
  \/ SweepRow(t) \/ OffboardOrg(t) \/ OffboardNext(t) \/ OffboardEnd(t) \/ SetLibrary(t)
  \/ StatusBranch(t) \/ StatusRow(t) \/ CreatePlace(t) \/ RevokeOrg(t) \/ RevokeRow(t)
  \/ GrantOrg(t) \/ GrantBranch(t) \/ IssueOrg(t) \/ IssueBranch(t) \/ RetireRow(t) \/ CutoverInsert(t)
  \/ Touch(t) \/ Beat(t) \/ Contact(t) \/ StoreEvents(t) \/ BranchReady(t)

Next == \E t \in Tx : Begin(t) \/ Step(t) \/ Commit(t) \/ Fail(t)

Spec == Init /\ [][Next]_vars

-----------------------------------------------------------------------------
(* A code is spent at most once and never for nothing: it is used exactly  *)
(* if a token was issued for it, and then one token.  An installation has  *)
(* at most one unused code, however many are being generated and redeemed. *)
CodeIsSpentOnce ==
  /\ \A c \in Table(db, "code") :
       LET of == {k \in Table(db, "token") : db[k].from = c[2]}
       IN Cardinality(of) = IF db[c].state = "used" THEN 1 ELSE 0
  /\ \A i \in Table(db, "inst") : AtMostOne(LiveOf(db, "code", i[2]))

(* The branch has one Contract v2 identity: at most one active key, whose  *)
(* owner was not retired under it and has at most one active token,        *)
(* whatever enrollments, retirements, recoveries and scripts overlap.      *)
OneIdentity ==
  /\ AtMostOne(ActiveKeys(db))
  /\ \A i \in Owners(db) \ {0} :
       db[Inst(i)].status # "retired" /\ AtMostOne(LiveOf(db, "token", i))

(* Offboarding leaves no credential alive, not even one that another       *)
(* transaction was issuing while it swept (offboard_library and the locks  *)
(* of those it must wait for).  No installation is in service either, and  *)
(* none comes to be: one that insert_collector_installation adds late,     *)
(* having read the status without a lock, stays without a code.            *)
NothingLiveWhenCancelled ==
  db[Org] = "cancelled" =>
    /\ \A name \in {"code", "token", "key"} : LiveIn(db, name) = {}
    /\ \A i \in Table(db, "inst") : db[i].status \in {"retired", "provisioning"}

(* An enrollment's cutover is the branch's first, and comes with the first *)
(* owned key; from then on no unowned key and, while an owned key is       *)
(* active, no unbound token is added.                                      *)
Added(name) == Table(db', name) \ Table(db, name)
BoundaryStays ==
  [][/\ \A r \in Added("cut") : db'[r].by = "enrollment" => Table(db, "cut") = {}
     /\ \A r \in Added("key") : db'[r].owner = 0 =>
          /\ \A q \in Table(db, "key") : db[q].owner = 0
          /\ \A q \in Table(db, "cut") : db[q].by # "enrollment"
     /\ \A r \in Added("token") : db'[r].inst = 0 => Owners(db) \subseteq {0}]_vars

(* What an administrator decided stays decided: no heartbeat revives an    *)
(* installation that is not in service, nothing leaves retired or          *)
(* cancelled, and nothing revoked or used comes back.                      *)
DecisionsStay ==
  [][/\ db[Org] = "cancelled" => db'[Org] = "cancelled"
     /\ \A r \in Table(db, "inst") :
          /\ db[r].status = "retired" => db'[r].status = "retired"
          /\ db[r].status = "inactive" => db'[r].status # "active"
     /\ \A r \in DOMAIN db : r[1] \in {"code", "token", "key"} /\ ~Live(db, r) => ~Live(db', r)]_vars

(* Both: what was decided, by an enrollment or by a person, is not undone. *)
HistoryStays == BoundaryStays /\ DecisionsStay

(* Transactions wait for each other in a circle in two ways only.  A code  *)
(* is generated (installation, then code) while one of the installation is *)
(* redeemed (code, then installation).  Or a heartbeat, whose token was    *)
(* revoked after it was looked up, goes from key to installation while     *)
(* offboarding, which passes revoked tokens by, goes the other way.        *)
Circle(S) == S # {} /\ \A t \in S : \E u \in S : Blocks(u, t)
GeneratesAndRedeems(t, u) ==
  op[t].kind = "generate" /\ op[u].kind = "redeem" /\ InstOf(u) = op[t].row[2]
OffboardsAndReports(t, u) ==
  op[t].kind = "offboard" /\ op[u].kind = "status_v2" /\ ~db[op[u].row].active
OnlyKnownCircles ==
  \A S \in SUBSET {t \in Tx : Running(t)} : Circle(S) =>
    \E t, u \in S : GeneratesAndRedeems(t, u) \/ OffboardsAndReports(t, u)
=============================================================================
