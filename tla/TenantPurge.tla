---------------------------- MODULE TenantPurge ----------------------------
(***************************************************************************)
(* The end of a library: cutting its access off (offboard_library) and     *)
(* purging its rows from the database (scripts/purge_tenant_data.py),      *)
(* beside another library's rows and while requests that were let in       *)
(* before the cutoff are still being carried out.                          *)
(***************************************************************************)
EXTENDS Transactions, FiniteSets, Sequences

CONSTANTS
  Pasts,   \* the databases to begin with
  Kinds    \* the kinds of transactions there are

(* Library o is customer Cust(o) to the operational tables, and its branch *)
(* and its installation have the number o: two id domains, never the same. *)
Libraries == {1, 2}
Cust(o)   == 3 - o
New(t)    == 10 + t   \* the id of a row that t inserts

(* A row: its customer, branch, organization and installation, 0 for none  *)
(* or NULL, and whether it is live: not cancelled, retired, used, revoked; *)
(* of a branch, whether it is ready.  Evidence is another kind of row.     *)
Row(c, b, o, i, live) == [c |-> c, b |-> b, o |-> o, i |-> i, live |-> live]
Gone        == [gone |-> TRUE]
Org(o)      == <<"org", o>>
Customer(c) == <<"cust", c>>
Branch(b)   == <<"branch", b>>
Records(d)    == {r \in DOMAIN d : r[1] # "evid" /\ d[r] # Gone}
Rows(d, name) == {r \in DOMAIN d : r[1] = name /\ d[r] # Gone}
Exists(d, r)  == r \in DOMAIN d /\ d[r] # Gone
Evidence(d, o, event) == {r \in Rows(d, "evid") : d[r] = [o |-> o, event |-> event]}

Init == Idle(Pasts)

-----------------------------------------------------------------------------
(* data_lifecycle_policy: the tables in the order of their deletion and    *)
(* the predicate of each.  One table stands for several that are treated   *)
(* alike: "v1" are checkins and rejects, "clean" their copies, "account"   *)
(* is what hangs on the organization.                                      *)
Plan == <<"clean", "v1", "acs", "v2", "key", "cut", "status", "token", "code", "inst",
          "bset", "branch", "account", "org", "cust">>
Keyed    == {"clean", "v1", "acs", "v2", "key", "cut", "status"}
Nullable == {"clean", "acs"}

Branches(d, o) == {r[2] : r \in {x \in Rows(d, "branch") : d[x].o = o}}
Insts(d, o)    == {r[2] : r \in {x \in Rows(d, "inst") : d[x].o = o}}

(* Mutant: the operational tables by the organization's id. *)
InScope_OneId(d, o, c, r) ==
  CASE r[1] \in Keyed \cup {"inst", "branch", "account"} -> o \in {d[r].c, d[r].o}
    [] r[1] = "token" -> d[r].c = c \/ d[r].i \in Insts(d, o)
    [] r[1] = "code"  -> d[r].i \in Insts(d, o)
    [] r[1] = "bset"  -> d[r].b \in Branches(d, o)
    [] OTHER          -> r \in {Org(o), Customer(c)}

InScope(d, o, c, r) ==
  CASE r[1] \in Keyed -> d[r].c = c
    [] r[1] = "token" -> d[r].c = c \/ d[r].i \in Insts(d, o)
    [] r[1] = "code"  -> d[r].i \in Insts(d, o)
    [] r[1] = "bset"  -> d[r].b \in Branches(d, o)
    [] r[1] \in {"inst", "branch", "account"} -> d[r].o = o
    [] OTHER          -> r \in {Org(o), Customer(c)}

(* Row level security hides the operational tables from any role but their *)
(* owner, and from the owner too where it is forced.                       *)
Hidden == {"v1", "acs", "v2", "key"}
Sees(role, r) == r[1] \notin Hidden \/ role = "owner"

(* Foreign keys without ON DELETE CASCADE: the rows that name r. *)
Children(d, r) ==
  {x \in Records(d) :
     \/ r[1] = "cust"   /\ x[1] \in {"v1", "v2", "key", "cut", "org"} /\ d[x].c = r[2]
     \/ r[1] = "branch" /\ x[1] \in {"v1", "v2", "key", "cut"} /\ d[x].b = r[2]
     \/ r[1] = "inst"   /\ x[1] = "key" /\ d[x].i = r[2]}

(* The credentials of a library that are alive. *)
Credentials(d, o) ==
  {r \in Records(d) : r[1] \in {"token", "inst", "code", "key"} /\ d[r].live /\ InScope(d, o, d[Org(o)].c, r)}

-----------------------------------------------------------------------------
(* The gates of a purge.                                                   *)

(* Mutant: any role that may delete will do. *)
EnvironmentAllows_Anyone(role) == TRUE

(* environment_problems: the owner of every table, none of them forced,    *)
(* resolved in schema public, at the head revision.                        *)
EnvironmentAllows(role) == role = "owner"

(* Mutant: the tokens are left out. *)
CutoffComplete_NotTokens(d, o) ==
  /\ ~d[Org(o)].live /\ Evidence(d, o, "cutoff") # {}
  /\ {r \in Credentials(d, o) : r[1] # "token"} = {}

CutoffComplete(d, o) == ~d[Org(o)].live /\ Evidence(d, o, "cutoff") # {} /\ Credentials(d, o) = {}
Mapped(d, o) ==
  /\ Exists(d, Customer(d[Org(o)].c))
  /\ {p \in Rows(d, "org") : d[p].c = d[Org(o)].c} = {Org(o)}

(* Mutant: only what cannot be attributed to anyone is looked for. *)
Attributed_NullOnly(d, o) == \A r \in Records(d) : r[1] \in Nullable => d[r].c # 0 /\ d[r].b # 0

(* attribution_problems: no NULL tenant key anywhere, and no row that      *)
(* pairs the library's customer with a branch that is not the library's,   *)
(* or the other way round.                                                 *)
Attributed(d, o) ==
  \A r \in Records(d) :
    /\ r[1] \in Nullable => d[r].c # 0 /\ d[r].b # 0
    /\ r[1] \in Keyed => (d[r].c = d[Org(o)].c <=> d[r].b \in Branches(d, o))

-----------------------------------------------------------------------------
(* The transactions.  A request was let in by what was committed when it   *)
(* looked, and knows its token from then on.                               *)
Op(kind, row, arg) == [kind |-> kind, row |-> row, arg |-> arg]

Authenticated(d, r) ==
  /\ d[r].live
  /\ \E o \in Libraries : Exists(d, Org(o)) /\ d[Org(o)].live /\ d[Org(o)].c = d[r].c /\ d[r].b \in Branches(d, o)
  /\ d[r].i # 0 => d[<<"inst", d[r].i>>].live

Ops ==
  LET live == {r \in Rows(db, "org") : db[r].live}
      ended == Rows(db, "org") \ live
  IN {Op(k, r, 0) : k \in {"upload_v1", "upload_acs", "upload_v2", "status"},
                    r \in {x \in Rows(db, "token") : Authenticated(db, x)}}
     \cup {Op(k, r, 0) : k \in {"offboard", "member"}, r \in live}
     \cup {Op("purge", r, role) : r \in ended, role \in {"owner", "other"}}
     \cup {Op(k, r, 0) : k \in {"grant", "revert"}, r \in Rows(db, "org")}

Begin(t) ==
  /\ Waiting(t)
  /\ \E o \in {x \in Ops : x.kind \in Kinds} :
       /\ op' = [op EXCEPT ![t] = o] /\ seen' = [seen EXCEPT ![t] = [c |-> db[o.row].c, b |-> db[o.row].b, n |-> 0]]
       /\ pc' = [pc EXCEPT ![t] = IF o.row[1] = "token" THEN "touch" ELSE "org"]
  /\ UNCHANGED <<db, todo, put, lock>>

(* Mutant: load_tenant does not lock the organization. *)
OrgLock_Unlocked(kind) ==
  CASE kind \in {"purge", "member"} -> KeyShare [] kind = "offboard" -> Update
    [] kind = "grant" -> Share [] OTHER -> NoKeyUpdate

OrgLock(kind) ==
  CASE kind \in {"purge", "offboard"} -> Update [] kind = "member" -> KeyShare
    [] kind = "grant" -> Share [] OTHER -> NoKeyUpdate

(* What the next statement of t waits for.  A row that is being deleted is *)
(* waited for, and then it is not there; one that was deleted is not.      *)
Scope(t) == {<<Customer(seen[t].c), KeyShare>>, <<Branch(seen[t].b), KeyShare>>}
Wants(t) ==
  {w \in (CASE pc[t] = "org"   -> {<<op[t].row, OrgLock(op[t].kind)>>}
             [] pc[t] = "touch" -> {<<op[t].row, NoKeyUpdate>>}
             [] pc[t] = "store" -> IF op[t].kind = "upload_acs" THEN {} ELSE Scope(t)
             [] pc[t] = "ready" -> {<<Branch(seen[t].b), NoKeyUpdate>>}
             [] pc[t] = "branch" -> {<<Branch(op[t].row[2]), NoKeyUpdate>>}
             [] pc[t] = "post"  -> {<<<<"status", seen[t].b>>, NoKeyUpdate>>}
             [] pc[t] = "sweep" /\ todo[t] # {} -> {<<First(todo[t]), NoKeyUpdate>>}
             [] pc[t] = "delete" /\ todo[t] # {} -> {<<First(todo[t]), Update>>}
             [] OTHER -> {}) : w[1] \in DOMAIN db}
At(t, kinds, where) == op[t].kind \in kinds /\ pc[t] = where /\ Free(t, Wants(t))
Go(t, where, written) == GoOn(t, Wants(t), where, written)

-----------------------------------------------------------------------------
(* _authenticate_agent's last statement: the token is stamped, whether or  *)
(* not it is there and active by now.  Then what the endpoint refuses.     *)
Closed(t)   == \E r \in Rows(db, "cut") : db[r].c = seen[t].c /\ db[r].b = seen[t].b
KeyServes(t) == \E r \in Rows(db, "key") : db[r].live /\ db[r].b = seen[t].b
Uploads == {"upload_v1", "upload_acs", "upload_v2"}
Touch(t) ==
  \/ At(t, {"upload_v1", "upload_acs"}, "touch") /\ ~Closed(t) /\ Go(t, "store", <<>>)
  \/ At(t, {"upload_v2"}, "touch") /\ KeyServes(t) /\ Go(t, "store", <<>>)
  \/ At(t, {"status"}, "touch") /\ Go(t, "post", <<>>)

(* The rows of an upload.  Only acs_events has no foreign keys; a row of   *)
(* checkins or rejects brings its copy (sync_checkins_to_clean).           *)
Stored(t, name) == One(<<name, New(t)>>, Row(seen[t].c, seen[t].b, 0, 0, FALSE))
Store(t) ==
  /\ At(t, Uploads, "store")
  /\ op[t].kind = "upload_acs" \/ \A w \in Scope(t) : Exists(db, w[1])
  /\ Go(t, "ready",
        CASE op[t].kind = "upload_v1"  -> Over(Stored(t, "v1"), Stored(t, "clean"))
          [] op[t].kind = "upload_acs" -> Stored(t, "acs")
          [] OTHER                     -> Stored(t, "v2"))
Ready(t) ==
  /\ At(t, Uploads, "ready")
  /\ LET r == Branch(seen[t].b) IN
       Go(t, "commit", IF Exists(db, r) THEN One(r, [db[r] EXCEPT !.live = TRUE]) ELSE <<>>)

(* /upload-pipeline-status: an upsert without foreign keys. *)
Post(t) ==
  At(t, {"status"}, "post") /\ Go(t, "commit", One(<<"status", seen[t].b>>, Row(seen[t].c, seen[t].b, 0, 0, FALSE)))

(* offboard_library: the library, then what it holds, row by row; and the  *)
(* reversal the documentation describes, done by hand.                     *)
Revocable == <<"token", "inst", "code", "key">>
Revoked(d, o, n, back) ==
  {r \in Rows(d, Revocable[n]) : InScope(d, o, d[Org(o)].c, r) /\ d[r].live = ~back}
Back(t) == op[t].kind = "revert"
Event(t, event) == One(<<"evid", New(t)>>, [o |-> op[t].row[2], event |-> event])
Stage(t, n, where, rows, written) ==
  seen' = [seen EXCEPT ![t].n = n] /\ Find(t, Wants(t), where, rows, written)

CutoffOrg(t) ==
  /\ At(t, {"offboard", "revert"}, "org") /\ Exists(db, op[t].row) /\ db[op[t].row].live = ~Back(t)
  /\ Stage(t, 1, "sweep", Revoked(db, op[t].row[2], 1, Back(t)),
           One(op[t].row, [db[op[t].row] EXCEPT !.live = Back(t)]))
CutoffRow(t) ==
  /\ At(t, {"offboard", "revert"}, "sweep") /\ todo[t] # {}
  /\ LET r == First(todo[t]) IN
       /\ todo' = [todo EXCEPT ![t] = @ \ {r}]
       /\ Take(t, Wants(t), One(r, [View(t)[r] EXCEPT !.live = Back(t)]))
  /\ UNCHANGED <<pc, seen>>
CutoffNext(t) ==
  /\ At(t, {"offboard", "revert"}, "sweep") /\ todo[t] = {} /\ seen[t].n < Len(Revocable)
  /\ Stage(t, seen[t].n + 1, "sweep", Revoked(View(t), op[t].row[2], seen[t].n + 1, Back(t)), <<>>)
CutoffEnd(t) ==
  /\ At(t, {"offboard", "revert"}, "sweep") /\ todo[t] = {} /\ seen[t].n = Len(Revocable)
  /\ Go(t, "commit", Event(t, IF Back(t) THEN "reverted" ELSE "cutoff"))

(* create_agent_token.py, and a membership, whose foreign key names the    *)
(* library.                                                                *)
GrantOrg(t) ==
  At(t, {"grant"}, "org") /\ Exists(db, op[t].row) /\ db[op[t].row].live /\ Go(t, "branch", <<>>)
GrantBranch(t) ==
  /\ At(t, {"grant"}, "branch")
  /\ \A r \in Rows(db, "key") : db[r].live /\ db[r].b = op[t].row[2] => db[r].i = 0
  /\ Go(t, "commit", One(<<"token", New(t)>>, Row(seen[t].c, op[t].row[2], 0, 0, TRUE)))
MemberOrg(t) ==
  /\ At(t, {"member"}, "org") /\ Exists(db, op[t].row)
  /\ Go(t, "commit", One(<<"account", New(t)>>, Row(0, 0, op[t].row[2], 0, FALSE)))

-----------------------------------------------------------------------------
(* execute_purge: every gate, under the organization's lock; the tables in *)
(* their order, row by row; nothing may be left, and the evidence is added *)
(* to the transaction.                                                     *)
Lib(t)   == op[t].row[2]
InTable(t, n) ==
  {r \in Rows(View(t), Plan[n]) : Sees(op[t].arg, r) /\ InScope(View(t), Lib(t), seen[t].c, r)}
PurgeOrg(t) ==
  /\ At(t, {"purge"}, "org") /\ Exists(db, op[t].row) /\ EnvironmentAllows(op[t].arg)
  /\ CutoffComplete(db, Lib(t)) /\ Mapped(db, Lib(t)) /\ Attributed(db, Lib(t))
  /\ Stage(t, 1, "delete", InTable(t, 1), <<>>)
PurgeRow(t) ==
  /\ At(t, {"purge"}, "delete") /\ todo[t] # {}
  /\ LET r == First(todo[t]) IN
       /\ todo' = [todo EXCEPT ![t] = @ \ {r}]
       /\ Take(t, Wants(t), IF Exists(db, r) THEN One(r, Gone) ELSE <<>>)
  /\ UNCHANGED <<pc, seen>>

(* The end of a DELETE, where its foreign keys are checked. *)
Unreferenced(t) ==
  \A r \in DOMAIN put[t] : r[1] = Plan[seen[t].n] => Children(View(t), r) = {}
PurgeNext(t) ==
  /\ At(t, {"purge"}, "delete") /\ todo[t] = {} /\ Unreferenced(t) /\ seen[t].n < Len(Plan)
  /\ Stage(t, seen[t].n + 1, "delete", InTable(t, seen[t].n + 1), <<>>)

(* Mutant: the survivors are not counted. *)
PurgeEnd_Trusting(t) ==
  /\ At(t, {"purge"}, "delete") /\ todo[t] = {} /\ Unreferenced(t) /\ seen[t].n = Len(Plan)
  /\ Go(t, "commit", Event(t, "purged"))

PurgeEnd(t) ==
  /\ At(t, {"purge"}, "delete") /\ todo[t] = {} /\ Unreferenced(t) /\ seen[t].n = Len(Plan)
  /\ \A n \in DOMAIN Plan : InTable(t, n) = {}
  /\ Go(t, "commit", Event(t, "purged"))

(* What is deleted is no longer there. *)
CommitAll(t) ==
  /\ pc[t] = "commit" /\ End(t)
  /\ db' = [r \in {x \in DOMAIN View(t) : View(t)[x] # Gone} |-> View(t)[r]]

Step(t) ==
  \/ Touch(t) \/ Store(t) \/ Ready(t) \/ Post(t)
  \/ CutoffOrg(t) \/ CutoffRow(t) \/ CutoffNext(t) \/ CutoffEnd(t)
  \/ GrantOrg(t) \/ GrantBranch(t) \/ MemberOrg(t)
  \/ PurgeOrg(t) \/ PurgeRow(t) \/ PurgeNext(t) \/ PurgeEnd(t)

Next == \E t \in Tx : Begin(t) \/ Step(t) \/ CommitAll(t) \/ Fail(t)

Spec == Init /\ [][Next]_vars

-----------------------------------------------------------------------------
(* Whose a row may be: everything it names, whatever the other keys say;   *)
(* a row without a key may be anyone's.                                    *)
MayBeOf(o, r, v) ==
  \/ v.c = Cust(o) \/ o \in {v.b, v.o, v.i}
  \/ r \in {Org(o), Customer(Cust(o)), Branch(o), <<"inst", o>>}
  \/ r[1] \in Nullable /\ 0 \in {v.c, v.b}
Purged(o) == Evidence(db, o, "purged") # {}
PurgesNow(o) == ~Purged(o) /\ Purged(o)'

(* A purge that certifies itself has left no row that may be the library's *)
(* (execute_purge with its gates), whatever requests were under way.       *)
PurgeLeavesNothing ==
  [][\A o \in Libraries : PurgesNow(o) => \A r \in Records(db') : ~MayBeOf(o, r, db'[r])]_vars

(* A row disappears only with the purge of its library, and then it names  *)
(* no other library by any key.                                            *)
OthersKeepTheirs ==
  [][\A r \in DOMAIN db \ DOMAIN db' : \E o \in Libraries :
       PurgesNow(o) /\ \A p \in Libraries \ {o} : ~MayBeOf(p, r, db[r])]_vars

(* Both: a purge takes all that may be the library's and nothing else.     *)
PurgeTakesItsOwn == PurgeLeavesNothing /\ OthersKeepTheirs

(* What is purged is a library whose access has been cut off and was not   *)
(* given back, not even while the purge was deleting: until its end the    *)
(* library is cancelled and none of its credentials is alive.              *)
PurgesOnlyCutOff ==
  [][\A o \in Libraries : PurgesNow(o) =>
       ~db[Org(o)].live /\ Evidence(db, o, "cutoff") # {} /\ Credentials(db, o) = {}]_vars
=============================================================================
