-------------------------- MODULE LibrarySettings --------------------------
(***************************************************************************)
(* Libraries, their identities and their settings documents: the           *)
(* transactions of the people who provision a library and configure it,    *)
(* and what a Collector is handed of it when it enrolls.  A document is a  *)
(* function from some of its keys to their values; every writer is to      *)
(* change its own key and no other, whoever else is writing.               *)
(***************************************************************************)
EXTENDS Transactions, Routing, Estimates

CONSTANTS
  Pasts,             \* what to begin with: a database and how many transactions are over
  TransitWishes, EfficiencyWishes, SorterWishes, ValueWishes, ListWishes,  \* bodies of requests
  Slugs,             \* the slugs new libraries are given
  SiteName,          \* what the branch of a library is called
  Texts,             \* what a sorter may write for a destination
  Counts,            \* the check-ins of each day of a report
  Today

Past   == 2                 \* ids of the libraries there are to begin with
New(t) == Past + t

Org(i)      == <<"org", i>>         \* [slug, status, customer], 0 if it has none
Branch(i)   == <<"branch", i>>      \* its operational id, or 0
Customer(c) == <<"customer", c>>
Slug_(s)    == <<"slug", s>>        \* the unique index on the organizations' slugs
Doc(i)      == <<"doc", i>>         \* organization_settings
Site(i)     == <<"site", i>>        \* branch_settings
Member(i)   == <<"member", i>>      \* whether the administrator of it is one
Sorter(i)   == <<"sorter", i>>      \* whether the branch hosts a sorter
Audit(t)    == <<"audit", t>>
Handed(i)   == <<"handed", i>>      \* what the Collector of the library was given

Libraries(d)  == {r[2] : r \in {x \in DOMAIN d : x[1] = "org"}}
Stored(d, r)  == IF r \in DOMAIN d THEN d[r] ELSE <<>>
Status(d, i)  == d[Org(i)].status

(* A database of the schema; that its identities are one: a customer is of *)
(* one library, a library's customer and slug are on record.               *)
Fits(r, v) ==
  CASE r[1] = "org"      -> r = Org(r[2]) /\ v = [slug |-> v.slug, status |-> v.status, customer |-> v.customer]
    [] r[1] = "customer" -> r = Customer(r[2]) /\ r[2] # 0
    [] OTHER             -> TRUE
Typed(d) == d = [r \in DOMAIN d |-> d[r]] /\ \A r \in DOMAIN d : Fits(r, d[r])
LibrariesOf(d, c) == {i \in Libraries(d) : d[Org(i)].customer = c}
Kept(d) ==
  /\ \A r \in DOMAIN d : r[1] = "customer" => \E i \in Libraries(d) : LibrariesOf(d, r[2]) = {i}
  /\ \A i \in Libraries(d) :
       /\ d[Org(i)].customer = 0 \/ Customer(d[Org(i)].customer) \in DOMAIN d
       /\ Slug_(d[Org(i)].slug) \in DOMAIN d /\ d[Slug_(d[Org(i)].slug)] = i

ASSUME SettingsAssumption ==
  /\ MaxTx \in Nat
  /\ \A p \in Pasts :
       /\ Typed(p.db) /\ Kept(p.db)
       /\ \A r \in DOMAIN p.db : r[1] \in {"org", "customer"} => r[2] \in 1..Past

Init == \E p \in Pasts : Begun({p.db}, p.over)

-----------------------------------------------------------------------------
(* merge_settings: an object over an object key by key, anything else      *)
(* outright; what applies at a library's branch, and the hand-out made of  *)
(* it (build_classification_rules).                                        *)
Objects == {"transit", "internal", "efficiency", "value"}
Merge(organization, branch) ==
  [k \in DOMAIN organization \cup DOMAIN branch |->
     IF k \notin DOMAIN branch THEN organization[k]
     ELSE IF k \in DOMAIN organization /\ k \in Objects THEN Over(branch[k], organization[k])
     ELSE branch[k]]
Effective(d, i) == Merge(Stored(d, Doc(i)), Stored(d, Site(i)))

(* The names of a list, as every reader compares them. *)
Names(entries) == {entries[n] : n \in DOMAIN entries} \ {Blank}
HandOut(settings) ==
  [transit |-> Part(settings, "transit"),
   rules   |-> Rules(Part(settings, "transit")),
   lists   |-> [l \in DOMAIN Part(settings, "internal") |-> Names(Part(settings, "internal")[l])]]

(* v2_settings_ready: a zone, and the record of a review. *)
Ready(document) == {"zone", "review"} \subseteq DOMAIN document

-----------------------------------------------------------------------------
(* What a writer does to a document.                                       *)
Customers == {"transit", "efficiency", "value", "sorter"}
Platform  == {"review", "internal"}
Writers   == Customers \cup Platform

DocOf(o) == IF o.kind = "sorter" THEN Site(o.row) ELSE Doc(o.row)
KeysOf(kind) ==
  CASE kind = "review" -> {"zone", "review"} [] kind = "sorter" -> {"efficiency"} [] OTHER -> {kind}

(* validate_internal_routing: each list trimmed, without blanks and        *)
(* repeats.                                                                *)
Normalized(entries) ==
  SelectSeq([n \in DOMAIN entries |-> IF \E m \in 1..(n - 1) : entries[m] = entries[n] THEN Blank ELSE entries[n]],
            LAMBDA e : e # Blank)

(* The keys a writer sets; a block with nothing in it is not stored.       *)
(* `by`, a history, says that the block came through the API.              *)
Setting(key, block) == IF DOMAIN block = {} THEN <<>> ELSE One(key, block)
Change(o) ==
  CASE o.kind = "transit"    -> One("transit", Over(One("by", "api"), o.arg))
    [] o.kind = "internal"   -> One("internal", [l \in DOMAIN o.arg |-> Normalized(o.arg[l])])
    [] o.kind = "review"     -> Over(One("zone", "a zone"), One("review", "a review"))
    [] o.kind = "efficiency" -> Setting("efficiency", Written(OrganizationEfficiency(o.arg), EfficiencyFields))
    [] o.kind = "sorter"     -> Setting("efficiency", Written(SorterEfficiency(o.arg), EfficiencyFields))
    [] o.kind = "value"      -> Setting("value", ValueWritten(ValueSettings(o.arg)))

(* Mutant: what was read when the transaction began is written back. *)
Applied_AsRead(t, document) ==
  LET base == IF op[t].kind = "internal" THEN seen[t].read ELSE document
  IN Over(Change(op[t]), [k \in DOMAIN base \ KeysOf(op[t].kind) |-> base[k]])

Applied(t, document) ==
  Over(Change(op[t]), [k \in DOMAIN document \ KeysOf(op[t].kind) |-> document[k]])

(* Whose statement finds anything to write to, in what it sees.            *)
Resolves(d, o) ==
  IF o.kind \in Platform THEN Status(d, o.row) # "cancelled"
  ELSE /\ d[Member(o.row)] /\ Status(d, o.row) \in {"active", "trial"}
       /\ o.kind = "sorter" => d[Sorter(o.row)]

(* The organization's Efficiency block, where an answer has to show it. *)
Readable(d, o) ==
  o.kind \in {"sorter", "efficiency"} => OrganizationReadable(Part(Stored(d, Doc(o.row)), "efficiency"))

-----------------------------------------------------------------------------
(* Locks.                                                                  *)
(* Mutant: the library is read, and not locked, to identify it. *)
IdentifyLock_Read == KeyShare

IdentifyLock == Update

(* An UPDATE of a document that is not there finds nothing; an INSERT      *)
(* holds on to the row its document belongs to.                            *)
Clears(t) == DOMAIN Change(op[t]) = {}
Touches(t) == ~Clears(t) \/ DocOf(op[t]) \in DOMAIN db
Parent(o) == IF o.kind = "sorter" THEN Branch(o.row) ELSE Org(o.row)

Wants(t) ==
  CASE pc[t] = "apply"  -> IF ~Touches(t) THEN {}
                           ELSE {<<DocOf(op[t]), NoKeyUpdate>>}
                                \cup (IF DocOf(op[t]) \in DOMAIN db THEN {} ELSE {<<Parent(op[t]), KeyShare>>})
    [] pc[t] = "slug"   -> {<<Slug_(op[t].arg), Update>>}
    [] pc[t] = "org"    -> {<<Org(op[t].row), IF op[t].kind = "identify" THEN IdentifyLock ELSE Share>>}
    [] pc[t] = "branch" -> {<<Branch(op[t].row), Update>>}
                           \cup (IF op[t].kind = "identify" THEN {<<Org(op[t].row), NoKeyUpdate>>} ELSE {})
    [] pc[t] = "status" -> {<<Org(op[t].row), Update>>}
    [] pc[t] = "remove" -> {<<Member(op[t].row), NoKeyUpdate>>}
    [] pc[t] = "unhost" -> {<<Sorter(op[t].row), NoKeyUpdate>>}
    [] OTHER            -> {}

At(t, kind, where) == op[t].kind = kind /\ pc[t] = where /\ Free(t, Wants(t))
Go(t, where, written) == GoOn(t, Wants(t), where, written)

-----------------------------------------------------------------------------
(* The operations begin.  What a request's own checks read is a condition  *)
(* of the beginning; it may be false by the next statement.                *)
Start(t, kind, row, arg, where) ==
  /\ Waiting(t)
  /\ op' = [op EXCEPT ![t] = [kind |-> kind, row |-> row, arg |-> arg]] /\ pc' = [pc EXCEPT ![t] = where]
  /\ seen' = [seen EXCEPT ![t] = IF kind \in Writers THEN [read |-> Stored(db, Doc(row))] ELSE [read |-> <<>>]]
  /\ UNCHANGED <<db, todo, put, lock>>

Put(t, kind, i, arg) ==
  LET o == [kind |-> kind, row |-> i, arg |-> arg]
  IN Resolves(db, o) /\ (kind = "sorter" => Readable(db, o)) /\ Start(t, kind, i, arg, "issue")

(* What a valid body is to be stored as. *)
Replacements == {Serialized(w) : w \in {x \in TransitWishes : Valid(x)}}

BeginCustomer(t) ==
  \E i \in {x \in Libraries(db) : Member(x) \in DOMAIN db} :
    \/ \E w \in Replacements : Put(t, "transit", i, w)
    \/ \E w \in EfficiencyWishes :
         Acceptable(w, EfficiencyFields, OrganizationFields, Today) /\ Put(t, "efficiency", i, w)
    \/ \E w \in SorterWishes : Acceptable(w, EfficiencyFields, SorterFields, Today) /\ Put(t, "sorter", i, w)
    \/ \E w \in ValueWishes : ValueAcceptable(w, Today) /\ Put(t, "value", i, w)

BeginPlatform(t) ==
  \/ \E i \in Libraries(db) :
       \/ \E w \in ListWishes : Put(t, "internal", i, w)
       \/ Put(t, "review", i, "a zone")
       \/ Start(t, "identify", i, "none", "org") \/ Start(t, "enroll", i, "none", "org")
       \/ \E s \in {"active", "suspended", "cancelled"} : Start(t, "status", i, s, "status")
       \/ Member(i) \in DOMAIN db /\ Start(t, "remove", i, "none", "remove")
       \/ Sorter(i) \in DOMAIN db /\ Start(t, "unhost", i, "none", "unhost")
  \/ \E s \in Slugs : Slug_(s) \notin DOMAIN db /\ Start(t, "provision", New(t), s, "slug")

-----------------------------------------------------------------------------
(* A writer's statement: what it finds, which it keeps while it waits, and *)
(* what it makes of the row as that then is; the record of a platform      *)
(* administrator's change; the answer, read again.                         *)
Issue(t) ==
  /\ op[t].kind \in Writers /\ pc[t] = "issue"
  /\ Resolves(db, op[t]) \/ op[t].kind \in Customers
  /\ pc' = [pc EXCEPT ![t] = IF Resolves(db, op[t]) THEN "apply" ELSE "answer"]
  /\ UNCHANGED <<db, op, seen, todo, put, lock>>

Apply(t) ==
  /\ \E kind \in Writers : At(t, kind, "apply")
  /\ Go(t, IF op[t].kind \in Platform THEN "record" ELSE "answer",
        IF Touches(t) THEN One(DocOf(op[t]), Applied(t, Stored(db, DocOf(op[t])))) ELSE <<>>)

Recorded(t, kind, i) == One(Audit(t), [kind |-> kind, library |-> i])
Record(t) ==
  \E kind \in Platform : At(t, kind, "record") /\ Go(t, "commit", Recorded(t, kind, op[t].row))

Answer(t) ==
  \E kind \in Customers :
    /\ At(t, kind, "answer") /\ (Resolves(db, op[t]) => Readable(View(t), op[t]))
    /\ Go(t, "commit", <<>>)

(* create_organization_with_primary_branch. *)
Created(n, slug) ==
  Over(One(Org(n), [slug |-> slug, status |-> "active", customer |-> 0]),
    Over(One(Branch(n), 0), Over(One(Doc(n), <<>>), Over(One(Site(n), <<>>), One(Slug_(slug), n)))))

(* assign_operational_identity: `read` is the customer the library had     *)
(* when it was locked.                                                     *)
Consistent(d, i, read) ==
  /\ d[Branch(i)] \in {0, i}
  /\ read # 0 => /\ Customer(read) \in DOMAIN d
                 /\ \A j \in Libraries(d) \ {i} : d[Org(j)].customer # read
Identified(d, i, read, t) ==
  LET own   == IF d[Org(i)].customer = 0 THEN New(t) ELSE d[Org(i)].customer
      named == Over(One(Org(i), [d[Org(i)] EXCEPT !.customer = own]), One(Branch(i), i))
  IN IF read = 0 THEN Over(One(Customer(New(t)), "a customer"), named) ELSE named

(* provision_library: everything at once, unless another took the slug. *)
Provision(t) ==
  LET n == op[t].row
      c == Created(n, op[t].arg)
  IN /\ At(t, "provision", "slug") /\ Slug_(op[t].arg) \notin DOMAIN db
     /\ Go(t, "commit", Over(Recorded(t, "provision", n), Over(Identified(c, n, 0, t), c)))

(* assign_library_operational_identity. *)
IdentifyOrg(t) ==
  /\ At(t, "identify", "org") /\ Status(db, op[t].row) # "cancelled"
  /\ pc' = [pc EXCEPT ![t] = "branch"] /\ Take(t, Wants(t), <<>>) /\ UNCHANGED todo
  /\ seen' = [seen EXCEPT ![t] = [read |-> db[Org(op[t].row)].customer]]
IdentifyBranch(t) ==
  LET i       == op[t].row
      changed == seen[t].read = 0 \/ db[Branch(i)] = 0
  IN /\ At(t, "identify", "branch") /\ Consistent(db, i, seen[t].read)
     /\ Go(t, "commit", IF changed THEN Over(Recorded(t, "identify", i), Identified(db, i, seen[t].read, t)) ELSE <<>>)

(* _prepare_v2_enrollment: under the library's and the branch's locks both *)
(* documents, in one statement; a library is enrolled once.                *)
EnrollOrg(t) == At(t, "enroll", "org") /\ Status(db, op[t].row) = "active" /\ Go(t, "branch", <<>>)
EnrollBranch(t) ==
  LET i == op[t].row IN
  /\ At(t, "enroll", "branch")
  /\ db[Org(i)].customer # 0 /\ db[Branch(i)] # 0 /\ Handed(i) \notin DOMAIN db
  /\ Ready(Stored(db, Doc(i)))
  /\ Go(t, "commit", One(Handed(i), HandOut(Effective(db, i))))

(* What else happens to a library: its status, who administers it, whether *)
(* its branch hosts a sorter.                                              *)
Decide(t) ==
  \/ /\ At(t, "status", "status") /\ Status(db, op[t].row) \notin {"cancelled", op[t].arg}
     /\ Go(t, "commit", One(Org(op[t].row), [db[Org(op[t].row)] EXCEPT !.status = op[t].arg]))
  \/ At(t, "remove", "remove") /\ Go(t, "commit", One(Member(op[t].row), FALSE))
  \/ At(t, "unhost", "unhost") /\ Go(t, "commit", One(Sorter(op[t].row), FALSE))

Step(t) ==
  \/ Issue(t) \/ Apply(t) \/ Record(t) \/ Answer(t) \/ Provision(t)
  \/ IdentifyOrg(t) \/ IdentifyBranch(t) \/ EnrollOrg(t) \/ EnrollBranch(t) \/ Decide(t)

Next == \E t \in Tx : BeginCustomer(t) \/ BeginPlatform(t) \/ Step(t) \/ Commit(t) \/ Fail(t)

Spec == Init /\ [][Next]_vars

-----------------------------------------------------------------------------
(* A commit changes of a document exactly what its writer was asked to,    *)
(* key for key, and leaves what others wrote meanwhile ("one key, never    *)
(* the document"); what a platform administrator changed is on record.     *)
OneKeyOnly ==
  [][\A i \in Libraries(db) : \A r \in {Doc(i), Site(i)} :
       Stored(db', r) # Stored(db, r) =>
         \E t \in Tx :
           LET o == op[t] IN
           /\ pc[t] = "commit" /\ pc'[t] = "done" /\ o.kind \in Writers /\ r = DocOf(o)
           /\ \A k \in (DOMAIN Stored(db, r) \cup DOMAIN db'[r]) \ KeysOf(o.kind) :
                k \in DOMAIN Stored(db, r) /\ k \in DOMAIN db'[r] /\ db'[r][k] = db[r][k]
           /\ \A k \in KeysOf(o.kind) :
                IF k \in DOMAIN Change(o) THEN db'[r][k] = Change(o)[k] ELSE k \notin DOMAIN db'[r]
           /\ o.kind \in Platform => Audit(t) \in DOMAIN db']_vars

(* However provisioning, assignments and offboarding overlap: a customer   *)
(* belongs to one library and none is left over, a slug to one library,    *)
(* and a library that was provisioned is complete from the first.          *)
IdentitiesAreOne ==
  /\ \A r \in DOMAIN db : r[1] = "customer" => Cardinality(LibrariesOf(db, r[2])) = 1
  /\ \A i, j \in Libraries(db) : i # j => db[Org(i)].slug # db[Org(j)].slug
  /\ \A i \in Libraries(db) : i > Past =>
       /\ Slug_(db[Org(i)].slug) \in DOMAIN db /\ Customer(db[Org(i)].customer) \in DOMAIN db
       /\ {Branch(i), Doc(i), Site(i)} \subseteq DOMAIN db /\ db[Branch(i)] = i

(* Libraries whose Collector was handed a block of the API's, and that     *)
(* have one now, with none of the branch's own over it.                    *)
ByApi(block) == "by" \in DOMAIN block /\ block.by = "api"
Comparable ==
  {i \in Libraries(db) : /\ Handed(i) \in DOMAIN db /\ ByApi(db[Handed(i)].transit)
                         /\ ByApi(Part(Stored(db, Doc(i)), "transit"))
                         /\ "transit" \notin DOMAIN Stored(db, Site(i))}
Now(i)    == Config(Effective(db, i).transit, SiteName)
Then(i)   == db[Handed(i)].rules
On(block) == {block.dests[n].label : n \in {m \in DOMAIN block.dests : block.dests[m].on}}

(* An item sent to `text` is one the Collector can tell: it has a name of  *)
(* every Collector's, or the very characters of one it was handed and of   *)
(* no other, whose key stays as it is; or nothing counts it by name.       *)
Steady(key)    == DestinationKey(key) = key
Parts(i, text) == {l \in On(db[Handed(i)].transit) : Within(l, Trim(text))}
Told(text, parts, legacy) ==
  \/ MapTransitLabel(text) # Unknown
  \/ parts = {Trim(text)} /\ Steady(DestinationKey(text))
  \/ parts = {} /\ legacy = Unknown

(* Whatever was renamed, disabled or added since the Collector enrolled,   *)
(* an item whose text it can tell counts the same as it did in the days    *)
(* when the text itself was stored.  Another, spelled in another way or    *)
(* with more around it, counts as other or as the key of a label whose     *)
(* characters it has.  Each destination that is on has a key no other has  *)
(* and is counted under it, or under home, or has no key to speak of.      *)
DestinationsStand ==
  \A i \in Comparable :
    LET on == On(Effective(db, i).transit)  now == Now(i)  then == Then(i) IN
    /\ \A text \in Texts :
         LET parts == Parts(i, text)  legacy == CountedLegacy(now, text)  current == CountedCurrent(now, then, text)
         IN IF Told(text, parts, legacy) THEN current = legacy
            ELSE current \in {Unknown} \cup {CountedLegacy(now, DestinationKey(l)) : l \in parts}
    /\ \A l \in on : DestinationKey(l) \in now.transit \cup HomeKeys(SiteName) \cup {Unknown}
    /\ \A l, m \in on : l # m => DestinationKey(l) # DestinationKey(m)

(* What the two reports answer: from the stored blocks, unless the         *)
(* organization's cannot be read, and the check-ins of the range.          *)
EfficiencyAnswer(organization, sorter) ==
  IF OrganizationReadable(organization) THEN {EfficiencyReport(Counts, Resolve(organization, sorter))} ELSE {}
ValueAnswer(value, organization) ==
  ValueReport(ValueSettings(value), LaborRate(ValueSettings(value), organization))

(* The figures of every library.  Efficiency: nothing an organization says *)
(* of costs or dates reaches a sorter, a sorter's own rate is the one that *)
(* applies, and a range that begins before the sorter was in service is    *)
(* reported from the day it was.                                           *)
Costs == [one_time_cost |-> Text(900, 2), recurring_annual_cost |-> Text(36500, 2), in_service_date |-> 2]
EfficiencyStands(organization, sorter) ==
  \A report \in EfficiencyAnswer(organization, sorter) :
    LET settings == Resolve(organization, sorter)
        served   == [d \in {x \in DOMAIN Counts : \A s \in settings.in_service_date : x >= s} |-> Counts[d]]
    IN /\ EfficiencyAnswer(Over(Costs, organization), sorter) = {report}
       /\ \A n \in OrganizationFields \cap DOMAIN sorter :
            settings[n] = SorterEfficiency(sorter)[n]
       /\ EfficiencyReport(served, settings) = [report EXCEPT !.checkins = report.inService]

(* SortView Value: the organization's figures are there exactly if both    *)
(* kinds of work have theirs, a month's value is within a cent of theirs   *)
(* together, and a payback of more (or less) than a year says what the net *)
(* says.                                                                   *)
EstimateStands(value, organization) ==
  LET report   == ValueAnswer(value, organization)
      known(f) == report.reporting[f] # {} /\ report.troubleshooting[f] # {}
  IN /\ \A f \in {"hours", "monthly", "annual"} : report.total[f] # {} <=> known(f)
     /\ \A t \in report.total.monthly, r \in report.reporting.monthly, s \in report.troubleshooting.monthly :
          t - (r + s) \in -1..1
     /\ \A p \in report.payback, n \in report.net : p >= 0 /\ (p > 120 => n <= 0) /\ (p < 120 => n >= 0)

FiguresStand ==
  \A i \in Libraries(db) :
    LET organization == Part(Stored(db, Doc(i)), "efficiency")
        sorter       == Part(Stored(db, Site(i)), "efficiency")
    IN /\ EfficiencyStands(organization, sorter)
       /\ EstimateStands(Part(Stored(db, Doc(i)), "value"), organization)
=============================================================================
