---------------------------- MODULE KeyInventory ----------------------------
(***************************************************************************)
(* reconcile_ingest_keys.py: what one look at a branch's credentials, in a *)
(* transaction of its own that changes nothing, says of who owns its keys. *)
(* Each operator is a question to the database d as it was at that look.   *)
(***************************************************************************)
EXTENDS Enrollment

Keys(d)           == Table(d, "key")
InstRows(d)       == Table(d, "inst")
LiveInstalled(d)  == {i \in InstRows(d) : d[i].status # "retired"}
ActiveTokens(d)   == {k \in Table(d, "token") : d[k].active}
BoundTokens(d)    == {k \in Table(d, "token") : d[k].inst # 0}
UnboundActive(d)  == ActiveTokens(d) \ BoundTokens(d)
ActiveBound(d)    == {d[k].inst : k \in ActiveTokens(d) \cap BoundTokens(d)}
EnrollmentCuts(d) == {c \in Table(d, "cut") : d[c].by = "enrollment"}

(* Who was last heard of in the transaction that last heard of the key. *)
HeartbeatInstallations(d, k) == {i \in InstRows(d) : d[k].heard # 0 /\ d[i].heard = d[k].heard}

(* Mutant: any record of an enrollment, whenever it was. *)
Matching_AnyTime(d, k) == EnrollmentCuts(d)

Matching(d, k) == {c \in EnrollmentCuts(d) : c[2] = k[2]}

(* The parts of the record c of key k that disagree, or are not there.     *)
Disagrees(d, k, c) ==
  LET code == <<"code", d[c].code>> IN
  /\ code \in DOMAIN d
  /\ \/ d[code].inst # d[c].inst \/ d[code].contract # 2
     \/ d[code].state = "revoked" \/ (d[code].state = "used" /\ d[code].at # k[2])
Incomplete(d, c) ==
  LET code == <<"code", d[c].code>> IN
  \/ code \notin DOMAIN d \/ Inst(d[c].inst) \notin DOMAIN d
  \/ code \in DOMAIN d /\ d[code].state # "used"
  \/ \A k \in BoundTokens(d) : d[k].inst # d[c].inst

(* One redemption issues one key. *)
FitsSeveral(d, c) == Cardinality({k \in Keys(d) : c \in Matching(d, k)}) > 1

E1(d, k) ==
  LET matching == Matching(d, k)
      c        == CHOOSE x \in matching : TRUE
  IN CASE matching = {} ->
            IF EnrollmentCuts(d) # {} \/ (\E x \in Table(d, "cut") : x[2] = k[2]) THEN "incomplete" ELSE "none"
       [] Cardinality(matching) > 1 -> "ambiguous"
       [] FitsSeveral(d, c)         -> "ambiguous"
       [] Disagrees(d, k, c)        -> "conflicting"
       [] Incomplete(d, c)          -> "incomplete"
       [] \/ Cardinality(EnrollmentCuts(d)) > 1
          \/ HeartbeatInstallations(d, k) \notin {{}, {Inst(d[c].inst)}} -> "ambiguous"
       [] OTHER -> "candidate"
Candidates(d, k) == IF E1(d, k) = "candidate" THEN {d[c].inst : c \in Matching(d, k)} ELSE {}

(* What the enrollments before left: a token has its code's installation   *)
(* and instant; a key with an owner came with a record that names the      *)
(* owner and the code, and with such a key only the owner was heard of;    *)
(* there is at most one record, which may be a made up one otherwise.      *)
RecordOf(d, k) ==
  LET cut == <<"cut", k[2]>>  code == <<"code", d[cut].code>> IN
  /\ cut \in EnrollmentCuts(d) /\ d[cut].inst = d[k].owner
  /\ code \in DOMAIN d /\ d[code].inst = d[k].owner /\ d[code].contract = 2
  /\ d[code].state = "used" /\ d[code].at = k[2]
Recorded(d) ==
  /\ \A k \in Table(d, "token") : d[k].from # 0 =>
       LET code == <<"code", d[k].from>> IN d[k].inst = d[code].inst /\ d[code].at = k[2]
  /\ \A k \in Keys(d) : d[k].owner # 0 =>
       RecordOf(d, k) /\ HeartbeatInstallations(d, k) \subseteq {Inst(d[k].owner)}
  /\ AtMostOne(EnrollmentCuts(d))

ASSUME InventoryAssumption ==
  \A d \in Pasts : Recorded(d) /\ \A r \in InstRows(d) \cup Keys(d) : d[r].heard <= Past

-----------------------------------------------------------------------------
(* The flags of the branch, and of a key.                                  *)
BranchFlags(d) ==
  {f \in {"multiple_active_keys", "no_active_key_after_retirement", "active_unbound_tokens",
          "active_tokens_bound_to_several_installations", "bound_token_installation_outside_this_branch",
          "several_live_installations", "several_cutover_rows", "several_enrollment_cutovers",
          "organization_cancelled"} :
     CASE f = "multiple_active_keys"           -> Cardinality(ActiveKeys(d)) > 1
       [] f = "no_active_key_after_retirement" -> Keys(d) # {} /\ ActiveKeys(d) = {}
       [] f = "active_unbound_tokens"          -> UnboundActive(d) # {}
       [] f = "active_tokens_bound_to_several_installations" -> Cardinality(ActiveBound(d)) > 1
       [] f = "bound_token_installation_outside_this_branch" ->
            \E k \in BoundTokens(d) : Inst(d[k].inst) \notin InstRows(d)
       [] f = "several_live_installations"     -> Cardinality(LiveInstalled(d)) > 1
       [] f = "several_cutover_rows"           -> Cardinality(Table(d, "cut")) > 1
       [] f = "several_enrollment_cutovers"    -> Cardinality(EnrollmentCuts(d)) > 1
       [] f = "organization_cancelled"         -> d[Org] = "cancelled"}

(* Mutant: an installation is not usable once it is retired. *)
Serving_UnlessRetired(d, i) == Inst(i) \in DOMAIN d /\ d[Inst(i)].status # "retired"

Serving(d, i) == Inst(i) \in DOMAIN d /\ d[Inst(i)].status \in {"provisioning", "active"}

KeyFlags(d, k) ==
  LET active  == d[k].active
      owner   == {d[k].owner} \ {0}
      subject == IF owner # {} THEN owner ELSE Candidates(d, k)
  IN {f \in {"organization_cancelled", "several_active_keys_at_branch", "active_unbound_tokens_at_branch",
             "several_live_installations_at_branch", "active_tokens_bound_to_another_installation",
             "owner_installation_not_usable", "candidate_installation_not_usable",
             "candidate_installation_not_contract_2", "owner_differs_from_e1_candidate"} :
        CASE f = "organization_cancelled"          -> d[Org] = "cancelled"
          [] f = "several_active_keys_at_branch"   -> active /\ Cardinality(ActiveKeys(d)) > 1
          [] f = "active_unbound_tokens_at_branch" -> active /\ UnboundActive(d) # {}
          [] f = "several_live_installations_at_branch" ->
               active /\ owner = {} /\ Cardinality(LiveInstalled(d)) > 1
          [] f = "active_tokens_bound_to_another_installation" ->
               active /\ \E i \in subject, j \in ActiveBound(d) : i # j
          [] f = "owner_installation_not_usable"     -> active /\ \E i \in owner : ~Serving(d, i)
          [] f = "candidate_installation_not_usable" -> active /\ owner = {} /\ \E i \in subject : ~Serving(d, i)
          [] f = "candidate_installation_not_contract_2" ->
               owner = {} /\ \E i \in subject : d[Inst(i)].contract # 2
          [] f = "owner_differs_from_e1_candidate" ->
               \E i \in owner, j \in Candidates(d, k) : i # j}

-----------------------------------------------------------------------------
(* At whatever moment it is taken, the inventory points at no installation *)
(* but the one whose redemption issued the key, and of a key with an owner *)
(* it points at the owner; an owned key without flags in an active library *)
(* is one that a recovery accepts (issue_recovery_token); and no operation *)
(* raises one of the flags that mean the registry was tampered with.       *)
Issuers(d, k) == {d[x].inst : x \in {y \in Table(d, "token") : y[2] = k[2] /\ d[y].from # 0}}
Recoverable(d, i) ==
  /\ Enrollable(d, i) /\ d[Inst(i)].contract = 2
  /\ Cardinality(ActiveKeys(d)) = 1 /\ Owners(d) = {i}
InventoryIsRight ==
  /\ \A k \in Keys(db) :
       /\ Candidates(db, k) \subseteq Issuers(db, k)
       /\ db[k].owner # 0 => Candidates(db, k) = {db[k].owner}
       /\ db[k].active /\ db[k].owner # 0 /\ db[Org] = "active" /\ KeyFlags(db, k) = {} =>
            Recoverable(db, db[k].owner)
  /\ BranchFlags(db) \cap {"multiple_active_keys", "bound_token_installation_outside_this_branch",
                           "several_enrollment_cutovers"} = {}
=============================================================================
