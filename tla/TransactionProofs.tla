------------------------- MODULE TransactionProofs -------------------------
(***************************************************************************)
(* What holds of transactions whatever they are for: the rows one function *)
(* puts over another, the first and the last of some rows, and that the    *)
(* locks of two transactions never conflict.                               *)
(***************************************************************************)
EXTENDS Transactions, WellFoundedInduction, TLAPS

-----------------------------------------------------------------------------
(* A set of numbers has a least one.  Its negation is a minimal            *)
(* counterexample: this is how the project proves things by induction.     *)
LEMMA LeastNumber ==
  ASSUME NEW T \in SUBSET Nat, T # {}
  PROVE  \E n \in T : \A m \in T : n <= m
<1>1. PICK n \in T : \A m \in T : <<m, n>> \notin OpToRel(<, Nat)
  BY NatLessThanWellFounded, WFMin
<1>2. \A m \in T : m \in Nat /\ ~(m < n)
  BY <1>1 DEF OpToRel
<1> QED BY <1>2

(* Of finitely many transactions one has the greatest number. *)
LEMMA GreatestOf ==
  ASSUME NEW n \in Nat, NEW T \in SUBSET (1..n), T # {}, NEW f, \A t \in T : f[t] \in Nat
  PROVE  \E g \in T : \A t \in T : f[t] <= f[g]
<1> DEFINE Upto(k)  == T \cap (1..k)
           Fine(k)  == Upto(k) = {} \/ \E g \in Upto(k) : \A t \in Upto(k) : f[t] <= f[g]
           Bad    == {k \in Nat : k <= n /\ ~Fine(k)}
<1>1. Bad = {}
  <2>1. SUFFICES ASSUME Bad # {} PROVE FALSE
    OBVIOUS
  <2>2. PICK k \in Bad : \A m \in Bad : k <= m
    <3>1. Bad \in SUBSET Nat
      OBVIOUS
    <3> HIDE DEF Bad
    <3> QED BY <2>1, <3>1, LeastNumber
  <2>3. k \in Nat /\ k <= n /\ ~Fine(k)
    BY <2>2
  <2>4. k # 0
    <3>1. Upto(0) = {}
      OBVIOUS
    <3> QED BY <2>3, <3>1
  <2>5. k - 1 \in Nat /\ k - 1 <= n /\ Fine(k - 1)
    <3>1. k - 1 \in Nat /\ k - 1 <= n /\ ~(k <= k - 1)
      BY <2>3, <2>4
    <3> QED BY <2>2, <3>1
  <2>6. Upto(k) = IF k \in T THEN Upto(k - 1) \cup {k} ELSE Upto(k - 1)
    <3>1. \A t \in T : t \in Nat /\ 1 <= t /\ (t \in 1..k <=> t \in 1..(k - 1) \/ t = k)
      BY <2>3, <2>4
    <3> QED BY <3>1
  <2> HIDE DEF Upto
  <2>7. CASE k \notin T
    BY <2>3, <2>5, <2>6, <2>7
  <2>8. CASE k \in T /\ Upto(k - 1) = {}
    <3>1. Upto(k) = {k} /\ f[k] \in Nat
      BY <2>6, <2>8
    <3> QED BY <2>3, <3>1
  <2>9. CASE k \in T /\ Upto(k - 1) # {}
    <3>1. PICK g \in Upto(k - 1) : \A t \in Upto(k - 1) : f[t] <= f[g]
      BY <2>5, <2>9
    <3>2. g \in T /\ \A t \in Upto(k - 1) : t \in T
      BY DEF Upto
    <3>3. f[g] \in Nat /\ f[k] \in Nat /\ \A t \in Upto(k - 1) : f[t] \in Nat
      BY <2>9, <3>2
    <3>4. CASE f[k] <= f[g]
      BY <2>3, <2>6, <2>9, <3>1, <3>4
    <3>5. CASE ~(f[k] <= f[g])
      <4>1. \A t \in Upto(k) : f[t] <= f[k]
        BY <2>6, <2>9, <3>1, <3>3, <3>5
      <4>2. k \in Upto(k)
        BY <2>6, <2>9
      <4> QED BY <2>3, <4>1, <4>2
    <3> QED BY <3>4, <3>5
  <2> QED BY <2>7, <2>8, <2>9
<1>2. Fine(n) /\ Upto(n) = T
  <2>1. n \notin Bad
    BY <1>1
  <2>2. Upto(n) = T
    OBVIOUS
  <2> HIDE DEF Fine
  <2> QED BY <2>1, <2>2
<1> QED BY <1>2

(* The first of some rows is one of them. *)
LEMMA FirstIsOne ==
  ASSUME NEW rows, rows # {}, \A r \in rows : r[2] \in Nat
  PROVE  First(rows) \in rows
<1>1. PICK n \in {r[2] : r \in rows} : \A m \in {r[2] : r \in rows} : n <= m
  <2> {r[2] : r \in rows} \in SUBSET Nat /\ {r[2] : r \in rows} # {}
    OBVIOUS
  <2> QED BY LeastNumber
<1>2. \E r \in rows : \A s \in rows : r[2] <= s[2]
  BY <1>1
<1> QED BY <1>2 DEF First

(* The first of some rows has the least number. *)
LEMMA FirstIsLeast ==
  ASSUME NEW some, some # {}, \A r \in some : r[2] \in Nat
  PROVE  First(some) \in some /\ \A s \in some : First(some)[2] <= s[2]
<1> DEFINE ids == {r[2] : r \in some}
<1>1. PICK n \in ids : \A m \in ids : n <= m
  <2>1. ids \in SUBSET Nat /\ ids # {}
    OBVIOUS
  <2> HIDE DEF ids
  <2> QED BY <2>1, LeastNumber
<1>2. \E r \in some : \A s \in some : r[2] <= s[2]
  BY <1>1
<1> QED BY <1>2 DEF First

-----------------------------------------------------------------------------
(* Rows over rows.                                                         *)

(* Rows of either, and the first ones prevail. *)
LEMMA OverIsFunction ==
  ASSUME NEW f, NEW g
  PROVE  /\ DOMAIN Over(f, g) = DOMAIN f \cup DOMAIN g
         /\ Over(f, g) = [r \in DOMAIN Over(f, g) |-> Over(f, g)[r]]
         /\ \A r \in DOMAIN f : Over(f, g)[r] = f[r]
         /\ \A r \in DOMAIN g : r \notin DOMAIN f => Over(f, g)[r] = g[r]
BY DEF Over

(* No rows change nothing. *)
LEMMA OverNothing ==
  ASSUME NEW g, g = [r \in DOMAIN g |-> g[r]]
  PROVE  Over(<<>>, g) = g
BY DEF Over

(* What a transaction sees. *)
LEMMA ViewRows ==
  ASSUME NEW t \in Tx
  PROVE  /\ DOMAIN View(t) = DOMAIN put[t] \cup DOMAIN db
         /\ \A r \in DOMAIN put[t] : View(t)[r] = put[t][r]
         /\ \A r \in DOMAIN db : r \notin DOMAIN put[t] => View(t)[r] = db[r]
BY DEF View, Over

-----------------------------------------------------------------------------
(* Locks.                                                                  *)

(* The variables are functions of the transactions, a lock has one of the  *)
(* four modes, and a transaction that is not running has neither locks nor *)
(* rows.                                                                   *)
Shape ==
  /\ pc = [t \in Tx |-> pc[t]] /\ op = [t \in Tx |-> op[t]]
  /\ seen = [t \in Tx |-> seen[t]] /\ todo = [t \in Tx |-> todo[t]]
  /\ put = [t \in Tx |-> put[t]] /\ lock = [t \in Tx |-> lock[t]]
  /\ \A t \in Tx : \A h \in lock[t] : h[2] \in 1..4
  /\ \A t \in Tx : put[t] = [r \in DOMAIN put[t] |-> put[t][r]]
  /\ \A t \in Tx : ~Running(t) => lock[t] = {} /\ todo[t] = {} /\ DOMAIN put[t] = {} /\ op[t].kind = "none"

(* No two transactions hold locks that conflict. *)
Exclusion ==
  \A t, u \in Tx : t # u => \A h \in lock[t], w \in lock[u] : ~Conflict(h, w)

(* A transaction holds a lock of one of some modes on a row. *)
Holds(t, r, modes) == \E m \in modes : <<r, m>> \in lock[t]

(* The locks that two transactions hold on one row agree. *)
LEMMA ExclusiveRow ==
  ASSUME Exclusion, NEW t \in Tx, NEW u \in Tx, t # u, NEW r, NEW m, NEW n,
         <<r, m>> \in lock[t], <<r, n>> \in lock[u]
  PROVE  ~(m + n > 4)
BY DEF Exclusion, Conflict

(* Nobody else has a lock on a row that a transaction has for update. *)
LEMMA AloneOnRow ==
  ASSUME Shape, Exclusion, NEW t \in Tx, NEW u \in Tx, u # t, NEW r, <<r, Update>> \in lock[t], NEW h \in lock[u]
  PROVE  h[1] # r
<1>1. h[2] \in 1..4
  BY DEF Shape
<1> QED BY <1>1 DEF Exclusion, Conflict, Update

(* A transaction that holds these locks has the row exclusively. *)
Has(held, r) == <<r, NoKeyUpdate>> \in held \/ <<r, Update>> \in held

(* No other transaction has a row exclusively that one has.                *)
LEMMA OneHasIt ==
  ASSUME Exclusion, NEW t \in Tx, NEW u \in Tx, u # t, NEW r, Has(lock[t], r)
  PROVE  ~Has(lock[u], r)
<1>1. PICK m \in {NoKeyUpdate, Update} : <<r, m>> \in lock[t]
  BY DEF Has
<1>2. \A n \in {NoKeyUpdate, Update} : m + n > 4
  BY <1>1 DEF NoKeyUpdate, Update
<1>3. \A n \in {NoKeyUpdate, Update} : <<r, n>> \notin lock[u]
  BY <1>1, <1>2, ExclusiveRow
<1> QED BY <1>3 DEF Has

(* What any statement of a transaction does, with the locks it has waited  *)
(* for.                                                                    *)
Statement(t, wanted) ==
  /\ Running(t) /\ Free(t, wanted)
  /\ lock' = [lock EXCEPT ![t] = @ \cup wanted]
  /\ db' = db /\ op' = op
  /\ \E w : put' = [put EXCEPT ![t] = Over(w, @)]
  /\ pc'[t] \notin {"idle", "done"} /\ pc' = [u \in Tx |-> pc'[u]]
  /\ \A u \in Tx \ {t} : pc'[u] = pc[u] /\ seen'[u] = seen[u] /\ todo'[u] = todo[u]
  /\ seen' = [u \in Tx |-> seen'[u]] /\ todo' = [u \in Tx |-> todo'[u]]

(* What it leaves alone. *)
LEMMA StatementFrame ==
  ASSUME Shape, NEW t \in Tx, NEW wanted, Statement(t, wanted)
  PROVE  /\ lock'[t] = lock[t] \cup wanted /\ db' = db /\ op' = op
         /\ \A u \in Tx \ {t} :
              /\ pc'[u] = pc[u] /\ seen'[u] = seen[u] /\ todo'[u] = todo[u]
              /\ put'[u] = put[u] /\ lock'[u] = lock[u]
BY DEF Statement, Shape

(* The shape and the exclusion survive a statement. *)
LEMMA StatementExcludes ==
  ASSUME Shape, Exclusion, NEW t \in Tx, NEW wanted, \A w \in wanted : w[2] \in 1..4, Statement(t, wanted)
  PROVE  Shape' /\ Exclusion'
<1>1. \A h \in lock'[t] : h[2] \in 1..4
  BY DEF Statement, Shape
<1>2. \A u \in Tx \ {t} : lock'[u] = lock[u] /\ put'[u] = put[u]
  BY DEF Statement, Shape
<1>3. Shape'
  <2>1. put'[t] = [r \in DOMAIN put'[t] |-> put'[t][r]]
    <3>1. PICK w : put'[t] = Over(w, put[t])
      BY DEF Statement, Shape
    <3> QED BY <3>1, OverIsFunction
  <2>2. \A u \in Tx : put'[u] = [r \in DOMAIN put'[u] |-> put'[u][r]]
    BY <2>1, <1>2 DEF Shape
  <2>3. \A u \in Tx : ~Running(u)' => lock'[u] = {} /\ todo'[u] = {} /\ DOMAIN put'[u] = {} /\ op'[u].kind = "none"
    BY <1>2 DEF Statement, Shape, Running
  <2>4. \A u \in Tx : \A h \in lock'[u] : h[2] \in 1..4
    BY <1>1, <1>2 DEF Shape
  <2>5. /\ pc' = [u \in Tx |-> pc'[u]] /\ op' = [u \in Tx |-> op'[u]] /\ seen' = [u \in Tx |-> seen'[u]]
        /\ todo' = [u \in Tx |-> todo'[u]] /\ put' = [u \in Tx |-> put'[u]] /\ lock' = [u \in Tx |-> lock'[u]]
    BY DEF Statement, Shape
  <2> QED BY <2>2, <2>3, <2>4, <2>5 DEF Shape
<1>4. ASSUME NEW u \in Tx, u # t, NEW h \in lock'[u], NEW w \in lock'[t]
      PROVE  ~Conflict(h, w) /\ ~Conflict(w, h)
  <2>1. h \in lock[u] /\ h[2] \in 1..4 /\ w[2] \in 1..4
    BY <1>1, <1>2, <1>4 DEF Shape
  <2>2. w \in lock[t] \/ w \in wanted
    BY <1>4 DEF Statement, Shape
  <2>3. Conflict(h, w) <=> Conflict(w, h)
    BY <2>1 DEF Conflict
  <2> QED BY <2>1, <2>2, <2>3, <1>4 DEF Statement, Free, HoldsUp, Exclusion
<1> QED BY <1>2, <1>3, <1>4 DEF Exclusion

(* So they do the end of one. *)
LEMMA EndExcludes ==
  ASSUME Shape, Exclusion, NEW t \in Tx, End(t)
  PROVE  Shape' /\ Exclusion'
<1>1. /\ \A u \in Tx \ {t} : lock'[u] = lock[u] /\ put'[u] = put[u] /\ op'[u] = op[u] /\ pc'[u] = pc[u]
      /\ todo' = [todo EXCEPT ![t] = {}] /\ lock'[t] = {} /\ put'[t] = <<>> /\ op'[t].kind = "none" /\ pc'[t] = "done"
  BY DEF End, Shape
<1>2. put'[t] = [r \in DOMAIN put'[t] |-> put'[t][r]] /\ DOMAIN put'[t] = {}
  BY <1>1
<1>3. Shape'
  <2>1. \A u \in Tx : ~Running(u)' => lock'[u] = {} /\ todo'[u] = {} /\ DOMAIN put'[u] = {} /\ op'[u].kind = "none"
    BY <1>1, <1>2 DEF Shape, Running
  <2>2. \A u \in Tx : put'[u] = [r \in DOMAIN put'[u] |-> put'[u][r]]
    BY <1>1, <1>2 DEF Shape
  <2>3. \A u \in Tx : \A h \in lock'[u] : h[2] \in 1..4
    BY <1>1 DEF Shape
  <2>4. /\ pc' = [u \in Tx |-> pc'[u]] /\ op' = [u \in Tx |-> op'[u]] /\ seen' = [u \in Tx |-> seen'[u]]
        /\ todo' = [u \in Tx |-> todo'[u]] /\ put' = [u \in Tx |-> put'[u]] /\ lock' = [u \in Tx |-> lock'[u]]
    BY DEF End, Shape
  <2> QED BY <2>1, <2>2, <2>3, <2>4 DEF Shape
<1>4. Exclusion'
  BY <1>1 DEF Exclusion, Conflict
<1> QED BY <1>3, <1>4

(* And they hold in the beginning. *)
LEMMA BegunExcludes ==
  ASSUME NEW start, NEW over, Begun(start, over)
  PROVE  Shape /\ Exclusion
<1>1. \A t \in Tx : lock[t] = {} /\ todo[t] = {} /\ put[t] = <<>> /\ op[t].kind = "none" /\ ~Running(t)
  BY DEF Begun, Running
<1>2. \A t \in Tx : put[t] = [r \in DOMAIN put[t] |-> put[t][r]] /\ DOMAIN put[t] = {}
  BY <1>1
<1>3. /\ pc = [t \in Tx |-> pc[t]] /\ op = [t \in Tx |-> op[t]]
      /\ seen = [t \in Tx |-> seen[t]] /\ todo = [t \in Tx |-> todo[t]]
      /\ put = [t \in Tx |-> put[t]] /\ lock = [t \in Tx |-> lock[t]]
  BY DEF Begun
<1> QED BY <1>1, <1>2, <1>3 DEF Shape, Exclusion

(* Only places change: what holds of locks still holds. *)
LEMMA PlacesOnly ==
  ASSUME Shape, Exclusion, UNCHANGED <<seen, todo, put, lock>>,
         pc' = [u \in Tx |-> pc'[u]], op' = [u \in Tx |-> op'[u]],
         \A u \in Tx : pc'[u] \in {"idle", "done"} => pc'[u] = pc[u] /\ op'[u] = op[u]
  PROVE  Shape' /\ Exclusion'
<1>1. Shape'
  BY DEF Shape, Running
<1>2. Exclusion'
  BY DEF Exclusion, Conflict
<1> QED BY <1>1, <1>2

-----------------------------------------------------------------------------
(* What a transaction writes, and what a commit makes of it.               *)

(* Writing no row changes nothing. *)
LEMMA NoRowWritten ==
  ASSUME Shape, NEW t \in Tx, put'[t] = Over(<<>>, put[t])
  PROVE  put'[t] = put[t]
BY OverNothing DEF Shape

(* Writing one adds it or replaces it. *)
LEMMA OneRowWritten ==
  ASSUME NEW t \in Tx, NEW r, NEW v, put'[t] = Over(One(r, v), put[t])
  PROVE  /\ DOMAIN put'[t] = DOMAIN put[t] \cup {r} /\ put'[t][r] = v
         /\ \A x \in DOMAIN put[t] : x # r => put'[t][x] = put[t][x]
<1>1. put'[t] = Over(One(r, v), put[t])
  OBVIOUS
<1> QED BY ONLY <1>1 DEF Over, One

(* What a commit makes of the database. *)
LEMMA RowsAfterCommit ==
  ASSUME NEW t \in Tx, Commit(t)
  PROVE  /\ DOMAIN db' = DOMAIN put[t] \cup DOMAIN db
         /\ \A r \in DOMAIN put[t] : db'[r] = put[t][r]
         /\ \A r \in DOMAIN db : r \notin DOMAIN put[t] => db'[r] = db[r]
         /\ db' = [r \in DOMAIN db' |-> db'[r]]
<1>1. db' = Over(put[t], db)
  BY DEF Commit, View
<1>2. /\ DOMAIN Over(put[t], db) = DOMAIN put[t] \cup DOMAIN db
      /\ Over(put[t], db) = [r \in DOMAIN Over(put[t], db) |-> Over(put[t], db)[r]]
      /\ \A r \in DOMAIN put[t] : Over(put[t], db)[r] = put[t][r]
      /\ \A r \in DOMAIN db : r \notin DOMAIN put[t] => Over(put[t], db)[r] = db[r]
  BY OverIsFunction
<1> QED BY ONLY <1>1, <1>2
=============================================================================
