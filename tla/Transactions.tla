---------------------------- MODULE Transactions ----------------------------
(***************************************************************************)
(* Database transactions as the services use them: PostgreSQL at READ      *)
(* COMMITTED.  A transaction reads what was committed and what it wrote    *)
(* itself, waits for the row locks its next statement wants, and keeps its *)
(* locks to its end.  A step of a transaction is one statement that may    *)
(* have to wait, with the reads and checks that follow it.  Where a check  *)
(* fails the transaction cannot go on: Fail, its rollback, is all that is  *)
(* left to it (and possible at any other time).                            *)
(*                                                                         *)
(* The four row locks are 1 (KEY SHARE) to 4 (UPDATE); two of them         *)
(* conflict when their numbers add up to more than 4.  An INSERT takes     *)
(* KEY SHARE on the rows its foreign keys name.                            *)
(***************************************************************************)
EXTENDS Naturals

CONSTANT MaxTx   \* bound: transactions, numbered as they begin

VARIABLES
  db,         \* what is committed: a function from rows to values
  op,         \* what each transaction is
  pc,         \* its next statement
  seen,       \* what it read and relies on
  todo,       \* the rows its statement found and has not taken yet
  put,        \* the rows it wrote
  lock        \* its locks: pairs of a row and a mode

vars == <<db, op, pc, seen, todo, put, lock>>

Tx          == 1..MaxTx
KeyShare    == 1
Share       == 2
NoKeyUpdate == 3
Update      == 4

(* Some of the transactions may be over before it begins. *)
Begun(start, over) ==
  /\ db \in start
  /\ op = [t \in Tx |-> [kind |-> "none"]]
  /\ pc = [t \in Tx |-> IF t <= over THEN "done" ELSE "idle"]
  /\ seen = [t \in Tx |-> "none"] /\ todo = [t \in Tx |-> {}]
  /\ put = [t \in Tx |-> <<>>] /\ lock = [t \in Tx |-> {}]
Idle(start) == Begun(start, 0)

(* One function over another, and the function of one row; the first of    *)
(* some rows of a table, by id.                                            *)
Over(f, g) == [r \in DOMAIN f \cup DOMAIN g |-> IF r \in DOMAIN f THEN f[r] ELSE g[r]]
One(r, v)  == [x \in {r} |-> v]
First(rows) == CHOOSE r \in rows : \A s \in rows : r[2] <= s[2]

View(t)                 == Over(put[t], db)
Conflict(held, wanted)  == held[1] = wanted[1] /\ held[2] + wanted[2] > 4
HoldsUp(u, t, wanted)   == u # t /\ \E h \in lock[u], w \in wanted : Conflict(h, w)
Free(t, wanted)         == \A u \in Tx : ~HoldsUp(u, t, wanted)
Running(t)              == pc[t] \notin {"idle", "done"}
Waiting(t)              == pc[t] = "idle" /\ \A u \in 1..(t - 1) : pc[u] # "idle"

(* A statement is done: it has its locks and wrote something. *)
Take(t, wanted, written) ==
  /\ lock' = [lock EXCEPT ![t] = @ \cup wanted]
  /\ put' = [put EXCEPT ![t] = Over(written, @)]
  /\ UNCHANGED <<db, op>>
GoOn(t, wanted, where, written) ==
  pc' = [pc EXCEPT ![t] = where] /\ Take(t, wanted, written) /\ UNCHANGED <<seen, todo>>

(* A statement over many rows has found them; it takes them one by one and *)
(* tests each again.                                                       *)
Find(t, wanted, where, rows, written) ==
  /\ pc' = [pc EXCEPT ![t] = where]
  /\ todo' = [todo EXCEPT ![t] = rows] /\ Take(t, wanted, written)

End(t) ==
  /\ pc' = [pc EXCEPT ![t] = "done"] /\ op' = [op EXCEPT ![t] = [kind |-> "none"]]
  /\ seen' = [seen EXCEPT ![t] = "none"] /\ todo' = [todo EXCEPT ![t] = {}]
  /\ put' = [put EXCEPT ![t] = <<>>] /\ lock' = [lock EXCEPT ![t] = {}]
Commit(t)  == pc[t] = "commit" /\ db' = View(t) /\ End(t)
(* A refusal, an error, a lost connection, or PostgreSQL breaking a cycle. *)
Fail(t)    == Running(t) /\ End(t) /\ UNCHANGED db
=============================================================================
