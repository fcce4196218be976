----------------------------- MODULE FileQueue -----------------------------
(***************************************************************************)
(* What the Collector promises about each source file, with no run, no     *)
(* request and no crash in sight: the file is a queue of lines, a mark     *)
(* says how much of it is done with, and the mark only ever moves forward  *)
(* over lines that need no delivery any more.  Only the file's owner may   *)
(* replace the queue, and then it starts from nothing.                     *)
(***************************************************************************)
EXTENDS Naturals, Sequences

CONSTANTS Source, Event, Silent

Key == Source \X Event

VARIABLES
  log,      \* the lines of each source's present file
  mark,     \* how many of them are done with
  settled   \* the events that need no delivery any more

vars == <<log, mark, settled>>

Done(s, l) == l = Silent \/ <<s, l>> \in settled

Init ==
  /\ log = [s \in Source |-> <<>>]
  /\ mark = [s \in Source |-> 0]
  /\ settled = {}

Append1(s) ==
  /\ \E l \in Event \cup {Silent} : log' = [log EXCEPT ![s] = Append(@, l)]
  /\ UNCHANGED <<mark, settled>>

Replace(s) ==
  /\ log' = [log EXCEPT ![s] = <<>>] /\ mark' = [mark EXCEPT ![s] = 0]
  /\ UNCHANGED settled

(* Settled for good: an event is never wanted again. *)
Settle == settled' \in {settled \cup K : K \in SUBSET Key} /\ UNCHANGED <<log, mark>>

Advance(s) ==
  /\ \E n \in mark[s]..Len(log[s]) :
       /\ \A i \in 1..n : Done(s, log[s][i])
       /\ mark' = [mark EXCEPT ![s] = n]
  /\ UNCHANGED <<log, settled>>

Next == Settle \/ \E s \in Source : Append1(s) \/ Replace(s) \/ Advance(s)

Spec == Init /\ [][Next]_vars
=============================================================================
