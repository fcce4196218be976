---------------------------- MODULE AgentProofs ----------------------------
(***************************************************************************)
(* The saved cursor never leads, nothing is dropped, and names and lines   *)
(* correspond, for logs and batches of any size and any number of faults:  *)
(* the inductive invariant of AgentSpool.  All of it is about files that   *)
(* are not replaced while their generation is unsaved (~Overtake).         *)
(***************************************************************************)
EXTENDS AgentSpool, SequenceTheorems, WellFoundedInduction, TLAPS

-----------------------------------------------------------------------------
(* The inductive invariant.                                                *)

Kinds  == {"event", "silent", "poison"}
Cursor == [id : Nat, content : Nat, off : Nat, gen : Nat]
Event  == [gen : Nat, at : Nat, of : Nat, bad : BOOLEAN, torn : BOOLEAN]

Elems(s) == {s[k] : k \in DOMAIN s}

(* Every event there is, spooled or in memory. *)
All == Spooled \cup Elems(buf) \cup Elems(after.events)

FileTypes ==
  /\ file = [present |-> file.present, id |-> file.id, content |-> file.content, lines |-> file.lines]
  /\ file.present \in BOOLEAN /\ file.id \in Nat \ {0} /\ file.content \in Nat \ {0}
  /\ file.lines \in Seq(Kinds) /\ saved \in Cursor
LookTypes ==
  /\ pc \in {"down", "up", "look", "write", "save"} /\ ident \in Nat /\ faults \in Nat
  /\ suspect = [kind |-> suspect.kind, id |-> suspect.id] /\ suspect.id \in Nat
Plans == [then : {"poll", "exit", "absorb"}, cur : Cursor, events : Seq(Event)]
MemoryTypes ==
  /\ live \in Cursor /\ buf \in Seq(Event) /\ done \in Nat
  /\ after \in Plans
StoreTypes ==
  /\ \A b \in spool : b.events \in Seq(Event)
  /\ rows \subseteq Event /\ quarantined \subseteq Event
TypesOK == FileTypes /\ LookTypes /\ MemoryTypes /\ StoreTypes

(* A cursor is of the file as it is, or what it is of was cut or replaced. *)
Current(c) == c.id = file.id /\ c.content = file.content
Fits(c) ==
  /\ c.id <= file.id /\ c.content <= file.content
  /\ c.id = file.id /\ c.content # file.content => c.off > 0 /\ Size < c.off
  /\ Current(c) /\ file.present => c.off <= Size
FilesOK ==
  /\ file.id <= file.content /\ file.content <= MaxContents
  /\ ~file.present => file.lines = <<>> /\ file.content < MaxContents
  /\ Fits(saved) /\ Fits(live) /\ (saved.id = 0 => saved = NoState)

(* The generation of the file as it is: the one saved with a cursor of it, *)
(* or the next.                                                            *)
Now == IF saved = NoState THEN 0 ELSE IF Current(saved) THEN saved.gen ELSE saved.gen + 1

(* What the collector has in memory goes with what is saved. *)
LiveOK ==
  /\ pc = "down" => live = Nowhere /\ after = ThenPoll
  /\ live.id = 0 => live = Nowhere /\ buf = <<>> /\ (pc # "down" => saved = NoState)
  /\ live.id # 0 => Now = IF Current(live) THEN live.gen ELSE live.gen + 1
  /\ live.id # 0 /\ saved # NoState /\ live.gen = saved.gen => live.id = saved.id /\ saved.off <= live.off
  /\ \A r \in Elems(buf) : r.gen = live.gen /\ r.at <= live.off
  /\ pc \in {"write", "save"} => live.id # 0
  /\ pc = "save" => buf = <<>>
  /\ pc # "write" => done = 0

(* What is to follow a flush. *)
AfterOK ==
  /\ after.then \in {"poll", "exit"} => after.events = <<>> /\ after.cur = Nowhere
  /\ after.then # "poll" => pc \in {"write", "save"}
  /\ after.then = "absorb" =>
       /\ Current(after.cur) /\ live.id # 0 /\ ~Current(live)
       /\ after.cur.gen = live.gen + 1 /\ (file.present => after.cur.off <= Size)
       /\ \A r \in Elems(after.events) : r.gen = after.cur.gen /\ r.at <= after.cur.off

(* Names: the whole events of the file as it is are those of its           *)
(* generation; a name is of one event, a line has one name.                *)
Named(r) ==
  /\ r.gen <= Now /\ r.of <= file.content
  /\ r.gen = Now <=> r.of = file.content /\ ~r.torn
  /\ file.present /\ r.of = file.content => r.at \in DOMAIN file.lines /\ (r.bad <=> file.lines[r.at] = "poison")
Agree(r, q) ==
  /\ r.gen = q.gen /\ r.at = q.at => r = q
  /\ ~r.torn /\ ~q.torn /\ r.of = q.of => r.gen = q.gen
NamesOK == (\A r \in All : Named(r)) /\ \A r, q \in All : Agree(r, q)

(* What the first of two looks saw.  An identity that is not the file's is *)
(* a misread one, new every time, or the one the file had until it was     *)
(* replaced, with everything read from it before.                          *)
LookOK ==
  /\ suspect.id <= MaxContents + faults
  /\ pc = "look" =>
       /\ live.id = 0 => ident = file.id
       /\ ident > MaxContents => suspect.id < ident /\ ident <= MaxContents + faults
       /\ ident # file.id /\ ident <= MaxContents => ident <= file.id /\ suspect = Calm
       /\ ident # file.id /\ ident = live.id =>
            /\ saved # NoState /\ live.gen = saved.gen
            /\ \A r \in All : r.gen < live.gen \/ r.at <= live.off

(* Every event up to a cursor is somewhere. *)
Taken(i, events) ==
  \/ file.lines[i] = "silent" \/ <<file.content, i>> \in skipped
  \/ \E r \in events : ~r.torn /\ r.of = file.content /\ r.at = i
Covers(c, events) == Current(c) => \A i \in 1..c.off \cap DOMAIN file.lines : Taken(i, events)
CoverOK ==
  /\ Covers(saved, Spooled) /\ Covers(live, Spooled \cup Elems(buf))
  /\ after.then = "absorb" => Covers(after.cur, Elems(after.events))
  /\ \A k \in DOMAIN buf : k <= done * BatchMax => buf[k] \in Spooled

(* Of the batch that is being sent every record is stored, put aside or    *)
(* still to be sent, unless something of it was left.                      *)
Flat(q) == UNION {Elems(q[k]) : k \in DOMAIN q}
Todo == Flat(job.todo)
JobOK ==
  job # NoJob =>
    /\ job \in [batch : spool, todo : Seq(Seq(Event)), bad : SUBSET Event, left : BOOLEAN, used : Nat]
    /\ Todo \subseteq Events(job.batch) /\ job.bad \subseteq Events(job.batch)
    /\ ~job.left => Events(job.batch) \subseteq rows \cup quarantined \cup job.bad \cup Todo

AInv == TypesOK /\ FilesOK /\ LiveOK /\ AfterOK /\ NamesOK /\ LookOK /\ CoverOK /\ JobOK

-----------------------------------------------------------------------------
(* Sequences of events.                                                    *)

(* The elements of a sequence over a set are of that set. *)
LEMMA ElemsIn ==
  ASSUME NEW S, NEW s \in Seq(S)
  PROVE  Elems(s) \subseteq S /\ \A k \in 1..Len(s) : s[k] \in Elems(s)
BY DEF Elems

(* There are none in an empty sequence. *)
LEMMA ElemsOfNone == Elems(<<>>) = {}
BY DEF Elems

(* The elements of a concatenation are those of its parts. *)
LEMMA ElemsOfConcat ==
  ASSUME NEW S, NEW s \in Seq(S), NEW t \in Seq(S)
  PROVE  s \o t \in Seq(S) /\ Elems(s \o t) = Elems(s) \cup Elems(t)
<1>1. /\ s \o t \in Seq(S) /\ Len(s \o t) = Len(s) + Len(t)
      /\ \A i \in 1..Len(s) + Len(t) : (s \o t)[i] = IF i <= Len(s) THEN s[i] ELSE t[i - Len(s)]
  BY ConcatProperties
<1>2. Len(s) \in Nat /\ Len(t) \in Nat /\ DOMAIN s = 1..Len(s) /\ DOMAIN t = 1..Len(t)
      /\ DOMAIN (s \o t) = 1..(Len(s) + Len(t))
  BY <1>1
<1>3. Elems(s \o t) \subseteq Elems(s) \cup Elems(t)
  <2>1. SUFFICES ASSUME NEW i \in 1..(Len(s) + Len(t)) PROVE (s \o t)[i] \in Elems(s) \cup Elems(t)
    BY <1>2 DEF Elems
  <2>2. CASE i <= Len(s)
    BY <1>1, <1>2, <2>2 DEF Elems
  <2>3. CASE ~(i <= Len(s))
    <3>1. i - Len(s) \in 1..Len(t) /\ (s \o t)[i] = t[i - Len(s)]
      BY <1>1, <1>2, <2>3
    <3> QED BY <3>1, <1>2 DEF Elems
  <2> QED BY <2>2, <2>3
<1>4. Elems(s) \subseteq Elems(s \o t)
  <2>1. SUFFICES ASSUME NEW i \in 1..Len(s) PROVE s[i] \in Elems(s \o t)
    BY <1>2 DEF Elems
  <2>2. i \in 1..(Len(s) + Len(t)) /\ (s \o t)[i] = s[i]
    BY <1>1, <1>2
  <2> QED BY <2>2, <1>2 DEF Elems
<1>5. Elems(t) \subseteq Elems(s \o t)
  <2>1. SUFFICES ASSUME NEW i \in 1..Len(t) PROVE t[i] \in Elems(s \o t)
    BY <1>2 DEF Elems
  <2>2. i + Len(s) \in 1..(Len(s) + Len(t)) /\ (s \o t)[i + Len(s)] = t[i]
    BY <1>1, <1>2
  <2> QED BY <2>2, <1>2 DEF Elems
<1> QED BY <1>1, <1>3, <1>4, <1>5

(* Those of a subsequence are the elements at its positions. *)
LEMMA ElemsOfSub ==
  ASSUME NEW S, NEW s \in Seq(S), NEW m \in Nat \ {0}, NEW n \in 0..Len(s)
  PROVE  /\ SubSeq(s, m, n) \in Seq(S)
         /\ \A i \in m..n : s[i] \in Elems(SubSeq(s, m, n))
         /\ \A r \in Elems(SubSeq(s, m, n)) : \E i \in m..n : r = s[i]
<1> DEFINE u == SubSeq(s, m, n)
<1>1. /\ u \in Seq(S)
      /\ Len(u) = IF m <= n THEN n - m + 1 ELSE 0
      /\ \A i \in 1..(n - m + 1) : u[i] = s[m + i - 1]
  BY SubSeqProperties
<1>2. DOMAIN u = 1..Len(u) /\ m \in Nat /\ n \in Nat
  BY <1>1
<1> HIDE DEF u
<1>3. ASSUME NEW i \in m..n PROVE s[i] \in Elems(u)
  <2>1. i - m + 1 \in 1..(n - m + 1) /\ m + (i - m + 1) - 1 = i /\ m <= n
    BY <1>2
  <2> QED BY <2>1, <1>1, <1>2 DEF Elems
<1>4. ASSUME NEW r \in Elems(u) PROVE \E i \in m..n : r = s[i]
  <2>1. PICK j \in DOMAIN u : r = u[j]
    BY DEF Elems
  <2>2. j \in 1..(n - m + 1) /\ m + j - 1 \in m..n
    BY <1>1, <1>2
  <2> QED BY <2>1, <2>2, <1>1
<1> QED BY <1>1, <1>3, <1>4 DEF u

(* The halves of a sequence hold what it holds. *)
LEMMA ElemsOfHalves ==
  ASSUME NEW S, NEW s \in Seq(S)
  PROVE  /\ Half(s) \in Seq(Seq(S)) /\ Len(Half(s)) = 2
         /\ Elems(Half(s)[1]) \cup Elems(Half(s)[2]) = Elems(s)
<1> DEFINE m == Len(s) \div 2
<1>1. m \in 0..Len(s) /\ Len(s) \in Nat /\ m + 1 \in Nat \ {0} /\ 1 \in Nat \ {0}
      /\ Len(s) \in 0..Len(s) /\ DOMAIN s = 1..Len(s)
  BY SMT
<1> HIDE DEF m
<1>2. /\ SubSeq(s, 1, m) \in Seq(S)
      /\ \A i \in 1..m : s[i] \in Elems(SubSeq(s, 1, m))
      /\ \A r \in Elems(SubSeq(s, 1, m)) : \E i \in 1..m : r = s[i]
  BY <1>1, ElemsOfSub
<1>3. /\ SubSeq(s, m + 1, Len(s)) \in Seq(S)
      /\ \A i \in (m + 1)..Len(s) : s[i] \in Elems(SubSeq(s, m + 1, Len(s)))
      /\ \A r \in Elems(SubSeq(s, m + 1, Len(s))) : \E i \in (m + 1)..Len(s) : r = s[i]
  BY <1>1, ElemsOfSub
<1>4. Half(s) = <<SubSeq(s, 1, m), SubSeq(s, m + 1, Len(s))>>
  BY DEF Half, m
<1>5. \A r \in Elems(SubSeq(s, 1, m)) : r \in Elems(s)
  <2>1. \A i \in 1..m : s[i] \in Elems(s)
    BY <1>1 DEF Elems
  <2> QED BY <2>1, <1>2
<1>6. \A r \in Elems(SubSeq(s, m + 1, Len(s))) : r \in Elems(s)
  <2>1. \A i \in (m + 1)..Len(s) : s[i] \in Elems(s)
    BY <1>1 DEF Elems
  <2> QED BY <2>1, <1>3
<1>7. \A r \in Elems(s) : r \in Elems(SubSeq(s, 1, m)) \cup Elems(SubSeq(s, m + 1, Len(s)))
  <2>1. TAKE r \in Elems(s)
  <2>2. PICK i \in DOMAIN s : r = s[i]
    BY DEF Elems
  <2>3. i \in 1..m \/ i \in (m + 1)..Len(s)
    BY <1>1
  <2> QED BY <2>2, <2>3, <1>2, <1>3
<1> HIDE DEF m
<1>8. Half(s)[1] = SubSeq(s, 1, m) /\ Half(s)[2] = SubSeq(s, m + 1, Len(s)) /\ Len(Half(s)) = 2
  <2> DEFINE a == SubSeq(s, 1, m)
             b == SubSeq(s, m + 1, Len(s))
  <2>1. Half(s) = <<a, b>>
    BY <1>4
  <2> HIDE DEF a, b
  <2>2. Half(s)[1] = a /\ Half(s)[2] = b /\ Len(Half(s)) = 2
    BY <2>1
  <2> QED BY <2>2 DEF a, b
<1>9. Half(s) \in Seq(Seq(S))
  BY <1>2, <1>3, <1>4
<1> QED BY <1>5, <1>6, <1>7, <1>8, <1>9

(* What is left to send when the first request is dealt with, or halved. *)
LEMMA ElemsOfTodo ==
  ASSUME NEW S, NEW q \in Seq(Seq(S)), q # <<>>
  PROVE  /\ q[1] \in Seq(S) /\ Tail(q) \in Seq(Seq(S))
         /\ Flat(q) = Elems(q[1]) \cup Flat(Tail(q))
         /\ Half(q[1]) \o Tail(q) \in Seq(Seq(S))
         /\ Flat(Half(q[1]) \o Tail(q)) = Flat(q)
<1> DEFINE t == Tail(q)
           h == Half(q[1])
           Of(p) == UNION {Elems(p[k]) : k \in DOMAIN p}
<1>1. /\ q[1] \in Seq(S) /\ t \in Seq(Seq(S)) /\ Len(t) = Len(q) - 1 /\ Len(q) \in Nat /\ Len(q) >= 1
      /\ \A i \in 1..Len(t) : t[i] = q[i + 1]
  BY HeadTailProperties
<1>2. DOMAIN q = 1..Len(q) /\ DOMAIN t = 1..Len(t)
  BY <1>1
<1>3. h \in Seq(Seq(S)) /\ Len(h) = 2 /\ Elems(h[1]) \cup Elems(h[2]) = Elems(q[1])
  BY <1>1, ElemsOfHalves
<1> HIDE DEF t, h
<1>4. Of(q) = Elems(q[1]) \cup Of(t)
  <2>1. \A k \in 1..Len(q) : k = 1 \/ (k - 1 \in 1..Len(t) /\ t[k - 1] = q[k])
    BY <1>1
  <2>2. \A k \in 1..Len(t) : k + 1 \in 1..Len(q)
    BY <1>1
  <2>3. 1 \in 1..Len(q)
    BY <1>1
  <2> QED BY <2>1, <2>2, <2>3, <1>1, <1>2
<1>5. /\ h \o t \in Seq(Seq(S)) /\ Len(h \o t) = Len(h) + Len(t)
      /\ \A i \in 1..Len(h) + Len(t) : (h \o t)[i] = IF i <= Len(h) THEN h[i] ELSE t[i - Len(h)]
  BY <1>1, <1>3, ConcatProperties
<1>6. Of(h \o t) = Elems(h[1]) \cup Elems(h[2]) \cup Of(t)
  <2>1. Len(t) \in Nat /\ DOMAIN (h \o t) = 1..(2 + Len(t))
    BY <1>1, <1>3, <1>5
  <2>2. /\ 1 \in 1..(2 + Len(t)) /\ (h \o t)[1] = h[1]
        /\ 2 \in 1..(2 + Len(t)) /\ (h \o t)[2] = h[2]
    BY <2>1, <1>3, <1>5
  <2>3. ASSUME NEW k \in 1..(2 + Len(t))
        PROVE  (h \o t)[k] = h[1] \/ (h \o t)[k] = h[2] \/ (k - 2 \in 1..Len(t) /\ (h \o t)[k] = t[k - 2])
    <3>1. k = 1 \/ k = 2 \/ (k - 2 \in 1..Len(t) /\ ~(k <= 2))
      BY <2>1
    <3>2. (k - 2 \in 1..Len(t) /\ ~(k <= 2)) => (h \o t)[k] = t[k - 2]
      BY <2>1, <1>3, <1>5
    <3> QED BY <3>1, <3>2, <2>2
  <2>4. ASSUME NEW k \in 1..Len(t) PROVE k + 2 \in 1..(2 + Len(t)) /\ (h \o t)[k + 2] = t[k]
    BY <2>1, <1>3, <1>5
  <2>5. Of(h \o t) \subseteq Elems(h[1]) \cup Elems(h[2]) \cup Of(t)
    <3>1. SUFFICES ASSUME NEW k \in 1..(2 + Len(t)), NEW r \in Elems((h \o t)[k])
                   PROVE  r \in Elems(h[1]) \cup Elems(h[2]) \cup Of(t)
      BY <2>1
    <3> QED BY <2>3, <1>2
  <2>6. Elems(h[1]) \cup Elems(h[2]) \subseteq Of(h \o t)
    BY <2>1, <2>2
  <2>7. Of(t) \subseteq Of(h \o t)
    <3>1. SUFFICES ASSUME NEW k \in 1..Len(t), NEW r \in Elems(t[k]) PROVE r \in Of(h \o t)
      BY <1>2
    <3> QED BY <2>1, <2>4
  <2> QED BY <2>5, <2>6, <2>7
<1>7. Of(h \o t) = Of(q)
  <2> HIDE DEF Of
  <2> QED BY <1>3, <1>4, <1>6
<1> QED BY <1>1, <1>4, <1>5, <1>7 DEF t, h, Flat

-----------------------------------------------------------------------------
(* What a read finds.                                                      *)

(* is reached, from a first line that were wrong.                          *)
LEMMA LeastNumber ==
  ASSUME NEW T \in SUBSET Nat, T # {}
  PROVE  \E n \in T : \A m \in T : n <= m
<1>1. PICK n \in T : \A m \in T : <<m, n>> \notin OpToRel(<, Nat)
  BY NatLessThanWellFounded, WFMin
<1>2. \A m \in T : m \in Nat /\ ~(m < n)
  BY <1>1 DEF OpToRel
<1> QED BY <1>2

(* The events of the first k lines are what the definition says of them. *)
LEMMA EventsUpToUnfolds ==
  ASSUME NEW gen, Size \in Nat, From \in Nat
  PROVE  \A k \in 0..Size :
           EventsUpTo(gen)[k] = IF k <= From THEN <<>>
                                ELSE IF file.lines[k] = "silent" THEN EventsUpTo(gen)[k - 1]
                                ELSE Append(EventsUpTo(gen)[k - 1], EventAt(k, gen))
<1> DEFINE Is(f, n) == f = [k \in 0..n |-> IF k <= From THEN <<>>
                                           ELSE IF file.lines[k] = "silent" THEN f[k - 1]
                                           ELSE Append(f[k - 1], EventAt(k, gen))]
           Undefined == {n \in Nat : \A f : ~Is(f, n)}
<1>1. Undefined = {}
  <2>1. SUFFICES ASSUME Undefined # {} PROVE FALSE
    OBVIOUS
  <2>2. PICK n \in Undefined : \A m \in Undefined : n <= m
    <3>1. Undefined \in SUBSET Nat
      OBVIOUS
    <3> HIDE DEF Undefined
    <3> QED BY <2>1, <3>1, LeastNumber
  <2>3. n \in Nat /\ \A f : ~Is(f, n)
    BY <2>2
  <2>4. CASE n = 0
    <3> DEFINE g == [k \in 0..0 |-> <<>>]
    <3>1. \A k \in 0..0 : g[k] = IF k <= From THEN <<>>
                                 ELSE IF file.lines[k] = "silent" THEN g[k - 1]
                                 ELSE Append(g[k - 1], EventAt(k, gen))
      OBVIOUS
    <3>2. g = [k \in 0..0 |-> g[k]]
      OBVIOUS
    <3> HIDE DEF g
    <3>3. Is(g, 0)
      BY <3>1, <3>2
    <3> QED BY <3>3, <2>3, <2>4
  <2>5. CASE n > 0
    <3>1. n - 1 \in Nat /\ n - 1 \notin Undefined
      <4>1. n - 1 \in Nat /\ ~(n <= n - 1)
        BY <2>3, <2>5
      <4> HIDE DEF Undefined
      <4> QED BY <2>2, <4>1
    <3>2. PICK f : Is(f, n - 1)
      <4> HIDE DEF Is
      <4> QED BY <3>1
    <3> DEFINE last == IF n <= From THEN <<>>
                       ELSE IF file.lines[n] = "silent" THEN f[n - 1]
                       ELSE Append(f[n - 1], EventAt(n, gen))
               g == [k \in 0..n |-> IF k = n THEN last ELSE f[k]]
    <3>3. ASSUME NEW k \in 0..n
          PROVE  g[k] = IF k <= From THEN <<>>
                        ELSE IF file.lines[k] = "silent" THEN g[k - 1]
                        ELSE Append(g[k - 1], EventAt(k, gen))
      <4>1. CASE k = n
        <5>1. g[k] = last /\ n - 1 \in 0..n /\ n - 1 # n
          BY <4>1, <2>3, <2>5
        <5>2. g[n - 1] = f[n - 1]
          BY <5>1
        <5> HIDE DEF g
        <5> QED BY <5>1, <5>2, <4>1
      <4>2. CASE k # n
        <5>1. k \in 0..(n - 1) /\ g[k] = f[k] /\ (k # 0 => k - 1 \in 0..n /\ k - 1 # n)
          BY <4>2, <2>3
        <5>2. k # 0 => g[k - 1] = f[k - 1]
          BY <5>1
        <5>3. f[k] = IF k <= From THEN <<>>
                     ELSE IF file.lines[k] = "silent" THEN f[k - 1]
                     ELSE Append(f[k - 1], EventAt(k, gen))
          BY <3>2, <5>1
        <5>4. k = 0 => k <= From
          OBVIOUS
        <5> HIDE DEF g, last
        <5> QED BY <5>1, <5>2, <5>3, <5>4
      <4> QED BY <4>1, <4>2
    <3>4. g = [k \in 0..n |-> g[k]]
      OBVIOUS
    <3> HIDE DEF g
    <3>5. Is(g, n)
      BY <3>3, <3>4
    <3> QED BY <3>5, <2>3
  <2> QED BY <2>3, <2>4, <2>5
<1>2. PICK f : Is(f, Size)
  <2> HIDE DEF Is
  <2> QED BY <1>1
<1>3. Is(CHOOSE h : Is(h, Size), Size)
  <2> HIDE DEF Is
  <2> QED BY <1>2, Zenon
<1>4. Is(EventsUpTo(gen), Size)
  BY <1>3, Zenon DEF EventsUpTo
<1> HIDE DEF Undefined
<1> QED BY <1>4

(* An event of line i, as this read would name it. *)
Reads(gen, r) ==
  \E i \in 1..Size : From < i /\ file.lines[i] # "silent" /\ r = EventAt(i, gen)

(* The events read are those of the lines read, all of them. *)
LEMMA EventsReadAre ==
  ASSUME NEW gen \in Nat, From \in Nat, file.lines \in Seq(Kinds), file.content \in Nat
  PROVE  /\ EventsRead(gen) \in Seq(Event)
         /\ \A r \in Elems(EventsRead(gen)) : Reads(gen, r)
         /\ \A i \in 1..Size : From < i /\ file.lines[i] # "silent" => EventAt(i, gen) \in Elems(EventsRead(gen))
<1> DEFINE f == EventsUpTo(gen)
           To(k, r) == \E i \in 1..k : From < i /\ file.lines[i] # "silent" /\ r = EventAt(i, gen)
           S(k) == /\ f[k] \in Seq(Event)
                   /\ \A r \in Elems(f[k]) : To(k, r)
                   /\ \A r : To(k, r) => r \in Elems(f[k])
           Wrong == {k \in 0..Size : ~S(k)}
<1>1. Size \in Nat
  BY DEF Size
<1>2. \A k \in 0..Size :
        f[k] = IF k <= From THEN <<>>
               ELSE IF file.lines[k] = "silent" THEN f[k - 1] ELSE Append(f[k - 1], EventAt(k, gen))
  BY <1>1, EventsUpToUnfolds
<1>3. \A i \in 1..Size : EventAt(i, gen) \in Event
  BY <1>1 DEF EventAt, Event
<1> HIDE DEF f
<1>4. ASSUME NEW k \in 0..Size, k <= From PROVE S(k)
  <2>1. f[k] = <<>>
    BY <1>2, <1>4
  <2>2. ASSUME NEW r, To(k, r) PROVE FALSE
    <3>1. PICK i \in 1..k : From < i
      BY <2>2
    <3> QED BY <3>1, <1>4
  <2> HIDE DEF To
  <2> QED BY <2>1, <2>2, ElemsOfNone
<1>5. ASSUME NEW k \in 1..Size, S(k - 1), ~(k <= From) PROVE S(k)
  <2>1. k \in 0..Size /\ k - 1 \in 0..Size /\ From < k
    BY <1>1, <1>5
  <2>2. ASSUME NEW r PROVE To(k, r) <=> To(k - 1, r) \/ (file.lines[k] # "silent" /\ r = EventAt(k, gen))
    <3>1. \A i \in 1..k : i \in 1..(k - 1) \/ i = k
      BY <1>1
    <3>2. \A i \in 1..(k - 1) : i \in 1..k
      BY <1>1
    <3>3. k \in 1..k
      BY <1>1
    <3> QED BY <3>1, <3>2, <3>3, <2>1
  <2>3. CASE file.lines[k] = "silent"
    <3>1. f[k] = f[k - 1]
      BY <1>2, <1>5, <2>1, <2>3
    <3> HIDE DEF To
    <3> QED BY <3>1, <2>2, <2>3, <1>5
  <2>4. CASE file.lines[k] # "silent"
    <3>1. f[k] = Append(f[k - 1], EventAt(k, gen))
      BY <1>2, <1>5, <2>1, <2>4
    <3>2. f[k] \in Seq(Event) /\ Elems(f[k]) = Elems(f[k - 1]) \cup {EventAt(k, gen)}
      <4>1. f[k - 1] \in Seq(Event) /\ EventAt(k, gen) \in Event
        BY <1>3, <1>5
      <4> HIDE DEF S
      <4>2. /\ f[k] \in Seq(Event) /\ Len(f[k]) = Len(f[k - 1]) + 1
            /\ \A i \in 1..Len(f[k - 1]) : f[k][i] = f[k - 1][i]
            /\ f[k][Len(f[k - 1]) + 1] = EventAt(k, gen)
        BY <4>1, <3>1, AppendProperties
      <4>3. /\ Len(f[k - 1]) \in Nat /\ DOMAIN f[k - 1] = 1..Len(f[k - 1])
            /\ DOMAIN f[k] = 1..(Len(f[k - 1]) + 1)
        BY <4>1, <4>2
      <4>4. Elems(f[k]) \subseteq Elems(f[k - 1]) \cup {EventAt(k, gen)}
        <5>1. \A i \in 1..(Len(f[k - 1]) + 1) : i \in 1..Len(f[k - 1]) \/ i = Len(f[k - 1]) + 1
          BY <4>3
        <5> QED BY <5>1, <4>2, <4>3 DEF Elems
      <4>5. Elems(f[k - 1]) \cup {EventAt(k, gen)} \subseteq Elems(f[k])
        <5>1. \A i \in 1..Len(f[k - 1]) : i \in 1..(Len(f[k - 1]) + 1)
          BY <4>3
        <5>2. Len(f[k - 1]) + 1 \in 1..(Len(f[k - 1]) + 1)
          BY <4>3
        <5> QED BY <5>1, <5>2, <4>2, <4>3 DEF Elems
      <4> QED BY <4>2, <4>4, <4>5
    <3> HIDE DEF To
    <3> QED BY <3>2, <2>2, <2>4, <1>5
  <2> QED BY <2>3, <2>4
<1>6. S(Size)
  <2>1. SUFFICES ASSUME Wrong # {} PROVE FALSE
    <3>1. Size \in 0..Size
      BY <1>1
    <3> HIDE DEF S
    <3> QED BY <3>1
  <2>2. PICK k \in Wrong : \A m \in Wrong : k <= m
    <3>1. Wrong \in SUBSET Nat
      OBVIOUS
    <3> HIDE DEF Wrong
    <3> QED BY <2>1, <3>1, LeastNumber
  <2>3. k \in 0..Size /\ ~S(k)
    BY <2>2
  <2> HIDE DEF S
  <2>4. ~(k <= From)
    BY <2>3, <1>4
  <2>5. k \in 1..Size /\ k - 1 \in 0..Size /\ ~(k <= k - 1)
    BY <2>3, <2>4, <1>1
  <2>6. S(k - 1)
    BY <2>2, <2>5
  <2> QED BY <2>3, <2>4, <2>5, <2>6, <1>5
<1>7. EventsRead(gen) = f[Size]
  BY DEF EventsRead, f
<1> QED BY <1>6, <1>7 DEF Reads

-----------------------------------------------------------------------------
(* Steps that leave the file as it is.                                     *)

(* The generation of the file as it is stays with the saved cursor. *)
LEMMA NowStays ==
  ASSUME file' = file, saved' = saved
  PROVE  Now' = Now
BY DEF Now, Current, NoState, Nowhere

(* Names stay when no event is added. *)
LEMMA NamesStay ==
  ASSUME NamesOK, All' \subseteq All, file' = file, Now' = Now
  PROVE  NamesOK'
BY DEF NamesOK, Named, Agree

(* Whatever reads only what a step leaves alone stays. *)
LEMMA FileTypesStay == ASSUME FileTypes, UNCHANGED <<file, saved>> PROVE FileTypes'
BY DEF FileTypes

(* ... and the same of what is in memory. *)
LEMMA MemoryTypesStay == ASSUME MemoryTypes, UNCHANGED <<live, buf, done, after>> PROVE MemoryTypes'
BY DEF MemoryTypes

(* ... of what is stored. *)
LEMMA StoreTypesStay == ASSUME StoreTypes, UNCHANGED <<spool, rows, quarantined>> PROVE StoreTypes'
BY DEF StoreTypes

(* ... and of the batch that is being sent. *)
LEMMA JobStays == ASSUME JobOK, UNCHANGED <<job, spool, rows, quarantined>> PROVE JobOK'
<1>1. Todo' = Todo
  BY DEF Todo, Flat, Elems
<1>2. Events(job.batch)' = Events(job.batch)
  BY DEF Events
<1> QED BY <1>1, <1>2 DEF JobOK, NoJob

(* The numbers are numbers. *)
LEMMA Numbers ==
  ASSUME AInv
  PROVE  /\ file.id \in Nat /\ file.id # 0 /\ file.content \in Nat /\ file.id <= MaxContents
         /\ MaxContents \in Nat /\ faults \in Nat /\ ident \in Nat
         /\ suspect.id \in Nat /\ suspect.id <= MaxContents + faults
         /\ Size \in Nat /\ DOMAIN file.lines = 1..Size
         /\ saved.id \in Nat /\ saved.content \in Nat /\ saved.off \in Nat /\ saved.gen \in Nat
         /\ live.id \in Nat /\ live.content \in Nat /\ live.off \in Nat /\ live.gen \in Nat
         /\ live.id <= file.id /\ saved.id <= file.id
<1>1. FileTypes /\ LookTypes /\ MemoryTypes /\ FilesOK /\ LookOK
  BY DEF AInv, TypesOK
<1>2. /\ saved.id \in Nat /\ saved.content \in Nat /\ saved.off \in Nat /\ saved.gen \in Nat
      /\ live.id \in Nat /\ live.content \in Nat /\ live.off \in Nat /\ live.gen \in Nat
  BY <1>1 DEF FileTypes, MemoryTypes, Cursor
<1>3. file.id \in Nat /\ file.id # 0 /\ file.content \in Nat /\ Size \in Nat /\ DOMAIN file.lines = 1..Size
  BY <1>1 DEF FileTypes, Size
<1>4. faults \in Nat /\ ident \in Nat /\ suspect.id \in Nat /\ suspect.id <= MaxContents + faults
  BY <1>1 DEF LookTypes, LookOK
<1>5. MaxContents \in Nat /\ file.id <= MaxContents /\ live.id <= file.id /\ saved.id <= file.id
  BY <1>1, <1>3, AgentAssumption DEF FilesOK, Fits
<1> QED BY <1>2, <1>3, <1>4, <1>5

(* A step that moves neither cursors nor events. *)
LEMMA QuietStep ==
  ASSUME AInv, UNCHANGED <<file, saved, skipped, live, buf, spool, job, rows, quarantined>>,
         after' = after \/ after' = ThenPoll \/ after' = ThenExit, done' \in {done, 0}
  PROVE  FilesOK' /\ NamesOK' /\ CoverOK' /\ JobOK' /\ All' \subseteq All
<1>1. Elems(after'.events) \subseteq Elems(after.events) /\ (after'.then = "absorb" => after' = after)
  BY DEF ThenPoll, ThenExit, Elems
<1>2. All' \subseteq All
  BY <1>1 DEF All, Spooled, Events, Elems
<1>3. NamesOK'
  BY <1>2, NamesStay, NowStays DEF AInv
<1>4. FilesOK'
  BY DEF AInv, FilesOK, Fits, Current, Size, NoState, Nowhere
<1>5. CoverOK'
  <2>1. Spooled' = Spooled
    BY DEF Spooled, Events
  <2>2. Covers(saved, Spooled)' /\ Covers(live, Spooled \cup Elems(buf))'
    BY <2>1 DEF AInv, CoverOK, Covers, Taken, Current, Elems
  <2>3. (after.then = "absorb" => Covers(after.cur, Elems(after.events)))'
    <3>1. SUFFICES ASSUME after'.then = "absorb" PROVE Covers(after.cur, Elems(after.events))'
      OBVIOUS
    <3>2. after' = after
      BY <3>1, <1>1
    <3> QED BY <3>1, <3>2 DEF AInv, CoverOK, Covers, Taken, Current, Elems
  <2>4. (\A k \in DOMAIN buf : k <= done * BatchMax => buf[k] \in Spooled)'
    <3>1. CASE done' = done
      BY <3>1, <2>1 DEF AInv, CoverOK
    <3>2. CASE done' = 0
      <4>1. BatchMax \in Nat /\ DOMAIN buf = 1..Len(buf) /\ Len(buf) \in Nat
        BY AgentAssumption DEF AInv, TypesOK, MemoryTypes
      <4>2. done' * BatchMax = 0
        BY <3>2, <4>1
      <4> QED BY <4>1, <4>2
    <3> QED BY <3>1, <3>2
  <2> QED BY <2>2, <2>3, <2>4 DEF CoverOK
<1>6. JobOK'
  BY JobStays DEF AInv
<1> QED BY <1>2, <1>3, <1>4, <1>5, <1>6

(* Every event there is, is one. *)
LEMMA AllAreEvents == ASSUME TypesOK PROVE All \subseteq Event
<1>1. Elems(buf) \subseteq Event
  BY ElemsIn DEF TypesOK, MemoryTypes
<1>2. Elems(after.events) \subseteq Event
  <2>1. after.events \in Seq(Event)
    BY DEF TypesOK, MemoryTypes, Plans
  <2> QED BY <2>1, ElemsIn
<1>3. Spooled \subseteq Event
  <2>1. ASSUME NEW b \in spool PROVE Events(b) \subseteq Event
    <3>1. b.events \in Seq(Event)
      BY DEF TypesOK, StoreTypes
    <3> QED BY <3>1, ElemsIn DEF Events, Elems
  <2>2. rows \subseteq Event /\ quarantined \subseteq Event
    BY DEF TypesOK, StoreTypes
  <2> QED BY <2>1, <2>2 DEF Spooled
<1> QED BY <1>1, <1>2, <1>3 DEF All

(* The plans that hold nothing. *)
LEMMA IdlePlans ==
  /\ ThenPoll.then = "poll" /\ ThenExit.then = "exit" /\ Nowhere \in Cursor
  /\ \A a \in {ThenPoll, ThenExit} : a \in Plans /\ a.cur = Nowhere /\ a.events = <<>>
<1>1. Nowhere \in Cursor
  BY DEF Nowhere, Cursor
<1>2. ThenPoll = [then |-> "poll", cur |-> Nowhere, events |-> <<>>]
      /\ ThenExit = [then |-> "exit", cur |-> Nowhere, events |-> <<>>]
  BY DEF ThenPoll, ThenExit
<1>3. <<>> \in Seq(Event)
  OBVIOUS
<1> HIDE DEF Nowhere
<1>4. ThenPoll \in Plans /\ ThenPoll.then = "poll" /\ ThenPoll.cur = Nowhere /\ ThenPoll.events = <<>>
  BY <1>1, <1>2, <1>3 DEF Plans
<1>5. ThenExit \in Plans /\ ThenExit.then = "exit" /\ ThenExit.cur = Nowhere /\ ThenExit.events = <<>>
  BY <1>1, <1>2, <1>3 DEF Plans
<1> QED BY <1>1, <1>4, <1>5

(* Time passes. *)
LEMMA TimeIsUpKeeps == ASSUME AInv, TimeIsUp PROVE AInv'
<1>1. FilesOK' /\ NamesOK' /\ CoverOK' /\ JobOK' /\ All' \subseteq All
  <2>1. UNCHANGED <<file, saved, skipped, live, buf, spool, job, rows, quarantined, after, done>>
    BY DEF TimeIsUp, uploaderVars
  <2> QED BY <2>1, QuietStep
<1>2. UNCHANGED <<file, saved, skipped, pc, live, ident, suspect, buf, done, after, spool, rows, quarantined, faults>>
  BY DEF TimeIsUp, uploaderVars
<1>3. TypesOK'
  BY <1>2, FileTypesStay, MemoryTypesStay, StoreTypesStay DEF AInv, TypesOK, LookTypes
<1>4. LiveOK' /\ AfterOK'
  BY <1>2 DEF AInv, LiveOK, AfterOK, Current, Elems, Now, NoState, Nowhere, ThenPoll, Size
<1>5. LookOK'
  BY <1>1, <1>2 DEF AInv, LookOK, Calm, NoState, Nowhere
<1> QED BY <1>1, <1>3, <1>4, <1>5 DEF AInv

(* The first look, right or wrong. *)
LEMMA LookKeeps == ASSUME AInv, Look \/ Misread PROVE AInv'
<1>1. UNCHANGED <<file, saved, skipped, live, buf, spool, job, rows, quarantined, after, done, suspect>>
      /\ pc = "up" /\ pc' = "look" /\ file.present
  BY DEF Look, Misread, uploaderVars
<1>2. FilesOK' /\ NamesOK' /\ CoverOK' /\ JobOK' /\ All' \subseteq All
  BY <1>1, QuietStep
<1>3. /\ file.id \in Nat /\ file.id <= MaxContents /\ MaxContents \in Nat /\ faults \in Nat /\ file.id # 0
      /\ live.id <= file.id /\ live.id \in Nat /\ suspect.id \in Nat /\ suspect.id <= MaxContents + faults
  BY Numbers
<1>4. \/ ident' = file.id /\ faults' = faults
      \/ ident' = MaxContents + 1 + faults /\ faults' = faults + 1 /\ live.id # 0
  BY DEF Look, Misread, Fault
<1>5. TypesOK'
  <2>1. FileTypes' /\ MemoryTypes' /\ StoreTypes'
    BY <1>1, FileTypesStay, MemoryTypesStay, StoreTypesStay DEF AInv, TypesOK
  <2>2. LookTypes'
    BY <1>1, <1>3, <1>4 DEF AInv, TypesOK, LookTypes
  <2> QED BY <2>1, <2>2 DEF TypesOK
<1>6. LiveOK' /\ AfterOK'
  BY <1>1 DEF AInv, LiveOK, AfterOK, Current, Elems, Now, NoState, Nowhere, ThenPoll, Size
<1>7. LookOK'
  <2>1. CASE ident' = file.id /\ faults' = faults
    BY <1>1, <1>3, <2>1 DEF LookOK
  <2>2. CASE ident' = MaxContents + 1 + faults /\ faults' = faults + 1 /\ live.id # 0
    BY <1>1, <1>3, <2>2 DEF LookOK
  <2> QED BY <1>4, <2>1, <2>2
<1> QED BY <1>2, <1>5, <1>6, <1>7 DEF AInv

(* What comes of a poll that moves nothing. *)
LEMMA AfterPoll ==
  ASSUME AInv
  PROVE  FlushOrRest(buf) \in {"write", "up"} /\ (FlushOrRest(buf) = "write" => live.id # 0)
BY DEF FlushOrRest, AInv, LiveOK

(* A poll that finds no file, or withholds what it saw once. *)
LEMMA PollKeeps == ASSUME AInv, Missing \/ Withhold PROVE AInv'
<1>1. UNCHANGED <<file, saved, skipped, live, buf, spool, job, rows, quarantined, after, done, faults>>
      /\ pc \in {"look", "up"} /\ pc' = FlushOrRest(buf) /\ ident' = 0
  BY DEF Missing, Withhold, uploaderVars
<1>2. FilesOK' /\ NamesOK' /\ CoverOK' /\ JobOK' /\ All' \subseteq All
  BY <1>1, QuietStep
<1>3. /\ MaxContents \in Nat /\ faults \in Nat /\ file.id \in Nat /\ file.id <= MaxContents /\ ident \in Nat
      /\ suspect.id \in Nat /\ suspect.id <= MaxContents + faults
      /\ (pc = "look" /\ ident > MaxContents => ident <= MaxContents + faults)
  BY Numbers DEF AInv, LookOK
<1>4. suspect' = suspect \/ (pc = "look" /\ suspect' = Sighting)
  BY DEF Missing, Withhold
<1>5. /\ suspect' = [kind |-> suspect'.kind, id |-> suspect'.id] /\ suspect'.id \in Nat
      /\ suspect'.id <= MaxContents + faults
  <2>1. CASE suspect' = suspect
    BY <2>1, <1>3 DEF AInv, TypesOK, LookTypes
  <2>2. CASE pc = "look" /\ suspect' = Sighting
    BY <2>2, <1>3 DEF Sighting
  <2> QED BY <2>1, <2>2, <1>4
<1>6. pc' \in {"write", "up"} /\ (pc' = "write" => live.id # 0)
  BY <1>1, AfterPoll
<1>7. TypesOK'
  <2>1. FileTypes' /\ MemoryTypes' /\ StoreTypes'
    BY <1>1, FileTypesStay, MemoryTypesStay, StoreTypesStay DEF AInv, TypesOK
  <2>2. LookTypes'
    BY <1>1, <1>3, <1>5, <1>6 DEF LookTypes
  <2> QED BY <2>1, <2>2 DEF TypesOK
<1>8. LiveOK' /\ AfterOK'
  BY <1>1, <1>6 DEF AInv, LiveOK, AfterOK, Current, Elems, Now, NoState, Nowhere, ThenPoll, Size
<1>9. LookOK'
  BY <1>1, <1>5, <1>6 DEF LookOK
<1> QED BY <1>2, <1>7, <1>8, <1>9 DEF AInv

(* An orderly stop, and a flush that fails. *)
LEMMA StopKeeps == ASSUME AInv, Stop \/ CollectorFails PROVE AInv'
<1>1. /\ UNCHANGED <<file, saved, skipped, live, buf, spool, job, rows, quarantined, suspect, ident>>
      /\ pc # "down" /\ pc # "look" /\ faults' = faults + 1
      /\ \/ pc = "up" /\ pc' = "write" /\ buf # <<>> /\ after' = ThenExit /\ done' = done
         \/ pc' = "up" /\ after' = ThenPoll /\ done' = 0
  BY DEF Stop, CollectorFails, Fault, uploaderVars
<1>2. FilesOK' /\ NamesOK' /\ CoverOK' /\ JobOK' /\ All' \subseteq All
  BY <1>1, QuietStep
<1>3. /\ ThenPoll.then = "poll" /\ ThenExit.then = "exit"
      /\ \A a \in {ThenPoll, ThenExit} : a \in Plans /\ a.cur = Nowhere /\ a.events = <<>>
  BY IdlePlans
<1>4. TypesOK'
  <2>1. FileTypes' /\ StoreTypes'
    BY <1>1, FileTypesStay, StoreTypesStay DEF AInv, TypesOK
  <2>2. LookTypes'
    BY <1>1 DEF AInv, TypesOK, LookTypes
  <2>3. MemoryTypes'
    BY <1>1, <1>3 DEF AInv, TypesOK, MemoryTypes
  <2> QED BY <2>1, <2>2, <2>3 DEF TypesOK
<1>5. LiveOK'
  BY <1>1 DEF AInv, LiveOK, Current, Elems, Now, NoState, Nowhere
<1>6. AfterOK'
  BY <1>1, <1>3 DEF AInv, LiveOK, AfterOK
<1>7. LookOK'
  BY <1>1, Numbers DEF AInv, LookOK
<1> QED BY <1>2, <1>4, <1>5, <1>6, <1>7 DEF AInv

-----------------------------------------------------------------------------
(* The end and the beginning of a process.                                 *)

(* Cursors and what they cover, while the file stays as it is. *)
LEMMA FitsStays ==
  ASSUME NEW c, Fits(c), file' = file
  PROVE  Fits(c)'
BY DEF Fits, Current, Size

(* What is covered stays covered, if nothing is taken away. *)
LEMMA CoversStays ==
  ASSUME NEW c, NEW E, NEW F, Covers(c, E), E \subseteq F, file' = file, skipped \subseteq skipped'
  PROVE  Covers(c, F)'
BY DEF Covers, Taken, Current

(* What is in memory is lost; what is saved holds. *)
LEMMA DownStep ==
  ASSUME AInv, Down, UNCHANGED <<file, skipped, spool, rows, quarantined>>,
         faults' \in {faults, faults + 1}, Now' = Now,
         saved' \in Cursor, Fits(saved)', saved'.id = 0 => saved' = NoState, Covers(saved, Spooled)'
  PROVE  AInv'
<1>1. /\ pc' = "down" /\ live' = Nowhere /\ ident' = 0 /\ suspect' = Calm /\ buf' = <<>>
      /\ done' = 0 /\ after' = ThenPoll /\ job' = NoJob
  BY DEF Down
<1>2. Nowhere \in Cursor /\ Nowhere.id = 0 /\ ThenPoll \in Plans /\ ThenPoll.then = "poll" /\ ThenPoll.events = <<>>
      /\ ThenPoll.cur = Nowhere /\ Calm = [kind |-> Calm.kind, id |-> Calm.id] /\ Calm.id = 0
  BY IdlePlans DEF Nowhere, Calm
<1>3. Spooled' = Spooled
  BY DEF Spooled, Events
<1>4. TypesOK'
  <2>1. FileTypes'
    BY DEF AInv, TypesOK, FileTypes
  <2>2. LookTypes'
    BY <1>1, <1>2, Numbers DEF LookTypes
  <2>3. MemoryTypes'
    BY <1>1, <1>2 DEF MemoryTypes
  <2>4. StoreTypes'
    BY StoreTypesStay DEF AInv, TypesOK
  <2> QED BY <2>1, <2>2, <2>3, <2>4 DEF TypesOK
<1>5. FilesOK'
  <2>1. Fits(live)'
    BY <1>1, Numbers DEF Fits, Current, Nowhere
  <2>2. NoState' = NoState
    BY DEF NoState, Nowhere
  <2> QED BY <2>1, <2>2 DEF AInv, FilesOK
<1>6. LiveOK'
  BY <1>1, <1>2 DEF LiveOK, Elems
<1>7. AfterOK'
  BY <1>1, <1>2 DEF AfterOK
<1>8. NamesOK'
  <2>1. All' \subseteq All
    BY <1>1, <1>2, <1>3 DEF All, Elems
  <2> QED BY <2>1, NamesStay DEF AInv
<1>9. LookOK'
  BY <1>1, <1>2, Numbers DEF LookOK
<1>10. CoverOK'
  <2>1. Covers(live, Spooled \cup Elems(buf))'
    BY <1>1, Numbers DEF Covers, Current, Nowhere
  <2>2. DOMAIN buf' = {} /\ after'.then = "poll"
    BY <1>1, <1>2
  <2> QED BY <2>1, <2>2 DEF CoverOK
<1>11. JobOK'
  BY <1>1 DEF JobOK, NoJob
<1> QED BY <1>4, <1>5, <1>6, <1>7, <1>8, <1>9, <1>10, <1>11 DEF AInv

(* A crash. *)
LEMMA CrashKeeps == ASSUME AInv, Crash PROVE AInv'
<1>1. Down /\ UNCHANGED <<file, saved, skipped, spool, rows, quarantined>> /\ faults' = faults + 1
  BY DEF Crash, Fault
<1>2. Now' = Now
  BY <1>1, NowStays
<1>3. saved' \in Cursor /\ Fits(saved)' /\ (saved'.id = 0 => saved' = NoState)
  <2>1. saved \in Cursor /\ Fits(saved) /\ (saved.id = 0 => saved = NoState)
    BY DEF AInv, TypesOK, FileTypes, FilesOK
  <2>2. Fits(saved)'
    BY <2>1, <1>1 DEF Fits, Current, Size
  <2> QED BY <2>1, <2>2, <1>1
<1>4. Covers(saved, Spooled)'
  <2>1. Spooled' = Spooled
    BY <1>1 DEF Spooled, Events
  <2> QED BY <2>1, <1>1 DEF AInv, CoverOK, Covers, Taken, Current
<1> QED BY <1>1, <1>2, <1>3, <1>4, DownStep

(* A new process takes the saved state, or bootstraps. *)
LEMMA StartKeeps == ASSUME AInv, Start PROVE AInv'
<1>1. /\ UNCHANGED <<file, ident, suspect, buf, done, after, spool, job, rows, quarantined>>
      /\ pc = "down" /\ pc' = "up"
  BY DEF Start, uploaderVars
<1>2. live = Nowhere /\ after = ThenPoll /\ buf = <<>> /\ done = 0
  BY <1>1 DEF AInv, LiveOK, Nowhere
<1>3. \/ live' = saved /\ saved' = saved /\ skipped' = skipped /\ faults' = faults
      \/ /\ saved = NoState /\ live' = [id |-> file.id, content |-> file.content, off |-> Size, gen |-> 0]
         /\ skipped' = skipped \cup {<<file.content, i>> : i \in 1..Size}
         /\ saved' \in {saved, live'} /\ faults' \in {faults, faults + 1}
  BY Numbers DEF Start, Fault
<1>4. Nowhere \in Cursor /\ Nowhere.id = 0 /\ Nowhere.gen = 0 /\ NoState = Nowhere
      /\ ThenPoll.then = "poll" /\ ThenPoll.events = <<>> /\ ThenPoll.cur = Nowhere
  BY IdlePlans DEF Nowhere, NoState
<1>5. /\ Spooled' = Spooled /\ All' = All /\ Elems(buf) = {} /\ Elems(buf)' = {}
  BY <1>1, <1>2 DEF Spooled, Events, All, Elems
<1>6. /\ live' \in Cursor /\ saved' \in Cursor /\ Fits(live)' /\ Fits(saved)' /\ (saved'.id = 0 => saved' = NoState)
      /\ Now' = Now /\ Covers(saved, Spooled)' /\ Covers(live, Spooled)'
      /\ (live'.id = 0 => live' = Nowhere /\ saved' = NoState)
      /\ (live'.id # 0 => Now = IF Current(live)' THEN live'.gen ELSE live'.gen + 1)
      /\ (live'.id # 0 /\ saved' # NoState => saved' = live')
  <2>1. /\ saved \in Cursor /\ Fits(saved) /\ (saved.id = 0 => saved = NoState) /\ Covers(saved, Spooled)
    BY DEF AInv, TypesOK, FileTypes, FilesOK, CoverOK
  <2>2. CASE live' = saved /\ saved' = saved /\ skipped' = skipped
    <3>1. Fits(live)' /\ Fits(saved)'
      BY <1>1, <2>1, <2>2 DEF Fits, Current, Size
    <3>2. Covers(saved, Spooled)' /\ Covers(live, Spooled)'
      BY <1>1, <1>5, <2>1, <2>2 DEF Covers, Taken, Current
    <3>3. Now' = Now
      BY <1>1, <2>2, NowStays
    <3>4. live'.id # 0 => Now = IF Current(live)' THEN live'.gen ELSE live'.gen + 1
      BY <1>1, <1>4, <2>2 DEF Now, Current
    <3> QED BY <1>4, <2>1, <2>2, <3>1, <3>2, <3>3, <3>4
  <2>3. CASE /\ saved = NoState /\ live' = [id |-> file.id, content |-> file.content, off |-> Size, gen |-> 0]
             /\ skipped' = skipped \cup {<<file.content, i>> : i \in 1..Size}
             /\ saved' \in {saved, live'}
    <3>1. /\ live'.id = file.id /\ live'.content = file.content /\ live'.off = Size /\ live'.gen = 0
          /\ live' \in Cursor /\ live'.id # 0 /\ Size' = Size
      BY <1>1, <2>3, Numbers DEF Cursor, Size
    <3>2. Fits(live)'
      BY <1>1, <3>1, Numbers DEF Fits
    <3>3. Covers(live, Spooled)'
      BY <1>1, <2>3, <3>1 DEF Covers, Taken
    <3>4. Current(live)' /\ Now = 0
      BY <1>1, <2>3, <3>1 DEF Current, Now
    <3>5. live' # NoState
      BY <3>1, <1>4
    <3>6. CASE saved' = saved
      <4>1. Fits(saved)' /\ Now' = Now
        BY <1>1, <2>1, <3>6, NowStays DEF Fits, Current, Size
      <4>2. Covers(saved, Spooled)'
        BY <1>1, <1>4, <2>3, <3>6, Numbers DEF Covers, Current
      <4> QED BY <1>4, <2>1, <2>3, <3>1, <3>2, <3>3, <3>4, <3>6, <4>1, <4>2
    <3>7. CASE saved' = live'
      <4>1. Fits(saved)' /\ Covers(saved, Spooled)' /\ Current(saved)'
        BY <3>2, <3>3, <3>4, <3>7 DEF Fits, Covers, Current
      <4>2. Now' = 0
        BY <3>1, <3>5, <3>7, <4>1 DEF Now, NoState, Nowhere
      <4> QED BY <3>1, <3>2, <3>3, <3>4, <3>7, <4>1, <4>2
    <3> QED BY <2>3, <3>6, <3>7
  <2> QED BY <1>3, <2>2, <2>3
<1>7. TypesOK'
  <2>1. FileTypes'
    BY <1>1, <1>6 DEF AInv, TypesOK, FileTypes
  <2>2. LookTypes'
    BY <1>1, <1>3, Numbers DEF AInv, TypesOK, LookTypes
  <2>3. MemoryTypes'
    BY <1>1, <1>6 DEF AInv, TypesOK, MemoryTypes
  <2>4. StoreTypes'
    BY <1>1, StoreTypesStay DEF AInv, TypesOK
  <2> QED BY <2>1, <2>2, <2>3, <2>4 DEF TypesOK
<1>8. NoState' = NoState /\ Nowhere' = Nowhere /\ ThenPoll' = ThenPoll
  BY DEF NoState, Nowhere, ThenPoll
<1>9. FilesOK'
  BY <1>1, <1>6, <1>8 DEF AInv, FilesOK
<1>10. LiveOK'
  <2>1. live'.id # 0 => Now' = IF Current(live)' THEN live'.gen ELSE live'.gen + 1
    BY <1>6
  <2>2. live'.id # 0 /\ saved' # NoState /\ live'.gen = saved'.gen => live'.id = saved'.id /\ saved'.off <= live'.off
    <3>1. live'.off \in Nat
      BY <1>6 DEF Cursor
    <3> QED BY <1>6, <3>1
  <2>3. live'.id = 0 => live' = Nowhere /\ buf' = <<>> /\ saved' = NoState
    BY <1>1, <1>2, <1>6
  <2> QED BY <1>1, <1>2, <1>5, <1>8, <2>1, <2>2, <2>3 DEF LiveOK
<1>11. AfterOK'
  BY <1>1, <1>2, <1>4 DEF AfterOK, Nowhere
<1>12. NamesOK'
  BY <1>1, <1>5, <1>6, NamesStay DEF AInv
<1>13. LookOK'
  BY <1>1, <1>3, Numbers DEF LookOK
<1>14. CoverOK'
  <2>1. Covers(live, Spooled \cup Elems(buf))'
    BY <1>5, <1>6 DEF Covers, Taken
  <2>2. DOMAIN buf' = {} /\ after'.then = "poll"
    BY <1>1, <1>2, <1>4
  <2> QED BY <1>6, <2>1, <2>2 DEF CoverOK
<1>15. JobOK'
  BY <1>1, JobStays DEF AInv
<1> QED BY <1>7, <1>9, <1>10, <1>11, <1>12, <1>13, <1>14, <1>15 DEF AInv

-----------------------------------------------------------------------------
(* The flush and the save.                                                 *)

(* A chunk of the buffer becomes a batch; with the last one every event of *)
(* the buffer is spooled.                                                  *)
LEMMA WriteBatchKeeps == ASSUME AInv, WriteBatch PROVE AInv'
<1> DEFINE b == BatchFile(done)
<1>1. /\ UNCHANGED <<file, saved, skipped, live, ident, suspect, after, job, rows, quarantined, faults>>
      /\ pc = "write" /\ spool' = spool \cup {b}
  BY DEF WriteBatch, uploaderVars
<1>2. buf \in Seq(Event) /\ Len(buf) \in Nat /\ DOMAIN buf = 1..Len(buf) /\ done \in Nat /\ BatchMax \in Nat \ {0}
  BY AgentAssumption DEF AInv, TypesOK, MemoryTypes
<1>3. PICK p \in Nat : p = done * BatchMax
  <2>1. done * BatchMax \in Nat
    BY <1>2
  <2> QED BY <2>1
<1>4. (done + 1) * BatchMax = p + BatchMax
  BY <1>2, <1>3
<1>5. PICK n \in Nat : n = IF p + BatchMax < Len(buf) THEN p + BatchMax ELSE Len(buf)
  <2>1. p + BatchMax \in Nat /\ Len(buf) \in Nat
    BY <1>2
  <2> QED BY <2>1, Zenon
<1> DEFINE len == Len(buf)
<1>a. p \in Nat /\ n \in Nat /\ BatchMax \in Nat /\ len \in Nat /\ DOMAIN buf = 1..len
  BY <1>2
<1>b. n = IF p + BatchMax < len THEN p + BatchMax ELSE len
  BY <1>5
<1> HIDE DEF len
<1>c. n <= len /\ p + 1 \in Nat \ {0} /\ n \in 0..len /\ (\A i \in (p + 1)..n : i \in 1..len)
      /\ (\A k \in 1..len : k <= p + BatchMax /\ ~(k <= p) => k \in (p + 1)..n)
  BY <1>a, <1>b
<1>6. b.events = SubSeq(buf, p + 1, n)
  <2>1. b.events = Chunk(done)
    BY DEF BatchFile
  <2> HIDE DEF b
  <2> QED BY <2>1, <1>3, <1>4, <1>5 DEF Chunk
<1> HIDE DEF b
<1>7. /\ b.events \in Seq(Event)
      /\ \A i \in (p + 1)..n : buf[i] \in Events(b)
      /\ \A r \in Events(b) : \E i \in (p + 1)..n : r = buf[i]
  <2>1. p + 1 \in Nat \ {0} /\ n \in 0..Len(buf)
    BY <1>c DEF len
  <2>2. /\ SubSeq(buf, p + 1, n) \in Seq(Event)
        /\ \A i \in (p + 1)..n : buf[i] \in Elems(SubSeq(buf, p + 1, n))
        /\ \A r \in Elems(SubSeq(buf, p + 1, n)) : \E i \in (p + 1)..n : r = buf[i]
    BY <1>2, <2>1, ElemsOfSub
  <2>3. Events(b) = Elems(b.events)
    BY DEF Events, Elems
  <2> QED BY <2>2, <2>3, <1>6
<1>8. Spooled' = Spooled \cup Events(b)
  BY <1>1 DEF Spooled, Events
<1>9. Events(b) \subseteq Elems(buf)
  <2>1. \A i \in (p + 1)..n : buf[i] \in Elems(buf)
    BY <1>a, <1>c DEF Elems
  <2> QED BY <2>1, <1>7
<1>10. \/ /\ p + BatchMax < Len(buf) /\ done' = done + 1 /\ pc' = pc /\ buf' = buf
       \/ /\ ~(p + BatchMax < Len(buf)) /\ done' = 0 /\ pc' = "save" /\ buf' = <<>>
  BY <1>4 DEF WriteBatch
<1>11. \A k \in DOMAIN buf : k <= p + BatchMax => buf[k] \in Spooled'
  <2>1. TAKE k \in DOMAIN buf
  <2>2. HAVE k <= p + BatchMax
  <2>3. CASE k <= p
    BY <2>3, <1>3, <1>8 DEF AInv, CoverOK
  <2>4. CASE ~(k <= p)
    <3>1. k \in (p + 1)..n
      BY <2>2, <2>4, <1>a, <1>c
    <3> QED BY <3>1, <1>7, <1>8
  <2> QED BY <2>3, <2>4
<1>12. Spooled \cup Elems(buf) \subseteq Spooled' \cup Elems(buf)' /\ Elems(buf)' \subseteq Elems(buf)
  <2>1. CASE buf' = buf
    BY <2>1, <1>8 DEF Elems
  <2>2. CASE ~(p + BatchMax < Len(buf)) /\ buf' = <<>>
    <3>1. \A k \in DOMAIN buf : buf[k] \in Spooled'
      BY <2>2, <1>2, <1>11
    <3> QED BY <2>2, <3>1, <1>8 DEF Elems
  <2> QED BY <2>1, <2>2, <1>10
<1>13. TypesOK'
  <2>1. FileTypes'
    BY <1>1, FileTypesStay DEF AInv, TypesOK
  <2>2. LookTypes'
    BY <1>1, <1>10, Numbers DEF AInv, TypesOK, LookTypes
  <2>3. MemoryTypes'
    <3>1. buf' = buf \/ buf' = <<>>
      BY <1>10
    <3>2. buf' \in Seq(Event)
      <4>1. buf \in Seq(Event) /\ <<>> \in Seq(Event)
        BY <1>2
      <4> QED BY <3>1, <4>1, Zenon
    <3>3. done' \in Nat
      BY <1>2, <1>10
    <3> QED BY <3>2, <3>3, <1>1 DEF AInv, TypesOK, MemoryTypes
  <2>4. StoreTypes'
    BY <1>1, <1>7 DEF AInv, TypesOK, StoreTypes
  <2> QED BY <2>1, <2>2, <2>3, <2>4 DEF TypesOK
<1>14. FilesOK'
  BY <1>1 DEF AInv, FilesOK, Fits, Current, Size, NoState, Nowhere
<1>15. LiveOK'
  <2>1. Now' = Now
    BY <1>1, NowStays
  <2>2. live.id # 0 /\ pc' # "down" /\ (pc' # "write" => done' = 0) /\ (pc' = "save" => buf' = <<>>)
    BY <1>1, <1>10 DEF AInv, LiveOK
  <2> QED BY <1>1, <1>12, <2>1, <2>2 DEF AInv, LiveOK, Current, NoState, Nowhere
<1>16. AfterOK'
  BY <1>1, <1>10 DEF AInv, AfterOK, Current, Elems, Size, Nowhere
<1>17. All' \subseteq All
  <2>1. Elems(after.events)' = Elems(after.events)
    BY <1>1 DEF Elems
  <2> QED BY <2>1, <1>8, <1>9, <1>12 DEF All
<1>18. NamesOK'
  BY <1>1, <1>17, NamesStay, NowStays DEF AInv
<1>19. LookOK'
  BY <1>1, <1>10, Numbers DEF LookOK
<1>20. CoverOK'
  <2>1. Covers(saved, Spooled)'
    BY <1>1, <1>8 DEF AInv, CoverOK, Covers, Taken, Current
  <2>2. Covers(live, Spooled \cup Elems(buf))'
    BY <1>1, <1>12 DEF AInv, CoverOK, Covers, Taken, Current
  <2>3. (after.then = "absorb" => Covers(after.cur, Elems(after.events)))'
    BY <1>1 DEF AInv, CoverOK, Covers, Taken, Current, Elems
  <2>4. \A k \in DOMAIN buf' : k <= done' * BatchMax => buf'[k] \in Spooled'
    <3>1. CASE done' = done + 1 /\ buf' = buf
      BY <3>1, <1>4, <1>11
    <3>2. CASE buf' = <<>>
      BY <3>2
    <3> QED BY <3>1, <3>2, <1>10
  <2> QED BY <2>1, <2>2, <2>3, <2>4 DEF CoverOK
<1>21. JobOK'
  <2>1. Todo' = Todo
    BY <1>1 DEF Todo, Flat, Elems
  <2>2. Events(job.batch)' = Events(job.batch)
    BY <1>1 DEF Events
  <2> QED BY <1>1, <2>1, <2>2 DEF AInv, JobOK, NoJob
<1> QED BY <1>13, <1>14, <1>15, <1>16, <1>18, <1>19, <1>20, <1>21 DEF AInv

(* The cursor is saved when every event up to it is spooled; then the      *)
(* confirmed read takes effect, or the process ends.                       *)
LEMMA SaveStateKeeps == ASSUME AInv, SaveState PROVE AInv'
<1>1. UNCHANGED <<file, skipped, spool, rows, quarantined, faults>> /\ pc = "save" /\ saved' = live
  BY DEF SaveState
<1>2. /\ live.id # 0 /\ buf = <<>> /\ live \in Cursor /\ Fits(live) /\ done = 0
      /\ Now = IF Current(live) THEN live.gen ELSE live.gen + 1
  BY <1>1 DEF AInv, LiveOK, TypesOK, MemoryTypes, FilesOK
<1>3. live # NoState /\ NoState' = NoState /\ Nowhere' = Nowhere
  BY <1>2 DEF NoState, Nowhere
<1>4. Spooled' = Spooled /\ Elems(buf) = {}
  BY <1>1, <1>2 DEF Spooled, Events, Elems
<1>5. Fits(saved)' /\ saved' \in Cursor /\ saved'.id # 0
  BY <1>1, <1>2 DEF Fits, Current, Size
<1>6. Now' = Now
  <2>1. Current(saved)' <=> Current(live)
    BY <1>1 DEF Current
  <2> QED BY <1>1, <1>2, <1>3, <2>1 DEF Now
<1>7. Covers(saved, Spooled)'
  <2>1. Covers(live, Spooled)
    BY <1>4 DEF AInv, CoverOK, Covers, Taken
  <2> QED BY <1>1, <1>4, <2>1 DEF Covers, Taken, Current
<1>8. CASE after.then = "exit" /\ Down
  BY <1>1, <1>5, <1>6, <1>7, <1>8, Numbers, DownStep
<1>9. CASE /\ after.then # "exit" /\ after' = ThenPoll /\ UNCHANGED <<ident, suspect, due, done, job>>
           /\ IF after.then = "absorb" THEN Absorb(after.cur, after.events, <<>>)
                                      ELSE pc' = "up" /\ UNCHANGED <<live, buf>>
  <2>1. ThenPoll \in Plans /\ ThenPoll.then = "poll" /\ ThenPoll.cur = Nowhere /\ ThenPoll.events = <<>>
    BY IdlePlans
  <2>2. /\ live' \in Cursor /\ Fits(live)' /\ live'.id # 0 /\ Now = IF Current(live)' THEN live'.gen ELSE live'.gen + 1
        /\ buf' \in Seq(Event) /\ Elems(buf)' \subseteq All
        /\ (live'.gen = live.gen => live' = live)
        /\ \A r \in Elems(buf)' : r.gen = live'.gen /\ r.at <= live'.off
        /\ Covers(live, Elems(buf) \cup Spooled)'
        /\ pc' \in {"up", "save", "write"} /\ (pc' = "save" => buf' = <<>>)
    <3>1. CASE after.then # "absorb" /\ pc' = "up" /\ UNCHANGED <<live, buf>>
      <4>1. Fits(live)' /\ (Current(live)' <=> Current(live)) /\ Elems(buf)' = {} /\ buf' = <<>>
        BY <1>1, <1>2, <1>4, <3>1 DEF Fits, Current, Size, Elems
      <4>2. Covers(live, Elems(buf) \cup Spooled)'
        BY <1>1, <1>4, <3>1 DEF AInv, CoverOK, Covers, Taken, Current
      <4> QED BY <1>2, <3>1, <4>1, <4>2
    <3>2. CASE after.then = "absorb" /\ Absorb(after.cur, after.events, <<>>)
      <4>1. after.events \in Seq(Event) /\ after.cur \in Cursor
        BY DEF AInv, TypesOK, MemoryTypes, Plans
      <4>2. /\ live' = after.cur /\ buf' = after.events
            /\ pc' = IF buf' = <<>> THEN "save" ELSE FlushOrRest(buf')
        <5>1. <<>> \o after.events = after.events
          BY <4>1, ConcatEmptySeq
        <5> QED BY <5>1, <3>2 DEF Absorb
      <4>3. /\ Current(after.cur) /\ after.cur.gen = live.gen + 1 /\ ~Current(live)
            /\ (file.present => after.cur.off <= Size)
            /\ \A r \in Elems(after.events) : r.gen = after.cur.gen /\ r.at <= after.cur.off
        BY <3>2 DEF AInv, AfterOK
      <4>4. Current(live)' /\ Elems(buf)' = Elems(after.events) /\ live'.id = file.id
        BY <1>1, <4>2, <4>3 DEF Current, Elems
      <4>5. Fits(live)'
        BY <1>1, <4>2, <4>3, Numbers DEF Fits, Current, Size
      <4>6. Covers(live, Elems(buf) \cup Spooled)'
        BY <1>1, <4>2, <4>4, <3>2 DEF AInv, CoverOK, Covers, Taken, Current
      <4>7. pc' \in {"up", "save", "write"} /\ (pc' = "save" => buf' = <<>>)
        BY <4>2 DEF FlushOrRest
      <4> QED BY <1>2, <4>1, <4>2, <4>3, <4>4, <4>5, <4>6, <4>7, Numbers DEF All
    <3> QED BY <1>9, <3>1, <3>2
  <2>3. TypesOK'
    <3>1. FileTypes'
      BY <1>1, <1>5 DEF AInv, TypesOK, FileTypes
    <3>2. LookTypes'
      BY <1>1, <1>9, <2>2 DEF AInv, TypesOK, LookTypes
    <3>3. MemoryTypes'
      BY <1>9, <2>1, <2>2 DEF AInv, TypesOK, MemoryTypes
    <3>4. StoreTypes'
      BY <1>1, StoreTypesStay DEF AInv, TypesOK
    <3> QED BY <3>1, <3>2, <3>3, <3>4 DEF TypesOK
  <2>4. FilesOK'
    BY <1>1, <1>5, <2>2 DEF AInv, FilesOK
  <2>5. LiveOK'
    <3>1. live'.id # 0 /\ saved' # NoState /\ live'.gen = saved'.gen => live'.id = saved'.id /\ saved'.off <= live'.off
      BY <1>1, <2>2, Numbers
    <3>2. Now' = IF Current(live)' THEN live'.gen ELSE live'.gen + 1
      BY <1>6, <2>2
    <3> QED BY <1>2, <1>3, <1>9, <2>2, <3>1, <3>2 DEF LiveOK
  <2>6. AfterOK'
    BY <1>9, <2>1, <1>3 DEF AfterOK
  <2>7. All' \subseteq All
    <3>1. Elems(after.events)' = {}
      BY <1>9, <2>1 DEF Elems
    <3> QED BY <3>1, <1>4, <2>2 DEF All
  <2>8. NamesOK'
    BY <1>1, <1>6, <2>7, NamesStay DEF AInv
  <2>9. LookOK'
    BY <1>1, <1>9, <2>2, Numbers DEF LookOK
  <2>10. CoverOK'
    <3>1. Covers(live, Spooled \cup Elems(buf))'
      BY <2>2 DEF Covers, Taken
    <3>2. \A k \in DOMAIN buf' : k <= done' * BatchMax => buf'[k] \in Spooled'
      <4>1. done' * BatchMax = 0
        BY <1>2, <1>9, AgentAssumption
      <4>2. DOMAIN buf' = 1..Len(buf') /\ Len(buf') \in Nat
        BY <2>2
      <4> QED BY <4>1, <4>2
    <3> QED BY <1>7, <1>9, <2>1, <3>1, <3>2 DEF CoverOK
  <2>11. JobOK'
    BY <1>1, <1>9, JobStays DEF AInv
  <2> QED BY <2>3, <2>4, <2>5, <2>6, <2>8, <2>9, <2>10, <2>11 DEF AInv
<1> QED BY <1>8, <1>9 DEF SaveState

-----------------------------------------------------------------------------
(* The file changes.                                                       *)

(* What the file's steps leave alone. *)
LEMMA FileStepRest ==
  ASSUME AInv, UNCHANGED <<saved, skipped, collectorVars, spool, uploaderVars, faults>>
  PROVE  /\ LookTypes' /\ MemoryTypes' /\ StoreTypes' /\ JobOK'
         /\ Spooled' = Spooled /\ All' = All /\ Elems(buf)' = Elems(buf)
         /\ Elems(after.events)' = Elems(after.events)
         /\ (\A k \in DOMAIN buf : k <= done * BatchMax => buf[k] \in Spooled)'
<1>1. UNCHANGED <<saved, skipped, pc, live, ident, suspect, buf, due, done, after, spool, job, rows, quarantined, faults>>
  BY DEF collectorVars, uploaderVars
<1>2. LookTypes' /\ MemoryTypes' /\ StoreTypes'
  BY <1>1, MemoryTypesStay, StoreTypesStay DEF AInv, TypesOK, LookTypes
<1>3. Spooled' = Spooled /\ Elems(buf)' = Elems(buf) /\ Elems(after.events)' = Elems(after.events)
  BY <1>1 DEF Spooled, Events, Elems
<1>4. All' = All
  BY <1>3 DEF All
<1>5. (\A k \in DOMAIN buf : k <= done * BatchMax => buf[k] \in Spooled)'
  BY <1>1, <1>3 DEF AInv, CoverOK
<1> QED BY <1>1, <1>2, <1>3, <1>4, <1>5, JobStays DEF AInv

(* A line more, or no file: the cursors fit, names and covers stay. *)
LEMMA AppendLineKeeps == ASSUME AInv, AppendLine \/ Remove PROVE AInv'
<1> USE DEF collectorVars, uploaderVars
<1>1. UNCHANGED <<saved, skipped, collectorVars, spool, uploaderVars, faults>>
  BY DEF AppendLine, Remove
<1>2. UNCHANGED <<saved, skipped, pc, live, ident, suspect, buf, due, done, after, spool, job, rows, quarantined, faults>>
  BY <1>1
<1> USE DEF collectorVars
<1>3. /\ file'.id = file.id /\ file'.content = file.content /\ FileTypes' /\ Size' \in Nat
      /\ DOMAIN file'.lines = 1..Size' /\ (~file'.present => file'.lines = <<>> /\ file.content < MaxContents)
      /\ \/ /\ file.present /\ file'.present /\ Size' = Size + 1
            /\ \A i \in 1..Size : file'.lines[i] = file.lines[i]
            /\ \A c \in {saved, live, after.cur} : CutIsVisible(c, Size')
         \/ ~file'.present /\ Size' = 0
  <2>1. /\ file = [present |-> file.present, id |-> file.id, content |-> file.content, lines |-> file.lines]
        /\ file.lines \in Seq(Kinds)
    BY DEF AInv, TypesOK, FileTypes
  <2>2. CASE AppendLine
    <3>1. PICK log \in Logs : Size < Len(log) /\ file' = [file EXCEPT !.lines = Append(@, log[Size + 1])]
      BY <2>2 DEF AppendLine
    <3>2. log[Size + 1] \in Kinds
      <4>1. log \in Seq(Kinds) /\ Size \in Nat
        BY AgentAssumption, Numbers DEF Kinds
      <4> QED BY <3>1, <4>1
    <3> DEFINE new == Append(file.lines, log[Size + 1])
    <3>3. /\ new \in Seq(Kinds) /\ Len(new) = Len(file.lines) + 1
          /\ \A i \in 1..Len(file.lines) : new[i] = file.lines[i]
      BY <2>1, <3>2, AppendProperties
    <3> HIDE DEF new
    <3>4. file' = [present |-> file.present, id |-> file.id, content |-> file.content, lines |-> new]
      BY <2>1, <3>1 DEF new
    <3>5. FileTypes'
      BY <1>2, <3>3, <3>4 DEF AInv, TypesOK, FileTypes
    <3>6. Size' = Size + 1 /\ Size \in Nat
      BY <3>3, <3>4, Numbers DEF Size
    <3>7. file.present /\ \A c \in {saved, live, after.cur} : CutIsVisible(c, Size')
      BY <2>2, <3>6 DEF AppendLine
    <3> QED BY <3>3, <3>4, <3>5, <3>6, <3>7 DEF Size
  <2>3. CASE Remove
    <3>1. file' = [present |-> FALSE, id |-> file.id, content |-> file.content, lines |-> <<>>]
          /\ file.content < MaxContents
      BY <2>1, <2>3 DEF Remove
    <3>2. FileTypes'
      BY <1>2, <3>1 DEF AInv, TypesOK, FileTypes
    <3> QED BY <3>1, <3>2 DEF Size
  <2> QED BY <2>2, <2>3
<1>4. /\ LookTypes' /\ MemoryTypes' /\ StoreTypes' /\ JobOK'
      /\ Spooled' = Spooled /\ All' = All /\ Elems(buf)' = Elems(buf)
      /\ Elems(after.events)' = Elems(after.events)
      /\ (\A k \in DOMAIN buf : k <= done * BatchMax => buf[k] \in Spooled)'
  BY <1>1, FileStepRest
<1>5. \A c : Current(c)' <=> c'.id = file.id /\ c'.content = file.content
  BY <1>3 DEF Current
<1>6. Now' = Now /\ (Current(live)' <=> Current(live)) /\ (Current(after.cur)' <=> Current(after.cur))
  BY <1>2, <1>3 DEF Now, Current, NoState, Nowhere
<1>7. /\ saved \in Cursor /\ live \in Cursor /\ after.cur \in Cursor /\ Fits(saved) /\ Fits(live)
      /\ (Current(after.cur) /\ file.present => after.cur.off <= Size \/ after.then # "absorb")
  BY DEF AInv, TypesOK, FileTypes, MemoryTypes, Plans, FilesOK, AfterOK
<1>8. ASSUME NEW c \in {saved, live}, c \in Cursor, Fits(c)
      PROVE  /\ c.id <= file'.id /\ c.content <= file'.content
             /\ c.id = file'.id /\ c.content # file'.content => c.off > 0 /\ Size' < c.off
             /\ c.id = file'.id /\ c.content = file'.content /\ file'.present => c.off <= Size'
  <2>1. c.off \in Nat /\ Size \in Nat
    BY <1>8, Numbers DEF Cursor
  <2> QED BY <1>3, <1>8, <2>1 DEF Fits, Current, CutIsVisible
<1>9. FilesOK'
  <2>1. Fits(saved)' /\ Fits(live)'
    BY <1>2, <1>7, <1>8 DEF Fits, Current
  <2> QED BY <1>2, <1>3, <2>1 DEF AInv, FilesOK, NoState, Nowhere
<1>10. TypesOK'
  BY <1>3, <1>4 DEF TypesOK
<1>11. LiveOK'
  BY <1>2, <1>4, <1>6 DEF AInv, LiveOK, NoState, Nowhere, ThenPoll
<1>12. AfterOK'
  <2>1. file'.present /\ after.then = "absorb" => after.cur.off <= Size'
    <3>1. after.cur.off \in Nat /\ Size \in Nat
      BY <1>7, Numbers DEF Cursor
    <3> QED BY <1>3, <3>1 DEF AInv, AfterOK
  <2> QED BY <1>2, <1>4, <1>6, <2>1 DEF AInv, AfterOK, Nowhere
<1>13. NamesOK'
  <2>1. ASSUME NEW r \in All PROVE Named(r)'
    <3>1. Named(r)
      BY DEF AInv, NamesOK
    <3>2. file'.present /\ r.of = file.content => r.at \in DOMAIN file'.lines /\ (r.bad <=> file'.lines[r.at] = "poison")
      <4>1. \A i \in 1..Size : i \in 1..(Size + 1)
        BY Numbers
      <4>2. r.of = file.content /\ file.present => r.at \in 1..Size /\ (r.bad <=> file.lines[r.at] = "poison")
        BY <3>1, Numbers DEF Named
      <4> QED BY <1>3, <4>1, <4>2
    <3> QED BY <1>3, <1>6, <3>1, <3>2 DEF Named
  <2>2. ASSUME NEW r \in All, NEW q \in All PROVE Agree(r, q)'
    BY DEF AInv, NamesOK, Agree
  <2> QED BY <1>4, <2>1, <2>2 DEF NamesOK
<1>14. LookOK'
  BY <1>2, <1>3, <1>4 DEF AInv, LookOK, NoState, Nowhere, Calm
<1>15. CoverOK'
  <2>1. ASSUME NEW c \in {saved, live, after.cur}, NEW E, Covers(c, E), Current(c) /\ file.present => c.off <= Size
        PROVE  c.id = file'.id /\ c.content = file'.content =>
                 \A i \in 1..c.off \cap DOMAIN file'.lines :
                   \/ file'.lines[i] = "silent" \/ <<file'.content, i>> \in skipped
                   \/ \E r \in E : ~r.torn /\ r.of = file'.content /\ r.at = i
    <3>1. SUFFICES ASSUME c.id = file.id, c.content = file.content, NEW i \in 1..c.off \cap DOMAIN file'.lines
                   PROVE  \/ file'.lines[i] = "silent" \/ <<file'.content, i>> \in skipped
                          \/ \E r \in E : ~r.torn /\ r.of = file'.content /\ r.at = i
      BY <1>3
    <3>2. c.off \in Nat /\ Size \in Nat /\ DOMAIN file.lines = 1..Size
      BY <1>7, Numbers DEF Cursor
    <3>3. file.present /\ i \in 1..Size /\ file'.lines[i] = file.lines[i]
      BY <1>3, <2>1, <3>1, <3>2 DEF Current
    <3>4. Taken(i, E)
      BY <2>1, <3>1, <3>2, <3>3 DEF Covers, Current
    <3> QED BY <1>3, <3>3, <3>4 DEF Taken
  <2>2. Covers(saved, Spooled)'
    <3>1. Covers(saved, Spooled) /\ (Current(saved) /\ file.present => saved.off <= Size)
      BY <1>7 DEF AInv, CoverOK, Fits
    <3>3. saved.id = file'.id /\ saved.content = file'.content =>
            \A i \in 1..saved.off \cap DOMAIN file'.lines :
              \/ file'.lines[i] = "silent" \/ <<file'.content, i>> \in skipped
              \/ \E r \in Spooled : ~r.torn /\ r.of = file'.content /\ r.at = i
      <4> DEFINE E == Spooled
      <4>1. Covers(saved, E) /\ (Current(saved) /\ file.present => saved.off <= Size)
        BY <3>1
      <4> HIDE DEF E
      <4>2. saved.id = file'.id /\ saved.content = file'.content =>
              \A i \in 1..saved.off \cap DOMAIN file'.lines :
                \/ file'.lines[i] = "silent" \/ <<file'.content, i>> \in skipped
                \/ \E r \in E : ~r.torn /\ r.of = file'.content /\ r.at = i
        BY <2>1, <4>1
      <4> QED BY <4>2 DEF E
    <3> QED BY <1>2, <1>4, <3>3 DEF Covers, Current, Taken
  <2>3. Covers(live, Spooled \cup Elems(buf))'
    <3>1. Covers(live, Spooled \cup Elems(buf)) /\ (Current(live) /\ file.present => live.off <= Size)
      BY <1>7 DEF AInv, CoverOK, Fits
    <3>3. live.id = file'.id /\ live.content = file'.content =>
            \A i \in 1..live.off \cap DOMAIN file'.lines :
              \/ file'.lines[i] = "silent" \/ <<file'.content, i>> \in skipped
              \/ \E r \in Spooled \cup Elems(buf) : ~r.torn /\ r.of = file'.content /\ r.at = i
      <4> DEFINE E == Spooled \cup Elems(buf)
      <4>1. Covers(live, E) /\ (Current(live) /\ file.present => live.off <= Size)
        BY <3>1
      <4> HIDE DEF E
      <4>2. live.id = file'.id /\ live.content = file'.content =>
              \A i \in 1..live.off \cap DOMAIN file'.lines :
                \/ file'.lines[i] = "silent" \/ <<file'.content, i>> \in skipped
                \/ \E r \in E : ~r.torn /\ r.of = file'.content /\ r.at = i
        BY <2>1, <4>1
      <4> QED BY <4>2 DEF E
    <3> QED BY <1>2, <1>4, <3>3 DEF Covers, Current, Taken
  <2>4. (after.then = "absorb" => Covers(after.cur, Elems(after.events)))'
    <3>1. SUFFICES ASSUME after.then = "absorb" PROVE Covers(after.cur, Elems(after.events))'
      BY <1>2
    <3>2. Covers(after.cur, Elems(after.events)) /\ (Current(after.cur) /\ file.present => after.cur.off <= Size)
      BY <1>7, <3>1 DEF AInv, CoverOK
    <3>3. after.cur.id = file'.id /\ after.cur.content = file'.content =>
            \A i \in 1..after.cur.off \cap DOMAIN file'.lines :
              \/ file'.lines[i] = "silent" \/ <<file'.content, i>> \in skipped
              \/ \E r \in Elems(after.events) : ~r.torn /\ r.of = file'.content /\ r.at = i
      <4> DEFINE E == Elems(after.events)
      <4>1. Covers(after.cur, E) /\ (Current(after.cur) /\ file.present => after.cur.off <= Size)
        BY <3>2
      <4> HIDE DEF E
      <4>2. after.cur.id = file'.id /\ after.cur.content = file'.content =>
              \A i \in 1..after.cur.off \cap DOMAIN file'.lines :
                \/ file'.lines[i] = "silent" \/ <<file'.content, i>> \in skipped
                \/ \E r \in E : ~r.torn /\ r.of = file'.content /\ r.at = i
        BY <2>1, <4>1
      <4> QED BY <4>2 DEF E
    <3> QED BY <1>2, <1>4, <3>3 DEF Covers, Current, Taken
  <2> QED BY <1>4, <2>2, <2>3, <2>4 DEF CoverOK
<1> QED BY <1>4, <1>9, <1>10, <1>11, <1>12, <1>13, <1>14, <1>15 DEF AInv

(* A new content: everything there is, is of an earlier generation, which  *)
(* is saved.                                                               *)
LEMMA ReplaceKeeps == ASSUME AInv, ~Overtake, Recreate \/ Truncate PROVE AInv'
<1>1. UNCHANGED <<saved, skipped, collectorVars, spool, uploaderVars, faults>>
  BY DEF Recreate, Truncate
<1>2. UNCHANGED <<saved, skipped, pc, live, ident, suspect, buf, due, done, after, spool, job, rows, quarantined, faults>>
  BY <1>1 DEF collectorVars, uploaderVars
<1>3. GenerationIsSaved
  BY DEF Recreate, Truncate
<1>4. /\ file'.content = file.content + 1 /\ file'.present /\ file'.lines = <<>> /\ Size' = 0
      /\ FileTypes' /\ DOMAIN file'.lines = {} /\ file.content < MaxContents
      /\ \/ file'.id = file.id + 1
         \/ file'.id = file.id /\ saved.off > 0
  <2>1. /\ file = [present |-> file.present, id |-> file.id, content |-> file.content, lines |-> file.lines]
    BY DEF AInv, TypesOK, FileTypes
  <2>2. CASE Recreate
    <3>1. file' = [present |-> TRUE, id |-> file.id + 1, content |-> file.content + 1, lines |-> <<>>]
          /\ file.content < MaxContents
      BY <2>2 DEF Recreate, AInv, FilesOK
    <3>2. FileTypes'
      BY <1>2, <3>1 DEF AInv, TypesOK, FileTypes
    <3> QED BY <3>1, <3>2 DEF Size
  <2>3. CASE Truncate
    <3>1. file' = [present |-> TRUE, id |-> file.id, content |-> file.content + 1, lines |-> <<>>]
          /\ file.content < MaxContents /\ saved.off > 0
      <4>1. file.present = TRUE
        BY <2>3 DEF Truncate, AInv, TypesOK, FileTypes
      <4> QED BY <2>1, <2>3, <4>1 DEF Truncate
    <3>2. FileTypes'
      BY <1>2, <3>1 DEF AInv, TypesOK, FileTypes
    <3> QED BY <3>1, <3>2 DEF Size
  <2> QED BY <2>2, <2>3
<1>5. /\ LookTypes' /\ MemoryTypes' /\ StoreTypes' /\ JobOK'
      /\ Spooled' = Spooled /\ All' = All /\ Elems(buf)' = Elems(buf)
      /\ Elems(after.events)' = Elems(after.events)
      /\ (\A k \in DOMAIN buf : k <= done * BatchMax => buf[k] \in Spooled)'
  BY <1>1, FileStepRest
<1>6. saved # NoState /\ (live.id # 0 => pc # "down" /\ live.gen = saved.gen) /\ saved.id # 0
  BY <1>3 DEF GenerationIsSaved, AInv, LiveOK, Nowhere, FilesOK
<1>7. after.then # "absorb" /\ Elems(after.events) = {}
  <2>1. after.then # "absorb"
    BY <1>3, IdlePlans DEF GenerationIsSaved, AInv, LiveOK
  <2>2. after.events = <<>>
    BY <2>1 DEF AInv, AfterOK, TypesOK, MemoryTypes, Plans
  <2> QED BY <2>1, <2>2, ElemsOfNone
<1>8. \A r \in All : r.gen <= saved.gen
  <2>1. \A r \in Elems(buf) : r.gen = saved.gen
    <3>1. live.id = 0 => Elems(buf) = {}
      BY ElemsOfNone DEF AInv, LiveOK
    <3> QED BY <1>6, <3>1 DEF AInv, LiveOK
  <2>2. \A r \in Elems(buf) : r.gen <= saved.gen
    BY <2>1, Numbers
  <2>3. \A r \in Spooled : r.gen <= saved.gen
    BY <1>3 DEF GenerationIsSaved
  <2> QED BY <1>7, <2>2, <2>3 DEF All
<1>9. /\ saved.id <= file.id /\ saved.content <= file.content /\ live.id <= file.id /\ live.content <= file.content
      /\ (live.id # 0 => live.id = saved.id /\ saved.off <= live.off)
  BY <1>6 DEF AInv, FilesOK, Fits, LiveOK
<1>10. ~Current(saved)' /\ ~Current(live)'
  BY <1>2, <1>4, <1>9, Numbers DEF Current
<1>11. Now' = saved.gen + 1
  BY <1>2, <1>6, <1>10 DEF Now, NoState, Nowhere
<1>12. FilesOK'
  <2>1. /\ file.id <= file.content /\ file.content < MaxContents /\ saved.id <= file.id /\ saved.content <= file.content
        /\ live.id <= file.id /\ live.content <= file.content
    BY <1>4, <1>9 DEF AInv, FilesOK
  <2>2. /\ saved.id \in Nat /\ saved.content \in Nat /\ file.id \in Nat /\ file.content \in Nat /\ MaxContents \in Nat
        /\ live.id \in Nat /\ live.content \in Nat
    BY Numbers
  <2>3. file'.content = file.content + 1 /\ (file'.id = file.id + 1 \/ (file'.id = file.id /\ saved.off > 0))
    BY <1>4
  <2> DEFINE id == file'.id
             content == file'.content
             off == saved.off
  <2>4. content = file.content + 1 /\ (id = file.id + 1 \/ (id = file.id /\ off > 0))
    BY <2>3
  <2> HIDE DEF id, content, off
  <2>5. /\ id <= content /\ content <= MaxContents /\ saved.id <= id /\ saved.content <= content
        /\ live.id <= id /\ live.content <= content /\ (saved.id = id => off > 0)
    BY <2>1, <2>2, <2>4
  <2>6. /\ file'.id <= file'.content /\ file'.content <= MaxContents
        /\ saved.id <= file'.id /\ saved.content <= file'.content
        /\ live.id <= file'.id /\ live.content <= file'.content /\ (saved.id = file'.id => saved.off > 0)
    BY <2>5 DEF id, content, off
  <2>7. Fits(saved)'
    BY <1>2, <1>4, <1>10, <2>6 DEF Fits
  <2>8. Fits(live)'
    <3>1. live.id = file'.id => live.off > 0
      <4>1. live.id = file'.id => live.id = saved.id /\ saved.off <= live.off
        <5>1. file'.id # 0
          BY <2>2, <2>3, Numbers
        <5> QED BY <1>9, <5>1
      <4>2. live.off \in Nat /\ saved.off \in Nat
        BY Numbers
      <4> QED BY <2>6, <4>1, <4>2
    <3> QED BY <1>2, <1>4, <1>10, <2>6, <3>1 DEF Fits
  <2> QED BY <1>2, <1>4, <2>6, <2>7, <2>8 DEF AInv, FilesOK, NoState, Nowhere
<1>13. TypesOK'
  BY <1>4, <1>5 DEF TypesOK
<1>14. LiveOK'
  BY <1>2, <1>5, <1>6, <1>10, <1>11 DEF AInv, LiveOK, NoState, Nowhere, ThenPoll
<1>15. AfterOK'
  BY <1>2, <1>7 DEF AInv, AfterOK, Nowhere
<1>16. NamesOK'
  <2>1. ASSUME NEW r \in All PROVE Named(r)'
    <3>1. r \in Event
      <4>1. All \subseteq Event
        BY AllAreEvents DEF AInv
      <4> QED BY <4>1
    <3>2. r.gen \in Nat /\ r.of \in Nat
      BY <3>1 DEF Event
    <3>3. r.gen <= saved.gen /\ r.of <= file.content
      BY <1>8 DEF AInv, NamesOK, Named
    <3>4. r.gen <= Now' /\ r.gen # Now' /\ r.of <= file'.content /\ r.of # file'.content
      <4>1. Now' = saved.gen + 1 /\ file'.content = file.content + 1 /\ saved.gen \in Nat /\ file.content \in Nat
        BY <1>4, <1>11, Numbers
      <4> QED BY <3>2, <3>3, <4>1
    <3> QED BY <3>4 DEF Named
  <2>2. ASSUME NEW r \in All, NEW q \in All PROVE Agree(r, q)'
    BY DEF AInv, NamesOK, Agree
  <2> QED BY <1>5, <2>1, <2>2 DEF NamesOK
<1>17. LookOK'
  <2>1. pc = "look" => live.id # 0
    BY <1>6 DEF AInv, LiveOK
  <2>2. pc = "look" => suspect = Calm /\ \A r \in All : r.gen < live.gen \/ r.at <= live.off
    <3>1. pc = "look" => suspect = Calm /\ \A r \in Spooled : r.gen < live.gen \/ r.at <= live.off
      BY <1>3 DEF GenerationIsSaved
    <3>2. \A r \in Elems(buf) : r.at <= live.off
      BY DEF AInv, LiveOK
    <3> QED BY <1>7, <3>1, <3>2 DEF All
  <2>3. suspect.id <= MaxContents + faults
        /\ (pc = "look" /\ ident > MaxContents => suspect.id < ident /\ ident <= MaxContents + faults)
        /\ (pc = "look" /\ ident <= MaxContents => ident <= file.id)
    BY Numbers DEF AInv, LookOK
  <2>4. ident <= file.id => ident <= file'.id
    BY <1>4, Numbers
  <2> QED BY <1>2, <1>5, <1>6, <2>1, <2>2, <2>3, <2>4 DEF LookOK, NoState, Nowhere, Calm
<1>18. CoverOK'
  BY <1>2, <1>5, <1>7, <1>10 DEF CoverOK, Covers
<1> QED BY <1>5, <1>12, <1>13, <1>14, <1>15, <1>16, <1>17, <1>18 DEF AInv

-----------------------------------------------------------------------------
(* The reads.                                                              *)

(* Events are the same when all that is said of them is. *)
LEMMA SameEvent ==
  ASSUME NEW r \in Event, NEW q \in Event,
         r.gen = q.gen, r.at = q.at, r.of = q.of, r.bad <=> q.bad, r.torn <=> q.torn
  PROVE  r = q
<1>1. r.bad \in BOOLEAN /\ q.bad \in BOOLEAN /\ r.torn \in BOOLEAN /\ q.torn \in BOOLEAN
  BY DEF Event
<1>2. r.bad = q.bad /\ r.torn = q.torn
  BY <1>1
<1> QED BY <1>2 DEF Event

(* Names stay right when events are added that agree with what there is.   *)
LEMMA NewNames ==
  ASSUME NamesOK, file' = file, Now' = Now, NEW N, All' \subseteq All \cup N,
         \A r \in N : Named(r), \A r \in N, q \in All : Agree(r, q), \A r, q \in N : Agree(r, q)
  PROVE  NamesOK'
<1>1. \A r \in All \cup N : Named(r)
  BY DEF NamesOK
<1>2. ASSUME NEW r \in All \cup N, NEW q \in All \cup N PROVE Agree(r, q)
  <2>1. CASE r \in N
    BY <2>1
  <2>2. CASE r \in All /\ q \in All
    BY <2>2 DEF NamesOK
  <2>3. CASE r \in All /\ q \in N
    <3>1. Agree(q, r)
      BY <2>3
    <3> QED BY <3>1 DEF Agree
  <2> QED BY <2>1, <2>2, <2>3
<1>3. \A r : Named(r) => Named(r)'
  BY DEF Named
<1>4. \A r, q : Agree(r, q) => Agree(r, q)'
  BY DEF Agree
<1> QED BY <1>1, <1>2, <1>3, <1>4 DEF NamesOK

(* What is said of an event read. *)
LEMMA ReadFacts ==
  ASSUME NEW gen \in Nat, NEW r, Reads(gen, r), AInv
  PROVE  /\ r \in Event /\ r.gen = gen /\ r.at \in 1..Size /\ From < r.at /\ file.lines[r.at] # "silent"
         /\ r.of = file.content /\ (r.bad <=> file.lines[r.at] = "poison") /\ (r.torn <=> ident # file.id)
<1>1. PICK i \in 1..Size : From < i /\ file.lines[i] # "silent" /\ r = EventAt(i, gen)
  BY DEF Reads
<1>2. i \in Nat /\ file.content \in Nat
  BY Numbers
<1>3. r = [gen |-> gen, at |-> i, of |-> file.content, bad |-> file.lines[i] = "poison", torn |-> ident # file.id]
  BY <1>1 DEF EventAt
<1>4. /\ r.gen = gen /\ r.at = i /\ r.of = file.content /\ r.bad = (file.lines[i] = "poison")
      /\ r.torn = (ident # file.id) /\ r \in Event
  BY <1>2, <1>3 DEF Event
<1> QED BY <1>1, <1>4

(* Whole events of the generation of the file as it is are named right,    *)
(* whatever is there already: the same lines, or lines not read yet.       *)
LEMMA WholeReads ==
  ASSUME AInv, file.present, ident = file.id, NEW gen \in Nat, gen = Now
  PROVE  /\ \A r : Reads(gen, r) => Named(r)
         /\ \A r : Reads(gen, r) => \A q \in All : Agree(r, q)
         /\ \A r, q : Reads(gen, r) /\ Reads(gen, q) => Agree(r, q)
<1>1. ASSUME NEW r, Reads(gen, r) PROVE Named(r)
  <2>1. /\ r.gen = gen /\ r.at \in 1..Size /\ r.of = file.content
        /\ (r.bad <=> file.lines[r.at] = "poison") /\ ~r.torn
    BY <1>1, ReadFacts
  <2>2. r.gen <= Now /\ r.of <= file.content /\ DOMAIN file.lines = 1..Size
    BY <2>1, Numbers
  <2> QED BY <2>1, <2>2 DEF Named
<1>2. ASSUME NEW r, Reads(gen, r), NEW q \in All PROVE Agree(r, q)
  <2>1. /\ r \in Event /\ r.gen = gen /\ r.at \in 1..Size /\ r.of = file.content
        /\ (r.bad <=> file.lines[r.at] = "poison") /\ ~r.torn
    BY <1>2, ReadFacts
  <2>2. q \in Event /\ Named(q)
    BY AllAreEvents DEF AInv, NamesOK
  <2>3. ASSUME q.gen = gen, q.at = r.at PROVE r = q
    <3>1. q.of = file.content /\ ~q.torn
      BY <2>2, <2>3 DEF Named
    <3>2. q.bad <=> file.lines[q.at] = "poison"
      BY <2>2, <3>1 DEF Named
    <3> QED BY <2>1, <2>2, <2>3, <3>1, <3>2, SameEvent
  <2>4. ASSUME ~q.torn, q.of = file.content PROVE q.gen = gen
    BY <2>2, <2>4 DEF Named
  <2> QED BY <2>1, <2>3, <2>4 DEF Agree
<1>3. ASSUME NEW r, Reads(gen, r), NEW q, Reads(gen, q) PROVE Agree(r, q)
  <2>1. /\ r \in Event /\ r.gen = gen /\ r.of = file.content
        /\ (r.bad <=> file.lines[r.at] = "poison") /\ ~r.torn
    BY <1>3, ReadFacts
  <2>2. /\ q \in Event /\ q.gen = gen /\ q.of = file.content
        /\ (q.bad <=> file.lines[q.at] = "poison") /\ ~q.torn
    BY <1>3, ReadFacts
  <2>3. r.at = q.at => r = q
    BY <2>1, <2>2, SameEvent
  <2> QED BY <2>1, <2>2, <2>3 DEF Agree
<1> QED BY <1>1, <1>2, <1>3

(* Torn events are named under the generation before: new names, as every  *)
(* event of that generation is of a line before them.                      *)
LEMMA TornReads ==
  ASSUME AInv, file.present, ident # file.id, NEW gen \in Nat, Now = gen + 1,
         \A q \in All : q.gen < gen \/ q.at <= From
  PROVE  /\ \A r : Reads(gen, r) => Named(r)
         /\ \A r : Reads(gen, r) => \A q \in All : Agree(r, q)
         /\ \A r, q : Reads(gen, r) /\ Reads(gen, q) => Agree(r, q)
<1>1. ASSUME NEW r, Reads(gen, r) PROVE Named(r)
  <2>1. /\ r.gen = gen /\ r.at \in 1..Size /\ r.of = file.content
        /\ (r.bad <=> file.lines[r.at] = "poison") /\ r.torn
    BY <1>1, ReadFacts
  <2>2. r.gen <= Now /\ r.gen # Now /\ r.of <= file.content /\ DOMAIN file.lines = 1..Size
    BY <2>1, Numbers
  <2> QED BY <2>1, <2>2 DEF Named
<1>2. ASSUME NEW r, Reads(gen, r), NEW q \in All PROVE Agree(r, q)
  <2>1. r.gen = gen /\ r.at \in 1..Size /\ From < r.at /\ r.torn
    BY <1>2, ReadFacts
  <2>2. q.gen < gen \/ q.at <= From
    OBVIOUS
  <2>3. q.gen \in Nat /\ q.at \in Nat /\ r.at \in Nat /\ From \in Nat
    <3>1. q \in Event
      BY AllAreEvents DEF AInv
    <3>2. From \in Nat
      BY Numbers DEF From
    <3>3. Size \in Nat
      BY Numbers
    <3>4. r.at \in Nat
      BY <2>1, <3>3
    <3>5. q.gen \in Nat /\ q.at \in Nat
      BY <3>1 DEF Event
    <3> QED BY <3>2, <3>4, <3>5
  <2>4. ~(r.gen = q.gen /\ r.at = q.at)
    BY <2>1, <2>2, <2>3
  <2> QED BY <2>1, <2>4 DEF Agree
<1>3. ASSUME NEW r, Reads(gen, r), NEW q, Reads(gen, q) PROVE Agree(r, q)
  <2>1. /\ r \in Event /\ r.gen = gen /\ r.of = file.content
        /\ (r.bad <=> file.lines[r.at] = "poison") /\ r.torn
    BY <1>3, ReadFacts
  <2>2. /\ q \in Event /\ q.gen = gen /\ q.of = file.content
        /\ (q.bad <=> file.lines[q.at] = "poison") /\ q.torn
    BY <1>3, ReadFacts
  <2>3. r.at = q.at => r = q
    BY <2>1, <2>2, SameEvent
  <2> QED BY <2>1, <2>2, <2>3 DEF Agree
<1> QED BY <1>1, <1>2, <1>3

(* What a look may be taken for. *)
LEMMA Looks ==
  ASSUME AInv, pc = "look"
  PROVE  /\ Discontinuity \in {"none", "rotated", "truncated"}
         /\ Discontinuity = "none" <=> live.id = 0 \/ (live.id = ident /\ live.off <= Size)
         /\ Discontinuity = "rotated" <=> live.id # 0 /\ live.id # ident
         /\ From \in Nat
         /\ done = 0 /\ after.then = "poll" /\ after.events = <<>> /\ after.cur = Nowhere
<1>1. live.id = 0 => ident # 0
  BY Numbers DEF AInv, LookOK
<1>2. live.off \in Nat /\ Size \in Nat
  BY Numbers
<1>3. /\ Discontinuity \in {"none", "rotated", "truncated"}
      /\ Discontinuity = "none" <=> live.id = 0 \/ (live.id = ident /\ live.off <= Size)
      /\ Discontinuity = "rotated" <=> live.id # 0 /\ live.id # ident
  <2>1. CASE live.id = 0
    BY <1>1, <2>1 DEF Discontinuity
  <2>2. CASE live.id # 0 /\ live.id # ident
    BY <2>2 DEF Discontinuity
  <2>3. CASE live.id # 0 /\ live.id = ident
    BY <1>2, <2>3 DEF Discontinuity
  <2> QED BY <2>1, <2>2, <2>3
<1>4. From \in Nat
  BY <1>2 DEF From
<1>5. done = 0 /\ after.then = "poll" /\ after.events = <<>> /\ after.cur = Nowhere
  BY DEF AInv, LiveOK, AfterOK, TypesOK, MemoryTypes, Plans
<1> QED BY <1>3, <1>4, <1>5

(* What a whole read covers: what was covered up to where it began, and    *)
(* every line from there on.                                               *)
LEMMA ReadCovers ==
  ASSUME AInv, pc = "look", ident = file.id, NEW gen \in Nat,
         NEW E, Elems(EventsRead(gen)) \subseteq E,
         From > 0 => Current(live) /\ Spooled \cup Elems(buf) \subseteq E /\ From = live.off
  PROVE  \A i \in DOMAIN file.lines : Taken(i, E)
<1>1. /\ file.lines \in Seq(Kinds) /\ file.content \in Nat /\ From \in Nat /\ Size \in Nat /\ DOMAIN file.lines = 1..Size
  BY Looks, Numbers DEF AInv, TypesOK, FileTypes
<1>2. \A i \in 1..Size : From < i /\ file.lines[i] # "silent" => EventAt(i, gen) \in Elems(EventsRead(gen))
  BY <1>1, EventsReadAre
<1>3. ASSUME NEW i \in DOMAIN file.lines PROVE Taken(i, E)
  <2>1. i \in 1..Size /\ i \in Nat
    BY <1>1
  <2>2. CASE From < i /\ file.lines[i] # "silent"
    <3>1. EventAt(i, gen) \in E
      BY <1>2, <2>1, <2>2
    <3>2. EventAt(i, gen).of = file.content /\ EventAt(i, gen).at = i /\ ~EventAt(i, gen).torn
      BY DEF EventAt
    <3> QED BY <3>1, <3>2 DEF Taken
  <2>3. CASE ~(From < i)
    <3>1. From > 0 /\ i \in 1..From
      BY <1>1, <2>1, <2>3
    <3>2. Taken(i, Spooled \cup Elems(buf))
      BY <3>1 DEF AInv, CoverOK, Covers
    <3> QED BY <3>1, <3>2 DEF Taken
  <2>4. CASE file.lines[i] = "silent"
    BY <2>4 DEF Taken
  <2> QED BY <2>2, <2>3, <2>4
<1> QED BY <1>3

(* What is left alone when a read takes effect. *)
LEMMA ReadRest ==
  ASSUME AInv, pc = "look", pc' \in {"up", "save", "write"}, suspect' = Calm, ident' = 0,
         UNCHANGED <<file, saved, skipped, done, spool, job, rows, quarantined, faults>>
  PROVE  /\ FileTypes' /\ LookTypes' /\ StoreTypes' /\ LookOK' /\ JobOK' /\ Fits(saved)'
         /\ Now' = Now /\ Spooled' = Spooled /\ Covers(saved, Spooled)'
<1>1. Spooled' = Spooled
  BY DEF Spooled, Events
<1>2. LookTypes'
  BY Numbers DEF LookTypes, Calm
<1>3. LookOK'
  BY Numbers DEF LookOK, Calm
<1>4. Fits(saved)' /\ Covers(saved, Spooled)'
  BY <1>1 DEF AInv, FilesOK, CoverOK, Fits, Covers, Taken, Current, Size
<1>5. FileTypes' /\ StoreTypes' /\ JobOK' /\ Now' = Now
  BY FileTypesStay, StoreTypesStay, JobStays, NowStays DEF AInv, TypesOK
<1> QED BY <1>1, <1>2, <1>3, <1>4, <1>5

(* A read takes effect: a cursor of the content as it is, and events of its *)
(* generation.                                                             *)
LEMMA ReadTaken ==
  ASSUME AInv, pc = "look", pc' \in {"up", "save", "write"}, pc' = "save" => buf' = <<>>,
         suspect' = Calm, ident' = 0,
         UNCHANGED <<file, saved, skipped, done, after, spool, job, rows, quarantined, faults>>,
         live' \in Cursor, live'.id # 0, live'.id <= file.id, live'.content = file.content, live'.off = Size,
         buf' \in Seq(Event), \A r \in Elems(buf)' : r.gen = live'.gen /\ r.at <= Size,
         NamesOK', Covers(live, Spooled \cup Elems(buf))',
         Now = IF Current(live)' THEN live'.gen ELSE live'.gen + 1,
         saved # NoState /\ live'.gen = saved.gen => live'.id = saved.id /\ saved.off <= Size
  PROVE  AInv'
<1>1. /\ FileTypes' /\ LookTypes' /\ StoreTypes' /\ LookOK' /\ JobOK' /\ Fits(saved)'
      /\ Now' = Now /\ Spooled' = Spooled /\ Covers(saved, Spooled)'
  BY ReadRest
<1>2. done = 0 /\ after.then = "poll" /\ after.events = <<>> /\ after.cur = Nowhere
  BY Looks
<1>3. TypesOK'
  <2>1. MemoryTypes'
    BY DEF AInv, TypesOK, MemoryTypes
  <2> QED BY <1>1, <2>1 DEF TypesOK
<1>4. FilesOK'
  <2>1. Fits(live)'
    <3>1. file.content \in Nat /\ Size \in Nat /\ Size' = Size
      BY Numbers DEF Size
    <3> QED BY <3>1 DEF Fits
  <2> QED BY <1>1, <2>1 DEF AInv, FilesOK, NoState, Nowhere
<1>5. LiveOK'
  BY <1>1, <1>2 DEF LiveOK, NoState, Nowhere
<1>6. AfterOK'
  BY <1>2 DEF AfterOK, Nowhere
<1>7. CoverOK'
  <2>1. \A k \in DOMAIN buf' : k <= done' * BatchMax => buf'[k] \in Spooled'
    <3>1. done' * BatchMax = 0
      BY <1>2, AgentAssumption
    <3>2. DOMAIN buf' = 1..Len(buf') /\ Len(buf') \in Nat
      OBVIOUS
    <3> QED BY <3>1, <3>2
  <2> QED BY <1>1, <1>2, <2>1 DEF CoverOK
<1> QED BY <1>1, <1>3, <1>4, <1>5, <1>6, <1>7 DEF AInv

(* A read goes on from the cursor, or is torn.  A poll that saw the        *)
(* identity of its cursor and then read another file goes on as if it had  *)
(* read on: the file that was there is gone, and everything of it that the *)
(* cursor passed was read.                                                 *)
LEMMA ReadOnKeeps == ASSUME AInv, ReadOn PROVE AInv'
<1> DEFINE gen == live.gen
           new == EventsRead(gen)
<1>1. /\ UNCHANGED <<file, saved, skipped, done, after, spool, job, rows, quarantined, faults>>
      /\ pc = "look" /\ file.present /\ suspect' = Calm /\ ident' = 0
      /\ live' = [id |-> ident, content |-> file.content, off |-> Size, gen |-> gen]
      /\ buf' = buf \o new
      /\ pc' = IF buf' = <<>> THEN "save" ELSE FlushOrRest(buf')
  BY DEF ReadOn, Absorb, Result, uploaderVars
<1>2. /\ From \in Nat /\ From = live.off /\ done = 0 /\ after.then = "poll" /\ after.events = <<>> /\ after.cur = Nowhere
      /\ live.id = 0 \/ (live.id = ident /\ live.off <= Size)
  BY <1>1, Looks DEF ReadOn, From
<1>3. gen \in Nat /\ file.content \in Nat /\ Size \in Nat /\ ident \in Nat /\ live.off \in Nat /\ file.lines \in Seq(Kinds)
  BY Numbers DEF AInv, TypesOK, FileTypes
<1>4. new \in Seq(Event) /\ \A r \in Elems(new) : Reads(gen, r)
  <2> HIDE DEF gen
  <2>1. EventsRead(gen) \in Seq(Event) /\ \A r \in Elems(EventsRead(gen)) : Reads(gen, r)
    BY <1>2, <1>3, EventsReadAre
  <2> QED BY <2>1
<1>5. \A r \in Elems(new) : r.gen = gen /\ r.at \in 1..Size
  <2> HIDE DEF gen, new
  <2> QED BY <1>3, <1>4, ReadFacts
<1> HIDE DEF new
<1>6. buf' \in Seq(Event) /\ Elems(buf)' = Elems(buf) \cup Elems(new)
  <2>1. buf \in Seq(Event)
    BY DEF AInv, TypesOK, MemoryTypes
  <2>2. buf \o new \in Seq(Event) /\ Elems(buf \o new) = Elems(buf) \cup Elems(new)
    BY <1>4, <2>1, ElemsOfConcat
  <2> QED BY <1>1, <2>2 DEF Elems
<1>7. pc' \in {"up", "save", "write"} /\ (pc' = "save" => buf' = <<>>)
  BY <1>1 DEF FlushOrRest
<1>8. /\ FileTypes' /\ LookTypes' /\ StoreTypes' /\ LookOK' /\ JobOK' /\ Fits(saved)'
      /\ Now' = Now /\ Spooled' = Spooled /\ Covers(saved, Spooled)'
  BY <1>1, <1>7, ReadRest
<1>9. /\ live' \in Cursor /\ live'.id = ident /\ live'.content = file.content /\ live'.off = Size /\ live'.gen = live.gen
      /\ ident # 0 /\ ident <= file.id /\ Size' = Size
  <2>1. ident # 0 /\ ident <= file.id
    <3>1. live.id = 0 => ident = file.id
      BY <1>1 DEF AInv, LookOK
    <3> QED BY <1>2, <3>1, Numbers
  <2> QED BY <1>1, <1>3, <2>1 DEF Cursor, Size
<1>10. Elems(after.events)' = {} /\ Elems(after.events) = {}
  BY <1>1, <1>2 DEF Elems
<1>11. All' \subseteq All \cup Elems(new)
  BY <1>6, <1>8, <1>10 DEF All
<1>12. ASSUME ident = file.id
       PROVE  /\ NamesOK' /\ Covers(live, Spooled \cup Elems(buf))'
              /\ Now = IF Current(live)' THEN live'.gen ELSE live'.gen + 1
              /\ (saved # NoState /\ live'.gen = saved.gen => live'.id = saved.id /\ saved.off <= Size)
  <2>1. Now = gen /\ (live.id # 0 => Current(live))
    <3>1. CASE live.id = 0
      BY <1>1, <3>1 DEF AInv, LiveOK, Now, Nowhere
    <3>2. CASE live.id # 0
      <4>1. live.id = file.id /\ live.off <= Size
        BY <1>2, <1>12, <3>2
      <4>2. Current(live)
        <5>1. live.id = file.id /\ live.content # file.content => Size < live.off
          BY DEF AInv, FilesOK, Fits
        <5> QED BY <1>3, <4>1, <5>1 DEF Current
      <4> QED BY <3>2, <4>2 DEF AInv, LiveOK
    <3> QED BY <3>1, <3>2
  <2>2. NamesOK'
    <3> HIDE DEF gen
    <3>1. /\ \A r \in Elems(new) : Named(r)
          /\ \A r \in Elems(new), q \in All : Agree(r, q)
          /\ \A r, q \in Elems(new) : Agree(r, q)
      BY <1>1, <1>3, <1>4, <1>12, <2>1, WholeReads
    <3> QED BY <1>1, <1>8, <1>11, <3>1, NewNames DEF AInv
  <2>3. Current(live)'
    BY <1>1, <1>9, <1>12 DEF Current
  <2>4. Covers(live, Spooled \cup Elems(buf))'
    <3> DEFINE E == Spooled \cup Elems(buf) \cup Elems(new)
    <3>1. \A i \in DOMAIN file.lines : Taken(i, E)
      <4>1. From > 0 => live.id # 0
        BY <1>2 DEF AInv, LiveOK, Nowhere
      <4>2. Elems(EventsRead(gen)) \subseteq E /\ Spooled \cup Elems(buf) \subseteq E
        BY DEF new
      <4> HIDE DEF E, gen
      <4> QED BY <1>1, <1>2, <1>3, <1>12, <2>1, <4>1, <4>2, ReadCovers
    <3>2. (Spooled \cup Elems(buf))' = E
      BY <1>6, <1>8
    <3> HIDE DEF E
    <3> QED BY <1>1, <3>1, <3>2 DEF Covers, Taken
  <2>5. saved # NoState /\ live'.gen = saved.gen => live'.id = saved.id /\ saved.off <= Size
    <3>1. SUFFICES ASSUME saved # NoState, live.gen = saved.gen PROVE file.id = saved.id /\ saved.off <= Size
      BY <1>1, <1>9, <1>12
    <3>2. live.id # 0
      BY <1>1, <3>1 DEF AInv, LiveOK
    <3>3. live.id = saved.id /\ saved.off <= live.off
      BY <3>1, <3>2 DEF AInv, LiveOK
    <3> QED BY <1>2, <1>12, <3>2, <3>3, Numbers
  <2> QED BY <1>9, <2>1, <2>2, <2>3, <2>4, <2>5
<1>13. ASSUME ident # file.id
       PROVE  /\ NamesOK' /\ Covers(live, Spooled \cup Elems(buf))'
              /\ Now = IF Current(live)' THEN live'.gen ELSE live'.gen + 1
              /\ (saved # NoState /\ live'.gen = saved.gen => live'.id = saved.id /\ saved.off <= Size)
  <2>1. live.id = ident /\ live.id # 0 /\ live.off <= Size
    <3>1. live.id = 0 => ident = file.id
      BY <1>1 DEF AInv, LookOK
    <3> QED BY <1>2, <1>13, <3>1
  <2>2. saved # NoState /\ live.gen = saved.gen /\ \A r \in All : r.gen < live.gen \/ r.at <= live.off
    BY <1>1, <1>13, <2>1 DEF AInv, LookOK
  <2>3. ~Current(live) /\ Now = gen + 1
    <3>1. ~Current(live)
      BY <1>13, <2>1 DEF Current
    <3> QED BY <2>1, <3>1 DEF AInv, LiveOK
  <2>4. NamesOK'
    <3>1. \A q \in All : q.gen < gen \/ q.at <= From
      BY <1>2, <2>2
    <3> HIDE DEF gen
    <3>2. /\ \A r \in Elems(new) : Named(r)
          /\ \A r \in Elems(new), q \in All : Agree(r, q)
          /\ \A r, q \in Elems(new) : Agree(r, q)
      BY <1>1, <1>3, <1>4, <1>13, <2>3, <3>1, TornReads
    <3> QED BY <1>1, <1>8, <1>11, <3>2, NewNames DEF AInv
  <2>5. ~Current(live)'
    BY <1>1, <1>9, <1>13 DEF Current
  <2>6. Covers(live, Spooled \cup Elems(buf))'
    BY <2>5 DEF Covers
  <2>7. saved # NoState /\ live'.gen = saved.gen => live'.id = saved.id /\ saved.off <= Size
    <3>1. live.id = saved.id /\ saved.off <= live.off
      BY <2>1, <2>2 DEF AInv, LiveOK
    <3> QED BY <1>1, <1>9, <2>1, <3>1, Numbers
  <2> QED BY <1>9, <2>3, <2>4, <2>5, <2>6, <2>7
<1>14. \A r \in Elems(buf)' : r.gen = live'.gen /\ r.at <= Size
  <2>1. \A r \in Elems(buf) : r.gen = live.gen /\ r.at <= Size
    <3>1. live.off <= Size
      BY <1>2, <1>3 DEF AInv, LiveOK, Nowhere
    <3>2. ASSUME NEW r \in Elems(buf) PROVE r.gen = live.gen /\ r.at <= Size
      <4>1. r \in Event
        BY AllAreEvents DEF AInv, All
      <4>2. r.at \in Nat /\ r.gen = live.gen /\ r.at <= live.off
        BY <4>1 DEF Event, AInv, LiveOK
      <4> QED BY <1>3, <3>1, <4>2
    <3> QED BY <3>2
  <2>2. \A r \in Elems(new) : r.gen = live.gen /\ r.at <= Size
    BY <1>3, <1>5
  <2> QED BY <1>6, <1>9, <2>1, <2>2
<1> HIDE DEF gen
<1> QED BY <1>1, <1>6, <1>7, <1>9, <1>12, <1>13, <1>14, ReadTaken

(* What a confirmation knows: a discontinuity seen twice is of the file as *)
(* it is, since a misread identity is new every time.                      *)
LEMMA Confirmed ==
  ASSUME AInv, pc = "look", file.present, Confirms
  PROVE  ident = file.id /\ live.id # 0 /\ ~Current(live) /\ Now = live.gen + 1 /\ From = 0
<1>1. Discontinuity # "none" /\ suspect = Sighting /\ live.id # 0
  BY Looks DEF Confirms
<1>2. suspect.kind # "none" /\ suspect.id = IF Discontinuity = "rotated" THEN ident ELSE 0
  BY <1>1 DEF Sighting
<1>3. suspect # Calm
  BY <1>2 DEF Calm
<1>4. ident = file.id
  <2>1. ident <= MaxContents => ident = file.id
    BY <1>3 DEF AInv, LookOK
  <2>2. ident > MaxContents => FALSE
    <3>1. SUFFICES ASSUME ident > MaxContents PROVE FALSE
      OBVIOUS
    <3>2. suspect.id < ident
      BY <3>1 DEF AInv, LookOK
    <3>3. Discontinuity = "rotated"
      BY <1>1, <3>1, Looks, Numbers
    <3> QED BY <1>2, <3>2, <3>3, Numbers
  <2> QED BY <2>1, <2>2, Numbers
<1>5. ~Current(live)
  <2>1. SUFFICES ASSUME Current(live) PROVE FALSE
    OBVIOUS
  <2>2. live.id = ident /\ live.off <= Size
    BY <1>4, <2>1 DEF AInv, FilesOK, Fits, Current
  <2> QED BY <1>1, <2>2, Looks
<1> QED BY <1>1, <1>4, <1>5 DEF AInv, LiveOK, From

(* The second sighting: at once, or when what is buffered is spooled. *)
LEMMA ConfirmKeeps == ASSUME AInv, Confirm PROVE AInv'
<1> DEFINE gen == live.gen + 1
           new == EventsRead(gen)
           cur == [id |-> ident, content |-> file.content, off |-> Size, gen |-> gen]
<1>1. /\ UNCHANGED <<file, saved, skipped, done, spool, job, rows, quarantined, faults>>
      /\ pc = "look" /\ file.present /\ Confirms /\ suspect' = Calm /\ ident' = 0
      /\ IF buf = <<>>
         THEN Absorb(cur, new, <<>>) /\ UNCHANGED <<due, after>>
         ELSE /\ pc' = "write" /\ after' = [then |-> "absorb", cur |-> cur, events |-> new]
              /\ UNCHANGED <<live, buf, due>>
  BY DEF Confirm, Result, NextGeneration, uploaderVars
<1>2. ident = file.id /\ live.id # 0 /\ ~Current(live) /\ Now = gen /\ From = 0
  BY <1>1, Confirmed
<1>3. /\ gen \in Nat /\ file.content \in Nat /\ Size \in Nat /\ file.id \in Nat /\ file.id # 0
      /\ file.lines \in Seq(Kinds) /\ Size' = Size
  BY <1>1, Numbers DEF AInv, TypesOK, FileTypes, Size
<1> HIDE DEF gen
<1>4. new \in Seq(Event) /\ \A r \in Elems(new) : Reads(gen, r)
  BY <1>2, <1>3, EventsReadAre
<1>5. \A r \in Elems(new) : r.gen = gen /\ r.at \in 1..Size
  <2> HIDE DEF new
  <2> QED BY <1>3, <1>4, ReadFacts
<1>6. \A i \in DOMAIN file.lines : Taken(i, Elems(new))
  BY <1>1, <1>2, <1>3, ReadCovers
<1> HIDE DEF new
<1>7. /\ \A r \in Elems(new) : Named(r)
      /\ \A r \in Elems(new), q \in All : Agree(r, q)
      /\ \A r, q \in Elems(new) : Agree(r, q)
  BY <1>1, <1>2, <1>3, <1>4, WholeReads
<1>8. cur \in Cursor /\ cur.id = file.id /\ cur.content = file.content /\ cur.off = Size /\ cur.gen = gen
  BY <1>2, <1>3 DEF Cursor
<1> HIDE DEF cur
<1>9. done = 0 /\ after.then = "poll" /\ after.events = <<>> /\ after.cur = Nowhere
  BY <1>1, Looks
<1>10. CASE buf = <<>>
  <2>1. /\ live' = cur /\ buf' = new /\ pc' \in {"up", "save", "write"} /\ (pc' = "save" => buf' = <<>>)
        /\ after' = after
    <3>1. <<>> \o new = new
      BY <1>4, ConcatEmptySeq
    <3>2. live' = cur /\ buf' = new /\ after' = after /\ pc' = IF buf' = <<>> THEN "save" ELSE FlushOrRest(buf')
      BY <1>1, <1>10, <3>1 DEF Absorb
    <3> QED BY <3>2 DEF FlushOrRest
  <2>2. /\ FileTypes' /\ LookTypes' /\ StoreTypes' /\ LookOK' /\ JobOK' /\ Fits(saved)'
        /\ Now' = Now /\ Spooled' = Spooled /\ Covers(saved, Spooled)'
    BY <1>1, <2>1, ReadRest
  <2>3. Elems(buf)' = Elems(new) /\ Elems(after.events)' = Elems(after.events)
    BY <2>1 DEF Elems
  <2>4. NamesOK'
    <3>1. All' \subseteq All \cup Elems(new)
      BY <2>2, <2>3 DEF All
    <3> QED BY <1>1, <1>7, <2>2, <3>1, NewNames DEF AInv
  <2>5. Current(live)' /\ Now = live'.gen
    BY <1>1, <1>2, <1>8, <2>1 DEF Current
  <2>6. Covers(live, Spooled \cup Elems(buf))'
    BY <1>1, <1>6, <2>3 DEF Covers, Taken
  <2>7. saved # NoState /\ live'.gen = saved.gen => live'.id = saved.id /\ saved.off <= Size
    <3>1. SUFFICES ASSUME saved # NoState, saved.gen = gen PROVE file.id = saved.id /\ saved.off <= Size
      BY <1>8, <2>1
    <3>2. Current(saved)
      BY <1>2, <3>1, Numbers DEF Now
    <3> QED BY <1>1, <3>2 DEF AInv, FilesOK, Fits, Current
  <2>8. live' \in Cursor /\ live'.id # 0 /\ live'.id <= file.id /\ live'.content = file.content /\ live'.off = Size
    BY <1>3, <1>8, <2>1
  <2>9. \A r \in Elems(buf)' : r.gen = live'.gen /\ r.at <= Size
    BY <1>3, <1>5, <1>8, <2>1, <2>3
  <2>10. buf' \in Seq(Event)
    BY <1>4, <2>1
  <2> QED BY <1>1, <2>1, <2>4, <2>5, <2>6, <2>7, <2>8, <2>9, <2>10, ReadTaken
<1>11. CASE buf # <<>>
  <2>1. pc' = "write" /\ UNCHANGED <<live, buf>> /\ after' = [then |-> "absorb", cur |-> cur, events |-> new]
    BY <1>1, <1>11
  <2>2. after' \in Plans /\ after'.then = "absorb" /\ after'.cur = cur /\ after'.events = new
    BY <1>4, <1>8, <2>1 DEF Plans
  <2>3. /\ FileTypes' /\ LookTypes' /\ StoreTypes' /\ LookOK' /\ JobOK' /\ Fits(saved)'
        /\ Now' = Now /\ Spooled' = Spooled /\ Covers(saved, Spooled)'
    BY <1>1, <2>1, ReadRest
  <2>4. Elems(buf)' = Elems(buf) /\ Elems(after.events)' = Elems(new)
    BY <2>1, <2>2 DEF Elems
  <2>5. TypesOK'
    <3>1. MemoryTypes'
      BY <1>1, <2>1, <2>2 DEF AInv, TypesOK, MemoryTypes
    <3> QED BY <2>3, <3>1 DEF TypesOK
  <2>6. FilesOK'
    BY <1>1, <2>1 DEF AInv, FilesOK, Fits, Current, Size, NoState, Nowhere
  <2>7. LiveOK'
    <3>1. Current(live)' <=> Current(live)
      BY <1>1, <2>1 DEF Current
    <3> QED BY <1>1, <1>2, <2>1, <2>3, <2>4, <3>1 DEF AInv, LiveOK, NoState, Nowhere
  <2>8. AfterOK'
    <3>1. Current(cur) /\ cur.gen = live.gen + 1 /\ cur.off <= Size
      BY <1>3, <1>8 DEF Current, gen
    <3>2. \A r \in Elems(new) : r.gen = cur.gen /\ r.at <= cur.off
      BY <1>3, <1>5, <1>8
    <3> QED BY <1>1, <1>2, <1>3, <2>1, <2>2, <2>4, <3>1, <3>2 DEF AfterOK, Current
  <2>9. NamesOK'
    <3>1. All' \subseteq All \cup Elems(new)
      BY <2>3, <2>4 DEF All
    <3> QED BY <1>1, <1>7, <2>3, <3>1, NewNames DEF AInv
  <2>10. CoverOK'
    <3>1. Covers(live, Spooled \cup Elems(buf))'
      BY <1>1, <2>1, <2>3, <2>4 DEF AInv, CoverOK, Covers, Taken, Current
    <3>2. Covers(after.cur, Elems(after.events))'
      BY <1>1, <1>6, <2>4 DEF Covers, Taken
    <3>3. (\A k \in DOMAIN buf : k <= done * BatchMax => buf[k] \in Spooled)'
      BY <1>1, <2>1, <2>3 DEF AInv, CoverOK
    <3> QED BY <2>3, <3>1, <3>2, <3>3 DEF CoverOK
  <2> QED BY <2>3, <2>5, <2>6, <2>7, <2>8, <2>9, <2>10 DEF AInv
<1> QED BY <1>10, <1>11

-----------------------------------------------------------------------------
(* The uploader.                                                           *)

(* A step of the uploader moves events between the spool, the server and   *)
(* the quarantine; nothing else depends on where they are.                 *)
LEMMA UploaderMoves ==
  ASSUME AInv, UNCHANGED <<file, saved, skipped, collectorVars>>, faults' \in {faults, faults + 1},
         Spooled' = Spooled, StoreTypes', JobOK'
  PROVE  AInv'
<1>1. UNCHANGED <<file, saved, skipped, pc, live, ident, suspect, buf, due, done, after>>
  BY DEF collectorVars
<1>2. Elems(buf)' = Elems(buf) /\ Elems(after.events)' = Elems(after.events) /\ Now' = Now
  BY <1>1, NowStays DEF Elems
<1>3. All' = All
  BY <1>2 DEF All
<1>4. TypesOK'
  BY <1>1, FileTypesStay, MemoryTypesStay, Numbers DEF AInv, TypesOK, LookTypes
<1>5. FilesOK'
  BY <1>1 DEF AInv, FilesOK, Fits, Current, Size, NoState, Nowhere
<1>6. LiveOK'
  BY <1>1, <1>2 DEF AInv, LiveOK, Current, NoState, Nowhere, ThenPoll
<1>7. AfterOK'
  BY <1>1, <1>2 DEF AInv, AfterOK, Current, Size, Nowhere
<1>8. NamesOK'
  BY <1>1, <1>2, <1>3, NamesStay DEF AInv
<1>9. LookOK'
  <2>1. suspect.id <= MaxContents + faults' /\ (ident <= MaxContents + faults => ident <= MaxContents + faults')
    BY Numbers
  <2> QED BY <1>1, <1>3, <2>1 DEF AInv, LookOK, NoState, Nowhere, Calm
<1>10. CoverOK'
  <2>1. Covers(saved, Spooled)' /\ Covers(live, Spooled \cup Elems(buf))'
    BY <1>1, <1>2 DEF AInv, CoverOK, Covers, Taken, Current
  <2>2. (after.then = "absorb" => Covers(after.cur, Elems(after.events)))'
    BY <1>1, <1>2 DEF AInv, CoverOK, Covers, Taken, Current
  <2>3. (\A k \in DOMAIN buf : k <= done * BatchMax => buf[k] \in Spooled)'
    BY <1>1 DEF AInv, CoverOK
  <2> QED BY <2>1, <2>2, <2>3 DEF CoverOK
<1> QED BY <1>4, <1>5, <1>6, <1>7, <1>8, <1>9, <1>10 DEF AInv

(* The batches hold events. *)
LEMMA BatchesHoldEvents ==
  ASSUME TypesOK, NEW b \in spool
  PROVE  b.events \in Seq(Event) /\ Events(b) = Elems(b.events) /\ Events(b) \subseteq Event /\ Events(b) \subseteq Spooled
<1>1. b.events \in Seq(Event) /\ Events(b) = Elems(b.events)
  BY DEF TypesOK, StoreTypes, Events, Elems
<1>2. Events(b) \subseteq Event
  BY <1>1, ElemsIn
<1> QED BY <1>1, <1>2 DEF Spooled

(* What is spooled stays the same when the spool does, and what is stored  *)
(* or put aside comes out of it.                                           *)
LEMMA SpooledStays ==
  ASSUME spool' = spool, rows \subseteq rows', quarantined \subseteq quarantined',
         rows' \subseteq Spooled, quarantined' \subseteq Spooled
  PROVE  Spooled' = Spooled
<1>1. (UNION {Events(b) : b \in spool})' = UNION {Events(b) : b \in spool}
  BY DEF Events
<1> QED BY <1>1 DEF Spooled

(* A job is of the batch it was picked for; it is opaque but for its parts. *)
LEMMA JobParts ==
  ASSUME AInv, job # NoJob
  PROVE  /\ job = [batch |-> job.batch, todo |-> job.todo, bad |-> job.bad, left |-> job.left, used |-> job.used]
         /\ job.batch \in spool /\ job.todo \in Seq(Seq(Event)) /\ job.bad \subseteq Event
         /\ job.left \in BOOLEAN /\ job.used \in Nat
         /\ Todo \subseteq Events(job.batch) /\ job.bad \subseteq Events(job.batch)
         /\ (~job.left => Events(job.batch) \subseteq rows \cup quarantined \cup job.bad \cup Todo)
         /\ Events(job.batch) \subseteq Spooled /\ Events(job.batch) \subseteq Event
<1>1. job.batch \in spool
  BY DEF AInv, JobOK
<1>2. job \in [batch : spool, todo : Seq(Seq(Event)), bad : SUBSET Event, left : BOOLEAN, used : Nat]
  BY DEF AInv, JobOK
<1>3. /\ job = [batch |-> job.batch, todo |-> job.todo, bad |-> job.bad, left |-> job.left, used |-> job.used]
      /\ job.todo \in Seq(Seq(Event)) /\ job.bad \subseteq Event /\ job.left \in BOOLEAN /\ job.used \in Nat
  BY <1>2
<1>4. Events(job.batch) \subseteq Spooled /\ Events(job.batch) \subseteq Event
  BY <1>1, BatchesHoldEvents DEF AInv
<1> QED BY <1>1, <1>3, <1>4 DEF AInv, JobOK

(* A batch is picked, whole or in halves. *)
LEMMA PickKeeps == ASSUME AInv, Pick PROVE AInv' /\ Spooled' = Spooled
<1>1. UNCHANGED <<file, saved, skipped, collectorVars, spool, rows, quarantined, faults>>
  BY DEF Pick
<1>2. PICK b \in spool, whole \in BOOLEAN :
        job' = [NoJob EXCEPT !.batch = b, !.todo = IF whole THEN <<b.events>> ELSE Half(b.events)]
  BY DEF Pick
<1>3. b.events \in Seq(Event) /\ Events(b) = Elems(b.events)
  BY BatchesHoldEvents DEF AInv
<1> DEFINE todo == IF whole THEN <<b.events>> ELSE Half(b.events)
<1>4. todo \in Seq(Seq(Event)) /\ Flat(todo) = Elems(b.events)
  <2>1. CASE whole
    <3> DEFINE e == b.events
    <3>1. e \in Seq(Event)
      BY <1>3
    <3> HIDE DEF e
    <3>2. <<e>> \in Seq(Seq(Event)) /\ DOMAIN <<e>> = {1} /\ <<e>>[1] = e
      BY <3>1
    <3>3. Flat(<<e>>) = Elems(e)
      BY <3>2 DEF Flat
    <3>4. todo = <<e>>
      BY <2>1 DEF e
    <3> HIDE DEF todo
    <3> QED BY <3>2, <3>3, <3>4 DEF e
  <2>2. CASE ~whole
    <3> DEFINE h == Half(b.events)
    <3>1. h \in Seq(Seq(Event)) /\ Len(h) = 2 /\ Elems(h[1]) \cup Elems(h[2]) = Elems(b.events)
      BY <1>3, ElemsOfHalves
    <3>2. todo = h
      BY <2>2
    <3> HIDE DEF h, todo
    <3>3. DOMAIN h = {1, 2}
      BY <3>1
    <3>4. Flat(h) = Elems(h[1]) \cup Elems(h[2])
      BY <3>3 DEF Flat
    <3> QED BY <3>1, <3>2, <3>4
  <2> QED BY <2>1, <2>2
<1>5. job' = [batch |-> b, todo |-> todo, bad |-> {}, left |-> FALSE, used |-> 0]
  BY <1>2 DEF NoJob
<1> HIDE DEF todo
<1>6. job'.batch = b /\ job'.todo = todo /\ job'.bad = {}
  BY <1>5
<1>7. Todo' = Events(b) /\ Events(job.batch)' = Events(b)
  <2>1. Todo' = Flat(todo)
    BY <1>6 DEF Todo, Flat, Elems
  <2>2. Events(job.batch)' = Events(b)
    BY <1>6 DEF Events
  <2> QED BY <1>3, <1>4, <2>1, <2>2
<1>8. JobOK'
  <2>1. job' \in [batch : spool, todo : Seq(Seq(Event)), bad : SUBSET Event, left : BOOLEAN, used : Nat]
    BY <1>4, <1>5
  <2> QED BY <1>1, <1>6, <1>7, <2>1 DEF JobOK
<1>9. Spooled' = Spooled /\ StoreTypes'
  BY <1>1, StoreTypesStay DEF AInv, TypesOK, Spooled, Events
<1> QED BY <1>1, <1>8, <1>9, UploaderMoves

(* The request that is sent next, and the rest of them. *)
LEMMA NextRequest ==
  ASSUME AInv, Sending
  PROVE  /\ job # NoJob /\ Head1 \in Seq(Event) /\ Tail(job.todo) \in Seq(Seq(Event))
         /\ Todo = Elems(Head1) \cup Flat(Tail(job.todo))
         /\ Half(Head1) \o Tail(job.todo) \in Seq(Seq(Event))
         /\ Flat(Half(Head1) \o Tail(job.todo)) = Todo
<1>1. job # NoJob
  BY DEF Sending, NoJob
<1>2. job.todo \in Seq(Seq(Event)) /\ job.todo # <<>>
  BY <1>1, JobParts DEF Sending
<1> DEFINE q == job.todo
<1>3. q \in Seq(Seq(Event)) /\ q # <<>>
  BY <1>2
<1> HIDE DEF q
<1>4. /\ q[1] \in Seq(Event) /\ Tail(q) \in Seq(Seq(Event))
      /\ Flat(q) = Elems(q[1]) \cup Flat(Tail(q))
      /\ Half(q[1]) \o Tail(q) \in Seq(Seq(Event))
      /\ Flat(Half(q[1]) \o Tail(q)) = Flat(q)
  BY <1>3, ElemsOfTodo
<1>5. Head1 = q[1] /\ Tail(job.todo) = Tail(q) /\ Todo = Flat(q)
  BY DEF Head1, Todo, q
<1> QED BY <1>1, <1>4, <1>5

(* The batch and its requests after a step: it is the same batch, nothing  *)
(* is to be sent that was not, and what is accounted for stays so.         *)
LEMMA JobGoesOn ==
  ASSUME AInv, job # NoJob, spool' = spool, rows \subseteq rows', quarantined \subseteq quarantined',
         NEW todo \in Seq(Seq(Event)), NEW bad \in SUBSET Event, NEW left \in BOOLEAN, NEW used \in Nat,
         job' = [batch |-> job.batch, todo |-> todo, bad |-> bad, left |-> left, used |-> used],
         NEW T, T = Flat(todo), T \subseteq Events(job.batch),
         bad \subseteq Events(job.batch),
         left = FALSE => Events(job.batch) \subseteq rows' \cup quarantined' \cup bad \cup T
  PROVE  JobOK'
<1>1. job.batch \in spool
  BY JobParts
<1>2. job' \in [batch : spool, todo : Seq(Seq(Event)), bad : SUBSET Event, left : BOOLEAN, used : Nat]
  BY <1>1
<1>3. job'.batch = job.batch /\ job'.todo = todo /\ job'.bad = bad /\ job'.left = left
  OBVIOUS
<1>4. Todo' = T /\ Events(job.batch)' = Events(job.batch)
  <2>1. Todo' = T
    BY <1>3 DEF Todo, Flat, Elems
  <2>2. Events(job.batch)' = Events(job.batch)
    BY <1>3 DEF Events
  <2> QED BY <2>1, <2>2
<1>5. ~left => left = FALSE
  OBVIOUS
<1> QED BY <1>2, <1>3, <1>4, <1>5 DEF JobOK

(* What a request stores: its events, or events that are stored already.   *)
LEMMA InsertStores ==
  ASSUME AInv, Sending, Insert(Head1)
  PROVE  /\ rows \subseteq rows' /\ rows' \subseteq rows \cup Elems(Head1) /\ Elems(Head1) \subseteq rows'
<1>1. /\ rows' = rows \cup {Head1[k] : k \in {n \in DOMAIN Head1 :
             \A r \in rows : r.gen # Head1[n].gen \/ r.at # Head1[n].at}}
  BY DEF Insert
<1>2. rows' \subseteq rows \cup Elems(Head1) /\ rows \subseteq rows'
  BY <1>1 DEF Elems
<1>3. ASSUME NEW k \in DOMAIN Head1 PROVE Head1[k] \in rows'
  <2>1. CASE \A r \in rows : r.gen # Head1[k].gen \/ r.at # Head1[k].at
    BY <1>1, <2>1
  <2>2. CASE ~(\A r \in rows : r.gen # Head1[k].gen \/ r.at # Head1[k].at)
    <3>1. PICK r \in rows : r.gen = Head1[k].gen /\ r.at = Head1[k].at
      BY <2>2
    <3>2. Head1[k] \in All /\ r \in All
      <4>1. Head1[k] \in Elems(Head1)
        BY DEF Elems
      <4>2. Elems(Head1) \subseteq Spooled
        BY NextRequest, JobParts
      <4> QED BY <4>1, <4>2, <3>1 DEF All, Spooled
    <3>3. Agree(r, Head1[k])
      BY <3>2 DEF AInv, NamesOK
    <3>4. r = Head1[k]
      BY <3>1, <3>3 DEF Agree
    <3> QED BY <1>2, <3>1, <3>4
  <2> QED BY <2>1, <2>2
<1>4. Elems(Head1) \subseteq rows'
  BY <1>3 DEF Elems
<1> QED BY <1>2, <1>4

(* A request that is passed over, stored, refused or not answered. *)
LEMMA RequestKeeps == ASSUME AInv, SkipRequest \/ Accepted \/ Rejected \/ NoAnswer PROVE AInv' /\ Spooled' = Spooled
<1> DEFINE rest == Tail(job.todo)
           Rest == Flat(rest)
           split == Half(Head1) \o rest
           whole == [batch |-> job.batch, todo |-> rest, bad |-> job.bad, left |-> job.left, used |-> job.used + 1]
           aside == [batch |-> job.batch, todo |-> rest, bad |-> job.bad \cup {Head1[1]}, left |-> job.left, used |-> job.used + 1]
           halved == [batch |-> job.batch, todo |-> split, bad |-> job.bad, left |-> job.left, used |-> job.used + 1]
<1>1. /\ UNCHANGED <<file, saved, skipped, collectorVars, spool, quarantined>>
      /\ faults' \in {faults, faults + 1} /\ Sending
  BY Numbers DEF SkipRequest, Accepted, Rejected, NoAnswer, Fault
<1>2. /\ job # NoJob /\ Head1 \in Seq(Event) /\ rest \in Seq(Seq(Event)) /\ Todo = Elems(Head1) \cup Rest
      /\ split \in Seq(Seq(Event)) /\ Flat(split) = Todo
  BY <1>1, NextRequest
<1>3. /\ job = [batch |-> job.batch, todo |-> job.todo, bad |-> job.bad, left |-> job.left, used |-> job.used]
      /\ job.batch \in spool /\ job.bad \in SUBSET Event /\ job.left \in BOOLEAN /\ job.used \in Nat
      /\ Todo \subseteq Events(job.batch) /\ job.bad \subseteq Events(job.batch)
      /\ (~job.left => Events(job.batch) \subseteq rows \cup quarantined \cup job.bad \cup Todo)
      /\ Events(job.batch) \subseteq Spooled /\ Events(job.batch) \subseteq Event
  BY <1>2, JobParts
<1>4. \/ rows' = rows
      \/ rows \subseteq rows' /\ rows' \subseteq rows \cup Elems(Head1) /\ Elems(Head1) \subseteq rows'
  BY <1>1, InsertStores DEF SkipRequest, Accepted, Rejected, NoAnswer
<1>5. rows \subseteq rows' /\ rows' \subseteq Spooled /\ quarantined' \subseteq Spooled
  <2>1. rows \subseteq Spooled /\ quarantined \subseteq Spooled
    BY DEF Spooled
  <2> QED BY <1>1, <1>2, <1>3, <1>4, <2>1
<1>6. Spooled' = Spooled
  BY <1>1, <1>5, SpooledStays
<1>7. StoreTypes'
  <2>1. Spooled \subseteq Event
    BY AllAreEvents DEF AInv, All
  <2> QED BY <1>1, <1>5, <2>1 DEF AInv, TypesOK, StoreTypes
<1>8. JobOK'
  <2> HIDE DEF rest, split
  <2>1. CASE \E used \in Nat : job' = [batch |-> job.batch, todo |-> rest, bad |-> job.bad, left |-> TRUE, used |-> used]
    <3>1. PICK used \in Nat : job' = [batch |-> job.batch, todo |-> rest, bad |-> job.bad, left |-> TRUE, used |-> used]
      BY <2>1
    <3>2. Rest \subseteq Events(job.batch) /\ TRUE \in BOOLEAN
      BY <1>2, <1>3
    <3> HIDE DEF Rest
    <3> QED BY <1>1, <1>2, <1>3, <1>5, <3>1, <3>2, JobGoesOn DEF Rest
  <2>2. CASE job' = whole /\ Elems(Head1) \subseteq rows'
    <3>1. /\ Rest \subseteq Events(job.batch)
          /\ (job.left = FALSE => Events(job.batch) \subseteq rows' \cup quarantined' \cup job.bad \cup Rest)
      BY <1>1, <1>2, <1>3, <1>5, <2>2
    <3>2. job.used + 1 \in Nat
      BY <1>3
    <3> QED BY <1>1, <1>2, <1>3, <1>5, <2>2, <3>1, <3>2, JobGoesOn
  <2>3. CASE job' = aside /\ Elems(Head1) = {Head1[1]}
    <3> DEFINE bad == job.bad \cup {Head1[1]}
    <3>1. /\ Rest \subseteq Events(job.batch) /\ bad \subseteq Events(job.batch) /\ bad \in SUBSET Event
          /\ (job.left = FALSE => Events(job.batch) \subseteq rows' \cup quarantined' \cup bad \cup Rest)
      BY <1>1, <1>2, <1>3, <1>5, <2>3
    <3>2. job.used + 1 \in Nat
      BY <1>3
    <3>3. job' = [batch |-> job.batch, todo |-> rest, bad |-> bad, left |-> job.left, used |-> job.used + 1]
      BY <2>3
    <3> HIDE DEF bad
    <3> QED BY <1>1, <1>2, <1>3, <1>5, <3>1, <3>2, <3>3, JobGoesOn
  <2>4. CASE job' = halved
    <3>1. job.left = FALSE => Events(job.batch) \subseteq rows' \cup quarantined' \cup job.bad \cup Todo
      BY <1>1, <1>3, <1>5
    <3>2. job.used + 1 \in Nat
      BY <1>3
    <3> QED BY <1>1, <1>2, <1>3, <1>5, <2>4, <3>1, <3>2, JobGoesOn
  <2>5. CASE SkipRequest
    <3>1. job' = [batch |-> job.batch, todo |-> rest, bad |-> job.bad, left |-> TRUE, used |-> job.used]
      BY <1>3, <2>5 DEF SkipRequest, rest
    <3> QED BY <1>3, <2>1, <3>1
  <2>6. CASE Accepted
    <3>1. job' = whole
      BY <1>3, <2>6 DEF Accepted, rest
    <3>2. Elems(Head1) \subseteq rows'
      BY <1>1, <2>6, InsertStores DEF Accepted
    <3> QED BY <2>2, <3>1, <3>2
  <2>7. CASE Rejected
    <3>1. CASE Len(Head1) = 1
      <4>1. job' = aside
        BY <1>3, <2>7, <3>1 DEF Rejected, rest
      <4>2. Elems(Head1) = {Head1[1]}
        <5>1. DOMAIN Head1 = {1}
          BY <1>2, <3>1
        <5> QED BY <5>1 DEF Elems
      <4> QED BY <2>3, <4>1, <4>2
    <3>2. CASE Len(Head1) # 1
      <4>1. job' = halved
        BY <1>3, <2>7, <3>2 DEF Rejected, rest, split
      <4> QED BY <2>4, <4>1
    <3> QED BY <3>1, <3>2
  <2>8. CASE NoAnswer
    <3>1. job' = [batch |-> job.batch, todo |-> rest, bad |-> job.bad, left |-> TRUE, used |-> job.used + 1]
      BY <1>3, <2>8 DEF NoAnswer, rest
    <3>2. job.used + 1 \in Nat
      BY <1>3
    <3> QED BY <2>1, <3>1, <3>2
  <2> QED BY <2>5, <2>6, <2>7, <2>8
<1> QED BY <1>1, <1>6, <1>7, <1>8, UploaderMoves

(* The end of a batch: put aside, gone when all of it is accounted for, or *)
(* left for another time.                                                  *)
LEMMA EndKeeps == ASSUME AInv, Quarantine \/ Acknowledge \/ Retry PROVE AInv' /\ Spooled' = Spooled
<1>1. UNCHANGED <<file, saved, skipped, collectorVars, rows, faults>> /\ job # NoJob /\ ~Sending
  BY DEF Quarantine, Acknowledge, Retry
<1>2. /\ job = [batch |-> job.batch, todo |-> job.todo, bad |-> job.bad, left |-> job.left, used |-> job.used]
      /\ job.batch \in spool /\ job.bad \in SUBSET Event /\ job.left \in BOOLEAN /\ job.used \in Nat
      /\ job.todo \in Seq(Seq(Event)) /\ Todo \subseteq Events(job.batch) /\ job.bad \subseteq Events(job.batch)
      /\ (~job.left => Events(job.batch) \subseteq rows \cup quarantined \cup job.bad \cup Todo)
      /\ Events(job.batch) \subseteq Spooled /\ Events(job.batch) \subseteq Event
  BY <1>1, JobParts
<1>3. Todo = {}
  BY <1>1 DEF Sending, Todo, Flat
<1>4. CASE Quarantine
  <2>1. /\ spool' = spool /\ quarantined' = quarantined \cup job.bad /\ ~job.left
        /\ job' = [batch |-> job.batch, todo |-> job.todo, bad |-> {}, left |-> job.left, used |-> job.used]
    BY <1>2, <1>4 DEF Quarantine, Resolved
  <2>2. Spooled' = Spooled
    <3>1. rows \subseteq Spooled /\ quarantined \subseteq Spooled
      BY DEF Spooled
    <3> QED BY <1>1, <1>2, <2>1, <3>1, SpooledStays
  <2>3. StoreTypes'
    BY <1>1, <1>2, <2>1 DEF AInv, TypesOK, StoreTypes
  <2>4. JobOK'
    <3>1. Events(job.batch) \subseteq rows' \cup quarantined' \cup {} \cup Todo
      BY <1>1, <1>2, <2>1
    <3>2. {} \in SUBSET Event /\ {} \subseteq Events(job.batch)
      OBVIOUS
    <3> QED BY <1>1, <1>2, <2>1, <3>1, <3>2, JobGoesOn DEF Todo
  <2> QED BY <1>1, <2>2, <2>3, <2>4, UploaderMoves
<1>5. CASE Acknowledge
  <2>1. spool' = spool \ {job.batch} /\ quarantined' = quarantined /\ job' = NoJob /\ job.bad = {} /\ ~job.left
    BY <1>5 DEF Acknowledge, Resolved
  <2>2. Spooled' = Spooled
    <3>1. Events(job.batch) \subseteq rows \cup quarantined
      BY <1>2, <1>3, <2>1
    <3>2. (UNION {Events(b) : b \in spool})' = UNION {Events(b) : b \in spool'}
      BY DEF Events
    <3> QED BY <1>1, <2>1, <3>1, <3>2 DEF Spooled
  <2>3. StoreTypes'
    BY <1>1, <2>1 DEF AInv, TypesOK, StoreTypes
  <2>4. JobOK'
    BY <2>1 DEF JobOK, NoJob
  <2> QED BY <1>1, <2>2, <2>3, <2>4, UploaderMoves
<1>6. CASE Retry
  <2>1. spool' = spool /\ quarantined' = quarantined /\ job' = NoJob
    BY <1>6 DEF Retry
  <2>2. Spooled' = Spooled /\ StoreTypes'
    BY <1>1, <2>1, StoreTypesStay DEF AInv, TypesOK, Spooled, Events
  <2>3. JobOK'
    BY <2>1 DEF JobOK, NoJob
  <2> QED BY <1>1, <2>2, <2>3, UploaderMoves
<1> QED BY <1>4, <1>5, <1>6

-----------------------------------------------------------------------------
(* The theorems.                                                           *)

(* The invariant holds at the start. *)
LEMMA InitHolds == Init => AInv
<1> SUFFICES ASSUME Init PROVE AInv
  OBVIOUS
<1>1. /\ file = [present |-> TRUE, id |-> 1, content |-> 1, lines |-> <<>>]
      /\ saved = NoState /\ skipped = {} /\ pc = "down" /\ live = Nowhere /\ ident = 0 /\ suspect = Calm
      /\ buf = <<>> /\ done = 0 /\ after = ThenPoll
      /\ spool = {} /\ job = NoJob /\ rows = {} /\ quarantined = {} /\ faults = 0
  BY DEF Init
<1>2. /\ file.present = TRUE /\ file.id = 1 /\ file.content = 1 /\ file.lines = <<>> /\ Size = 0
      /\ file = [present |-> file.present, id |-> file.id, content |-> file.content, lines |-> file.lines]
      /\ DOMAIN file.lines = {}
  BY <1>1 DEF Size
<1>3. Nowhere \in Cursor /\ Nowhere.id = 0 /\ Nowhere.content = 0 /\ Nowhere.gen = 0 /\ NoState = Nowhere
      /\ ThenPoll \in Plans /\ ThenPoll.then = "poll" /\ ThenPoll.cur = Nowhere /\ ThenPoll.events = <<>>
      /\ Calm = [kind |-> Calm.kind, id |-> Calm.id] /\ Calm.id = 0
  BY IdlePlans DEF Nowhere, NoState, Calm
<1>4. All = {} /\ Elems(buf) = {}
  BY <1>1, <1>3 DEF All, Spooled, Events, Elems
<1>5. TypesOK
  <2>1. FileTypes
    <3>1. <<>> \in Seq(Kinds)
      OBVIOUS
    <3> QED BY <1>1, <1>2, <1>3, <3>1 DEF FileTypes
  <2>2. LookTypes
    BY <1>1, <1>3 DEF LookTypes
  <2>3. MemoryTypes
    BY <1>1, <1>3 DEF MemoryTypes
  <2>4. StoreTypes
    BY <1>1 DEF StoreTypes
  <2> QED BY <2>1, <2>2, <2>3, <2>4 DEF TypesOK
<1>6. FilesOK
  <2>1. Fits(Nowhere)
    BY <1>2, <1>3 DEF Fits, Current
  <2> QED BY <1>1, <1>2, <1>3, <2>1, AgentAssumption DEF FilesOK
<1>7. LiveOK /\ AfterOK
  BY <1>1, <1>3, <1>4 DEF LiveOK, AfterOK
<1>8. NamesOK
  BY <1>4 DEF NamesOK
<1>9. LookOK
  BY <1>1, <1>3, AgentAssumption DEF LookOK
<1>10. CoverOK
  <2>1. \A E : Covers(Nowhere, E)
    BY <1>2, <1>3 DEF Covers, Current
  <2> QED BY <1>1, <1>3, <2>1 DEF CoverOK
<1>11. JobOK
  BY <1>1 DEF JobOK
<1> QED BY <1>5, <1>6, <1>7, <1>8, <1>9, <1>10, <1>11 DEF AInv

(* Every step keeps the invariant, and takes nothing out of what is        *)
(* spooled, stored and put aside together.                                 *)
LEMMA NextKeeps ==
  ASSUME AInv, ~Overtake, [Next]_vars
  PROVE  AInv' /\ Spooled \subseteq Spooled'
<1>1. ASSUME UNCHANGED <<spool, rows, quarantined>> PROVE Spooled' = Spooled
  BY <1>1 DEF Spooled, Events
<1>2. CASE Environment
  <2>1. UNCHANGED <<spool, rows, quarantined>>
    BY <1>2 DEF Environment, AppendLine, Remove, Recreate, Truncate, uploaderVars
  <2> QED BY <1>1, <1>2, <2>1, AppendLineKeeps, ReplaceKeeps DEF Environment
<1>3. CASE WriteBatch
  <2>1. spool \subseteq spool' /\ UNCHANGED <<rows, quarantined>>
    BY <1>3 DEF WriteBatch, uploaderVars
  <2>2. Spooled \subseteq Spooled'
    BY <2>1 DEF Spooled, Events
  <2> QED BY <1>3, <2>2, WriteBatchKeeps
<1>4. CASE Start \/ Look \/ Missing \/ Withhold \/ ReadOn \/ Confirm \/ SaveState \/ TimeIsUp
           \/ Misread \/ Stop \/ CollectorFails \/ Crash
  <2>1. UNCHANGED <<spool, rows, quarantined>>
    BY <1>4 DEF Start, Look, Missing, Withhold, ReadOn, Confirm, SaveState, TimeIsUp, Misread, Stop,
                CollectorFails, Crash, uploaderVars
  <2>2. AInv'
    BY <1>4, StartKeeps, LookKeeps, PollKeeps, ReadOnKeeps, ConfirmKeeps, SaveStateKeeps, TimeIsUpKeeps,
       StopKeeps, CrashKeeps
  <2> QED BY <1>1, <2>1, <2>2
<1>5. CASE UploaderStep \/ NoAnswer
  BY <1>5, PickKeeps, RequestKeeps, EndKeeps DEF UploaderStep
<1>6. CASE UNCHANGED vars
  <2>1. UNCHANGED <<file, saved, skipped, collectorVars, spool, uploaderVars, faults>>
    BY <1>6 DEF vars
  <2>2. UNCHANGED <<spool, job, rows, quarantined>>
    BY <2>1 DEF uploaderVars
  <2>3. StoreTypes' /\ JobOK' /\ Spooled' = Spooled
    BY <1>1, <2>2, StoreTypesStay, JobStays DEF AInv, TypesOK
  <2> QED BY <2>1, <2>3, UploaderMoves
<1> QED BY <1>2, <1>3, <1>4, <1>5, <1>6 DEF Next, CollectorStep, Faults

(* The invariant holds always. *)
THEOREM AgentHolds ==
  ASSUME ~Overtake
  PROVE  Spec => []AInv
<1>1. AInv /\ [Next]_vars => AInv'
  BY NextKeeps
<1> QED BY <1>1, InitHolds, PTL DEF Spec

(* The saved cursor never leads: whatever lies below it in the file as it  *)
(* is was spooled, stored or put aside (collector.py, persist after write). *)
THEOREM CursorNeverLeadsAlways ==
  ASSUME ~Overtake
  PROVE  Spec => []CursorNeverLeads
<1>1. AInv => CursorNeverLeads
  <2> SUFFICES ASSUME AInv, Current(saved), NEW i \in 1..saved.off \cap DOMAIN file.lines
               PROVE  \/ file.lines[i] = "silent" \/ <<file.content, i>> \in skipped
                      \/ \E r \in Whole : r.of = file.content /\ r.at = i
    BY DEF CursorNeverLeads, Current
  <2>1. Taken(i, Spooled)
    BY DEF AInv, CoverOK, Covers
  <2> QED BY <2>1 DEF Taken, Whole
<1> QED BY <1>1, AgentHolds, PTL

(* Names and lines correspond one to one: a name is of one line, and a     *)
(* line has one name (event_identity.py), whatever crashes, fails or is    *)
(* seen wrongly in between.                                                *)
THEOREM NamesAreLinesAlways ==
  ASSUME ~Overtake
  PROVE  Spec => []NamesAreLines
<1>1. AInv => NamesAreLines
  <2> SUFFICES ASSUME AInv PROVE OneLinePerName /\ OneNamePerLine
    BY DEF NamesAreLines
  <2>1. \A r, q \in Spooled : Agree(r, q)
    BY DEF AInv, NamesOK, All
  <2>2. OneLinePerName
    BY <2>1 DEF OneLinePerName, Agree
  <2>3. OneNamePerLine
    BY <2>1 DEF OneNamePerLine, Whole, Agree
  <2> QED BY <2>2, <2>3
<1> QED BY <1>1, AgentHolds, PTL

(* Nothing is dropped: a batch is deleted only when each of its records,   *)
(* that very record, is stored or in quarantine (uploader.py).             *)
THEOREM NothingDroppedAlways ==
  ASSUME ~Overtake
  PROVE  Spec => NothingDropped
<1>1. AInv /\ [Next]_vars => [Spooled \subseteq Spooled']_vars
  BY NextKeeps
<1> QED BY <1>1, AgentHolds, PTL DEF Spec, NothingDropped
=============================================================================
