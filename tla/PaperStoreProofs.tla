-------------------------- MODULE PaperStoreProofs ---------------------------
(***************************************************************************)
(* What the papers table promises though nothing locks it, for every set   *)
(* of concurrent executions, every answer of the sources and any number of *)
(* edits by operators: what is passed was stored, twins come from races,   *)
(* and the queue of a search stands for what was found.                    *)
(*                                                                         *)
(* Dedupe is a fold: FoldTableExists opens it as a sequence of steps       *)
(* (DedupeSteps), and NatSetInduction, which states induction for a set,   *)
(* shows what the steps compute (DedupedPapers). AnalysisProofs has the    *)
(* same three lemmas for its own folds.                                    *)
(***************************************************************************)
EXTENDS PaperStore, TLAPS, WellFoundedInduction

-----------------------------------------------------------------------------
(* Papers are passed once they are stored.                                 *)

(* The paper an execution looks up or inserts.                             *)
Current(e) == queue[e][next[e]]

(* A row of the identity of p is or was in the table.                      *)
Known(p) == \E r \in rows \union gone : SameIdentity(r, p)

Passed(e) ==
  /\ next[e] \in Nat
  /\ pc[e] = "search" => next[e] = 1
  /\ \A i \in 1..(next[e] - 1) : Storable(queue[e][i]) => Known(queue[e][i])

PassedInv ==
  /\ pc = [e \in Executions |-> pc[e]]
  /\ next = [e \in Executions |-> next[e]]
  /\ queue = [e \in Executions |-> queue[e]]
  /\ \A e \in Executions : Passed(e)

(* A row that matches a paper is of its identity, and so is its own row.   *)
LEMMA MatchIsSame ==
  ASSUME NEW r, NEW p, Matches(r, p) PROVE SameIdentity(r, p)
  BY DEF Matches, SameIdentity

(* A row has the identity of its paper.                                    *)
LEMMA RowIsSame ==
  ASSUME NEW p, NEW b, NEW s
  PROVE  SameIdentity(Row(p, b, s), p) /\ \A r : Agreed(r, Row(p, b, s)) = Agreed(r, p)
<1>1. \A c \in Identity : Row(p, b, s)[c] = p[c]
  BY DEF Row, Identity
<1>2. "title" \in Identity
  BY DEF Identity
<1> QED
  BY <1>1, <1>2 DEF SameIdentity, Agreed

(* A step that forgets no row and goes past no paper, or past one that is  *)
(* known or no valid one.                                                  *)
LEMMA PassStep ==
  ASSUME PassedInv, rows \union gone \subseteq rows' \union gone',
         UNCHANGED queue,
         \/ UNCHANGED <<next, pc>>
         \/ \E e \in Executions :
              /\ pc[e] # "search"
              /\ \/ /\ UNCHANGED next
                    /\ \E place \in {"lookup", "insert", "done", "failed"} :
                         pc' = [pc EXCEPT ![e] = place]
                 \/ /\ next' = [next EXCEPT ![e] = @ + 1]
                    /\ UNCHANGED pc \/ pc' = [pc EXCEPT ![e] = "lookup"]
                    /\ Storable(Current(e)) =>
                         \E r \in rows' \union gone' : SameIdentity(r, Current(e))
  PROVE  PassedInv'
<1>1. \A p : Known(p) => Known(p)'
  BY DEF Known, SameIdentity
<1>2. CASE UNCHANGED <<next, pc>>
  BY <1>1, <1>2 DEF PassedInv, Passed
<1>3. ASSUME NEW e \in Executions, pc[e] # "search", UNCHANGED next,
             NEW place \in {"lookup", "insert", "done", "failed"},
             pc' = [pc EXCEPT ![e] = place]
      PROVE  PassedInv'
  BY <1>1, <1>3 DEF PassedInv, Passed
<1>4. ASSUME NEW e \in Executions, pc[e] # "search",
             next' = [next EXCEPT ![e] = @ + 1],
             UNCHANGED pc \/ pc' = [pc EXCEPT ![e] = "lookup"],
             Storable(Current(e)) =>
               \E r \in rows' \union gone' : SameIdentity(r, Current(e))
      PROVE  PassedInv'
  <2>1. /\ next'[e] = next[e] + 1 /\ pc'[e] # "search" /\ next[e] \in Nat
        /\ \A d \in Executions : d # e => next'[d] = next[d] /\ pc'[d] = pc[d]
        /\ pc' = [d \in Executions |-> pc'[d]]
        /\ next' = [d \in Executions |-> next'[d]]
    BY <1>4 DEF PassedInv, Passed
  <2>2. ASSUME NEW i \in 1..(next'[e] - 1), Storable(queue[e][i])
        PROVE  Known(queue[e][i])'
    <3>1. CASE i = next[e]
      BY <1>4, <2>2, <3>1 DEF Known, Current
    <3>2. CASE i # next[e]
      <4>1. i \in 1..(next[e] - 1)
        BY <2>1, <3>2
      <4> QED
        BY <1>1, <2>2, <4>1 DEF PassedInv, Passed
    <3> QED
      BY <3>1, <3>2
  <2>3. Passed(e)'
    <3>1. \A i \in 1..(next'[e] - 1) :
            Storable(queue'[e][i]) => Known(queue[e][i])'
      BY <2>2
    <3>2. next'[e] \in Nat /\ pc'[e] # "search"
      BY <2>1
    <3> QED
      BY <3>1, <3>2 DEF Passed
  <2>4. \A d \in Executions : d # e => Passed(d)'
    BY <1>1, <2>1 DEF PassedInv, Passed
  <2> QED
    BY <2>1, <2>3, <2>4 DEF PassedInv
<1> QED
  BY <1>2, <1>3, <1>4

(* No step forgets what was stored or goes past a paper that was not.      *)
LEMMA NextPassedInv == PassedInv /\ [Next]_vars => PassedInv'
<1> SUFFICES ASSUME PassedInv, [Next]_vars PROVE PassedInv'
  OBVIOUS
<1>1. CASE UNCHANGED vars
  BY <1>1, PassStep DEF vars
<1>2. ASSUME NEW e \in Executions, Search(e) PROVE PassedInv'
  <2>1. /\ pc[e] = "search" /\ next[e] = 1 /\ UNCHANGED <<next, rows, gone>>
        /\ pc' = [pc EXCEPT ![e] = "lookup"]
    BY <1>2 DEF Search, Goto, PassedInv, Passed
  <2>2. PICK q : queue' = [queue EXCEPT ![e] = q]
    BY <1>2 DEF Search
  <2>3. Passed(e)'
    BY <2>1 DEF Passed, PassedInv
  <2>4. ASSUME NEW d \in Executions, d # e PROVE Passed(d)'
    <3>1. next'[d] = next[d] /\ pc'[d] = pc[d] /\ queue'[d] = queue[d]
      BY <2>1, <2>2, <2>4 DEF PassedInv
    <3>2. \A p : Known(p) => Known(p)'
      BY <2>1 DEF Known, SameIdentity
    <3> QED
      BY <2>4, <3>1, <3>2 DEF PassedInv, Passed
  <2> QED
    BY <2>1, <2>2, <2>3, <2>4 DEF PassedInv
<1>3. ASSUME NEW e \in Executions, Lookup(e) PROVE PassedInv'
  <2>1. pc[e] = "lookup" /\ UNCHANGED <<rows, gone, queue>>
    BY <1>3 DEF Lookup
  <2>2. \/ UNCHANGED next /\ (Goto(e, "failed") \/ Goto(e, "insert"))
        \/ /\ next' = [next EXCEPT ![e] = @ + 1] /\ UNCHANGED pc
           /\ ~Current(e).http \/ \E r \in rows : Matches(r, Current(e))
    BY <1>3 DEF Lookup, Current
  <2>3. Storable(Current(e)) /\ (\E r \in rows : Matches(r, Current(e))) =>
          \E r \in rows' \union gone' : SameIdentity(r, Current(e))
    BY <2>1, MatchIsSame
  <2>4. CASE UNCHANGED next /\ (Goto(e, "failed") \/ Goto(e, "insert"))
    BY <2>1, <2>4, PassStep DEF Goto
  <2> QED
    BY <2>1, <2>2, <2>3, <2>4, PassStep DEF Storable
<1>4. ASSUME NEW e \in Executions, Insert(e) PROVE PassedInv'
  <2>1. /\ rows \subseteq rows' /\ Row(Current(e), e, seen[e]) \in rows'
        /\ UNCHANGED <<gone, queue>> /\ next' = [next EXCEPT ![e] = @ + 1]
        /\ pc[e] = "insert" /\ pc' = [pc EXCEPT ![e] = "lookup"]
    BY <1>4 DEF Insert, Current, Goto
  <2>2. \E r \in rows' \union gone' : SameIdentity(r, Current(e))
    BY <2>1, RowIsSame
  <2> QED
    BY <2>1, <2>2, PassStep
<1>5. ASSUME NEW e \in Executions, Stored(e) \/ Break(e) PROVE PassedInv'
  BY <1>5, PassStep DEF Stored, Break, Goto
<1>6. ASSUME NEW p, CreatePaper(p) PROVE PassedInv'
  BY <1>6, PassStep DEF CreatePaper, executions
<1>7. ASSUME NEW r \in rows, DeletePaper(r) \/ \E p \in Patches : UpdatePaper(r, p)
      PROVE  PassedInv'
  BY <1>7, PassStep DEF DeletePaper, UpdatePaper, executions
<1> QED
  BY <1>1, <1>2, <1>3, <1>4, <1>5, <1>6, <1>7 DEF Next

(* What a search has gone past was stored, whatever fails and whoever      *)
(* edits the table.                                                        *)
THEOREM PassedPapersAreStored == Spec => []PassedPapersWereStored
<1>1. Init => PassedInv
  BY DEF Init, PassedInv, Passed
<1>2. PassedInv => PassedPapersWereStored
  BY DEF PassedInv, Passed, Known, PassedPapersWereStored
<1> QED
  BY <1>1, <1>2, NextPassedInv, PTL DEF Spec

-----------------------------------------------------------------------------
(* Twins come from races.                                                  *)

(* A row was looked up, if at all, before it was written.                  *)
Dated(r) ==
  /\ {"by", "at", "seen"} \subseteq DOMAIN r
  /\ r.at \in Nat /\ r.at <= clock
  /\ r.seen \in Nat /\ r.seen <= clock

(* What is there when an execution looks up a paper in vain agrees with it *)
(* in no column, or has blanks around its value.                           *)
LookedUp(e) ==
  /\ seen[e] \in Nat /\ seen[e] <= clock
  /\ pc[e] = "insert" =>
       \A r \in rows : r.at <= seen[e] => Agreed(r, Current(e)) \subseteq r.padded

TwinsInv ==
  /\ clock \in Nat
  /\ pc = [e \in Executions |-> pc[e]]
  /\ seen = [e \in Executions |-> seen[e]]
  /\ queue = [e \in Executions |-> queue[e]]
  /\ next = [e \in Executions |-> next[e]]
  /\ \A r \in rows : Dated(r)
  /\ \A e \in Executions : LookedUp(e)
  /\ TwinsComeFromRaces

(* A row is written, by an operator or after a look-up, and perhaps in the *)
(* place of another.                                                       *)
LEMMA WriteStep ==
  ASSUME TwinsInv, NEW new,
         rows' \subseteq rows \union {new}, clock' = clock + 1,
         new.at = clock', new.seen \in 0..clock,
         {"by", "at", "seen"} \subseteq DOMAIN new,
         new.by \in Executions =>
           \A r \in rows : r.at <= new.seen => Agreed(r, new) \subseteq r.padded,
         UNCHANGED <<queue, seen>>,
         \/ UNCHANGED <<pc, next>>
         \/ \E e \in Executions :
              /\ pc' = [pc EXCEPT ![e] = "lookup"]
              /\ next' = [next EXCEPT ![e] = @ + 1]
  PROVE  TwinsInv'
<1>1. clock \in Nat /\ clock' \in Nat /\ clock < clock'
  BY DEF TwinsInv
<1>2. \A r \in rows' : Dated(r)'
  BY <1>1 DEF TwinsInv, Dated
<1>3. ASSUME NEW e \in Executions PROVE LookedUp(e)'
  <2>1. pc'[e] = "insert" => pc[e] = "insert" /\ next'[e] = next[e]
    BY DEF TwinsInv
  <2>2. seen[e] \in Nat /\ seen[e] <= clock /\ ~(new.at <= seen[e])
    BY <1>1 DEF TwinsInv, LookedUp
  <2>3. ASSUME pc'[e] = "insert", NEW r \in rows', r.at <= seen[e]
        PROVE  Agreed(r, queue[e][next[e]]) \subseteq r.padded
    BY <2>1, <2>2, <2>3 DEF TwinsInv, LookedUp, Current
  <2> QED
    BY <1>1, <2>1, <2>2, <2>3 DEF LookedUp, Current, Agreed
<1>4. TwinsComeFromRaces'
  <2> SUFFICES ASSUME NEW r \in rows', NEW s \in rows',
                      s.by \in Executions, r.id # s.id, r.at <= s.seen
               PROVE  Agreed(r, s) \subseteq r.padded
    BY DEF TwinsComeFromRaces, Agreed
  <2>1. ~(clock + 1 <= s.seen)
    BY <1>1 DEF TwinsInv, Dated
  <2> QED
    BY <2>1 DEF TwinsInv, TwinsComeFromRaces
<1>5. /\ pc' = [e \in Executions |-> pc'[e]]
      /\ next' = [e \in Executions |-> next'[e]]
  BY DEF TwinsInv
<1> QED
  BY <1>1, <1>2, <1>3, <1>4, <1>5 DEF TwinsInv

(* A step that writes no row.                                              *)
LEMMA QuietStep ==
  ASSUME TwinsInv, rows' \subseteq rows,
         UNCHANGED clock \/ clock' = clock + 1,
         pc' = [e \in Executions |-> pc'[e]],
         seen' = [e \in Executions |-> seen'[e]],
         queue' = [e \in Executions |-> queue'[e]],
         next' = [e \in Executions |-> next'[e]],
         \A e \in Executions :
           \/ /\ seen'[e] = seen[e]
              /\ \/ pc'[e] # "insert"
                 \/ /\ pc'[e] = pc[e] /\ next'[e] = next[e]
                    /\ queue'[e] = queue[e]
           \/ /\ seen'[e] = clock
              /\ pc'[e] = "insert" =>
                   /\ next'[e] = next[e] /\ queue'[e] = queue[e]
                   /\ \A r \in rows : Agreed(r, Current(e)) \subseteq r.padded
  PROVE  TwinsInv'
<1>1. clock \in Nat /\ clock' \in Nat /\ clock <= clock'
  BY DEF TwinsInv
<1>2. \A r \in rows' : Dated(r)'
  BY <1>1 DEF TwinsInv, Dated
<1>3. \A e \in Executions : LookedUp(e)'
  BY <1>1 DEF TwinsInv, LookedUp, Current, Agreed
<1>4. TwinsComeFromRaces'
  BY DEF TwinsInv, TwinsComeFromRaces, Agreed
<1> QED
  BY <1>1, <1>2, <1>3, <1>4 DEF TwinsInv

(* No step writes a row that was already there when it was looked up.      *)
LEMMA NextTwinsInv == TwinsInv /\ [Next]_vars => TwinsInv'
<1> SUFFICES ASSUME TwinsInv, [Next]_vars PROVE TwinsInv'
  OBVIOUS
<1>1. CASE UNCHANGED vars
  BY <1>1, QuietStep DEF vars, TwinsInv
<1>2. ASSUME NEW e \in Executions, Search(e) PROVE TwinsInv'
  <2>1. /\ UNCHANGED <<rows, clock, next, seen>> /\ pc' = [pc EXCEPT ![e] = "lookup"]
        /\ \E q : queue' = [queue EXCEPT ![e] = q]
    BY <1>2 DEF Search, Goto
  <2> QED
    BY <2>1, QuietStep DEF TwinsInv
<1>3. ASSUME NEW e \in Executions, Lookup(e) PROVE TwinsInv'
  <2>1. pc[e] = "lookup" /\ UNCHANGED <<rows, clock, queue>>
    BY <1>3 DEF Lookup
  <2>2. \/ /\ pc' = [pc EXCEPT ![e] = "insert"] /\ UNCHANGED next
           /\ seen' = [seen EXCEPT ![e] = clock]
           /\ \A r \in rows : ~Matches(r, Current(e))
        \/ /\ UNCHANGED pc \/ pc' = [pc EXCEPT ![e] = "failed"]
           /\ UNCHANGED next \/ next' = [next EXCEPT ![e] = @ + 1]
           /\ UNCHANGED seen \/ seen' = [seen EXCEPT ![e] = clock]
    BY <1>3 DEF Lookup, Current, Goto
  <2>3. ASSUME NEW r \in rows, ~Matches(r, Current(e))
        PROVE  Agreed(r, Current(e)) \subseteq r.padded
    BY <2>3 DEF Matches
  <2>4. CASE /\ pc' = [pc EXCEPT ![e] = "insert"] /\ UNCHANGED next
             /\ seen' = [seen EXCEPT ![e] = clock]
             /\ \A r \in rows : ~Matches(r, Current(e))
    BY <2>1, <2>3, <2>4, QuietStep DEF TwinsInv
  <2>5. CASE /\ UNCHANGED pc \/ pc' = [pc EXCEPT ![e] = "failed"]
             /\ UNCHANGED next \/ next' = [next EXCEPT ![e] = @ + 1]
             /\ UNCHANGED seen \/ seen' = [seen EXCEPT ![e] = clock]
    BY <2>1, <2>5, QuietStep DEF TwinsInv
  <2> QED
    BY <2>2, <2>4, <2>5
<1>4. ASSUME NEW e \in Executions, Insert(e) PROVE TwinsInv'
  <2> DEFINE new == Row(Current(e), e, seen[e])
  <2>1. /\ rows' = rows \union {new} /\ clock' = clock + 1
        /\ UNCHANGED <<queue, seen>> /\ pc[e] = "insert"
        /\ pc' = [pc EXCEPT ![e] = "lookup"]
        /\ next' = [next EXCEPT ![e] = @ + 1]
    BY <1>4 DEF Insert, Current, Goto
  <2>2. /\ new.at = clock + 1 /\ new.seen = seen[e]
        /\ {"by", "at", "seen"} \subseteq DOMAIN new
        /\ \A r : Agreed(r, new) = Agreed(r, Current(e))
    BY RowIsSame DEF Row
  <2>3. /\ seen[e] \in 0..clock
        /\ \A r \in rows : r.at <= seen[e] => Agreed(r, Current(e)) \subseteq r.padded
    BY <2>1 DEF TwinsInv, LookedUp
  <2> HIDE DEF new
  <2> QED
    BY <2>1, <2>2, <2>3, WriteStep
<1>5. ASSUME NEW e \in Executions, Stored(e) \/ Break(e) PROVE TwinsInv'
  BY <1>5, QuietStep DEF Stored, Break, Goto, TwinsInv
<1>6. ASSUME NEW p, CreatePaper(p) PROVE TwinsInv'
  <2> DEFINE new == Row(p, "operator", clock)
  <2>1. /\ rows' = rows \union {new} /\ clock' = clock + 1
        /\ UNCHANGED <<queue, seen, pc, next>> /\ clock \in Nat
    BY <1>6 DEF CreatePaper, executions, TwinsInv
  <2>2. /\ new.at = clock + 1 /\ new.seen = clock /\ new.by \notin Executions
        /\ {"by", "at", "seen"} \subseteq DOMAIN new
    BY OperatorAssumption DEF Row
  <2> HIDE DEF new
  <2> QED
    BY <2>1, <2>2, WriteStep
<1>7. ASSUME NEW r \in rows, NEW p, UpdatePaper(r, p) PROVE TwinsInv'
  <2> DEFINE new == Edited(r, p)
  <2>1. /\ rows' \subseteq rows \union {new} /\ clock' = clock + 1
        /\ UNCHANGED <<queue, seen, pc, next>> /\ Dated(r) /\ clock \in Nat
    BY <1>7 DEF UpdatePaper, executions, TwinsInv
  <2>2. /\ new.at = clock + 1 /\ new.seen = r.seen /\ new.by \notin Executions
        /\ {"by", "at", "seen"} \subseteq DOMAIN new
    BY <2>1, OperatorAssumption DEF Edited, Dated
  <2>3. new.seen \in 0..clock
    BY <2>1, <2>2 DEF Dated
  <2> HIDE DEF new
  <2> QED
    BY <2>1, <2>2, <2>3, WriteStep
<1>8. ASSUME NEW r \in rows, DeletePaper(r) PROVE TwinsInv'
  BY <1>8, QuietStep DEF DeletePaper, executions, TwinsInv
<1> QED
  BY <1>1, <1>2, <1>3, <1>4, <1>5, <1>6, <1>7, <1>8 DEF Next

(* The look-up misses no row that was there but one that keeps blanks      *)
(* around all it has in common with the paper: any other twins were looked *)
(* up and written at the same time.                                        *)
THEOREM TwinsAreRaces == Spec => []TwinsComeFromRaces
<1>1. Init => TwinsInv
  BY DEF Init, TwinsInv, LookedUp, TwinsComeFromRaces
<1>2. TwinsInv => TwinsComeFromRaces
  BY DEF TwinsInv
<1> QED
  BY <1>1, <1>2, NextTwinsInv, PTL DEF Spec

-----------------------------------------------------------------------------
(* Dedupe, step by step.                                                   *)

(* A set with 0 and the successor of each of its numbers has all numbers.  *)
LEMMA NatSetInduction ==
  ASSUME NEW S, 0 \in S, \A n \in Nat : n \in S => n + 1 \in S
  PROVE  Nat \subseteq S
<1> SUFFICES ASSUME Nat \ S # {} PROVE FALSE
  OBVIOUS
<1> DEFINE R == OpToRel(<, Nat)
<1>1. IsWellFoundedOn(R, Nat)
  BY NatLessThanWellFounded
<1>2. \A x, y \in Nat : y < x => <<y, x>> \in R
  BY DEF OpToRel
<1> HIDE DEF R
<1>3. PICK x \in Nat \ S : \A y \in Nat \ S : <<y, x>> \notin R
  BY <1>1, WFMin
<1>4. x \in Nat /\ x # 0 /\ x \notin S
  OBVIOUS
<1>5. x - 1 \in Nat /\ <<x - 1, x>> \in R
  BY <1>2, <1>4
<1>6. x - 1 \in S
  BY <1>3, <1>5
<1>7. (x - 1) + 1 = x
  BY <1>4
<1> QED
  BY <1>4, <1>5, <1>6, <1>7

(* FoldLeft reads the fold over all places of a sequence from a table of   *)
(* the folds over every set of them.                                       *)
FoldTable(n, T, base, step, f) ==
  /\ f \in [SUBSET (1..n) -> T]
  /\ \A s \in SUBSET (1..n) :
       /\ s # {} => Max(s) \in s
       /\ f[s] = IF s = {} THEN base ELSE step[Max(s)][f[s \ {Max(s)}]]

(* There is such a table, whatever a step does.                            *)
LEMMA FoldTableExists ==
  ASSUME NEW n \in Nat, NEW T, NEW base \in T, NEW step \in [1..n -> [T -> T]]
  PROVE  \E f : FoldTable(n, T, base, step, f)
<1> DEFINE Has(k) == \E f : FoldTable(k, T, base, step, f)
           Good == {k \in Nat : k <= n => Has(k)}
<1>1. Has(0)
  <2> DEFINE f == [s \in SUBSET (1..0) |-> base]
  <2>1. f \in [SUBSET (1..0) -> T] /\ \A s \in SUBSET (1..0) : s = {} /\ f[s] = base
    OBVIOUS
  <2> HIDE DEF f
  <2>2. FoldTable(0, T, base, step, f)
    BY <2>1 DEF FoldTable
  <2> QED
    BY <2>1, <2>2
<1>2. ASSUME NEW k \in Nat, k + 1 <= n, Has(k) PROVE Has(k + 1)
  <2>1. PICK f : FoldTable(k, T, base, step, f)
    BY <1>2
  <2> DEFINE g == [s \in SUBSET (1..(k + 1)) |->
                     IF k + 1 \in s THEN step[k + 1][f[s \ {k + 1}]] ELSE f[s]]
  <2>2. \A s \in SUBSET (1..(k + 1)) :
          /\ s \ {k + 1} \in SUBSET (1..k)
          /\ k + 1 \notin s => s \in SUBSET (1..k)
    OBVIOUS
  <2>3. g \in [SUBSET (1..(k + 1)) -> T]
    <3>1. step[k + 1] \in [T -> T]
      BY <1>2
    <3> QED
      BY <2>1, <2>2, <3>1 DEF FoldTable
  <2>4. ASSUME NEW s \in SUBSET (1..(k + 1))
        PROVE  /\ s # {} => Max(s) \in s
               /\ g[s] = IF s = {} THEN base ELSE step[Max(s)][g[s \ {Max(s)}]]
    <3>1. CASE k + 1 \in s
      <4>1. \A x \in s : (\A y \in s : x >= y) <=> x = k + 1
        BY <3>1
      <4>2. Max(s) = k + 1
        BY <3>1, <4>1 DEF Max
      <4>3. g[s \ {k + 1}] = f[s \ {k + 1}]
        BY <2>2
      <4> QED
        BY <3>1, <4>2, <4>3
    <3>2. CASE k + 1 \notin s
      <4>1. s \in SUBSET (1..k) /\ s \ {Max(s)} \in SUBSET (1..k)
        BY <2>2, <3>2
      <4>2. g[s] = f[s] /\ g[s \ {Max(s)}] = f[s \ {Max(s)}]
        <5>1. k + 1 \notin s \ {Max(s)} /\ s \ {Max(s)} \in SUBSET (1..(k + 1))
          BY <3>2
        <5> HIDE DEF Max
        <5> QED
          BY <3>2, <5>1
      <4> QED
        BY <2>1, <4>1, <4>2 DEF FoldTable
    <3> QED
      BY <3>1, <3>2
  <2>5. FoldTable(k + 1, T, base, step, g)
    <3> HIDE DEF g
    <3> QED
      BY <2>3, <2>4 DEF FoldTable
  <2> QED
    BY <2>5
<1>3. Has(n)
  <2> HIDE DEF Has
  <2>1. 0 \in Good /\ \A k \in Nat : k \in Good => k + 1 \in Good
    BY <1>1, <1>2
  <2>2. n \in Good
    <3> HIDE DEF Good
    <3> QED
      BY <2>1, NatSetInduction
  <2> QED
    BY <2>2
<1> QED
  BY <1>3

(* An interval loses its last place.                                       *)
LEMMA LastPlace ==
  ASSUME NEW k \in Nat \ {0}
  PROVE  Max(1..k) = k /\ (1..k) \ {k} = 1..(k - 1) /\ 1..k # {}
<1>1. \A x \in 1..k : (\A y \in 1..k : x >= y) <=> x = k
  OBVIOUS
<1> QED
  BY <1>1 DEF Max

(* The papers of a search, one after the other.                            *)
LEMMA DedupeSteps ==
  ASSUME NEW P, NEW papers \in Seq(P)
  PROVE  \E g : /\ g[0] = <<>>
                /\ \A k \in 1..Len(papers) :
                     g[k] = IF \E i \in DOMAIN g[k - 1] : Key(g[k - 1][i]) = Key(papers[k])
                            THEN g[k - 1] ELSE Append(g[k - 1], papers[k])
                /\ Dedupe(papers) = g[Len(papers)]
<1> DEFINE n == Len(papers)
           T == Seq(P)
           Op(q, r) == IF \E i \in DOMAIN q : Key(q[i]) = Key(r) THEN q ELSE Append(q, r)
           step == [k \in 1..n |-> [q \in T |-> Op(q, papers[k])]]
           Is(f) == f = [s \in SUBSET (1..n) |->
                          IF s = {} THEN <<>>
                          ELSE Op(f[s \ {Max(s)}], papers[Max(s)])]
<1>1. n \in Nat /\ DOMAIN papers = 1..n
  OBVIOUS
<1>2. step \in [1..n -> [T -> T]] /\ <<>> \in T
  OBVIOUS
<1>3. \E f : Is(f)
  <2>1. PICK f : FoldTable(n, T, <<>>, step, f)
    <3> HIDE DEF step, T, n
    <3> QED
      BY <1>1, <1>2, FoldTableExists
  <2>2. f \in [SUBSET (1..n) -> T] /\ \A s \in SUBSET (1..n) : s # {} => Max(s) \in s
    BY <2>1 DEF FoldTable
  <2>3. ASSUME NEW s \in SUBSET (1..n), s # {}
        PROVE  step[Max(s)][f[s \ {Max(s)}]] = Op(f[s \ {Max(s)}], papers[Max(s)])
    <3>1. Max(s) \in 1..n /\ f[s \ {Max(s)}] \in T
      BY <2>2, <2>3
    <3> HIDE DEF Op, n
    <3> QED
      BY <3>1
  <2>4. Is(f)
    <3> HIDE DEF step, Op, T, n
    <3> QED
      BY <2>1, <2>3 DEF FoldTable
  <2> QED
    BY <2>4
<1> DEFINE f == CHOOSE f : Is(f)
           g == [k \in 0..n |-> f[1..k]]
<1>4. Dedupe(papers) = f[1..n]
  BY <1>1 DEF Dedupe, FoldLeft, MapThenFoldSet
<1>5. Is(f)
  <2> HIDE DEF Is
  <2> QED
    BY <1>3
<1> HIDE DEF f
<1>6. ASSUME NEW k \in 1..n PROVE f[1..k] = Op(f[1..(k - 1)], papers[k])
  <2>1. 1..k \in SUBSET (1..n) /\ k \in Nat \ {0}
    BY <1>1
  <2>2. Max(1..k) = k /\ (1..k) \ {k} = 1..(k - 1) /\ 1..k # {}
    BY <2>1, LastPlace
  <2> HIDE DEF Op, n
  <2> QED
    BY <1>5, <2>1, <2>2
<1>7. f[1..0] = <<>>
  BY <1>1, <1>5
<1>8. /\ g[0] = <<>> /\ Dedupe(papers) = g[n]
      /\ \A k \in 1..n : g[k] = Op(g[k - 1], papers[k])
  <2>1. /\ 0 \in 0..n /\ n \in 0..n
        /\ \A k \in 1..n : k \in 0..n /\ k - 1 \in 0..n
    BY <1>1
  <2> HIDE DEF Op, n
  <2> QED
    BY <1>4, <1>6, <1>7, <2>1
<1> HIDE DEF g
<1> QED
  BY <1>8

(* Where a paper stands for the first time.                                *)
FirstPlace(f, p, a) == a \in DOMAIN f /\ f[a] = p /\ \A b \in 1..(a - 1) : f[b] # p

(* The papers of q stand in f one after the other.                         *)
InOrder(f, q) ==
  \A i, j \in DOMAIN q : \A a, b \in DOMAIN f :
    i < j /\ FirstPlace(f, q[i], a) /\ FirstPlace(f, q[j], b) => a < b

(* There is one first place.                                               *)
LEMMA OneFirstPlace ==
  ASSUME NEW P, NEW f \in Seq(P), NEW p, NEW a, NEW b,
         FirstPlace(f, p, a), FirstPlace(f, p, b)
  PROVE  a = b
<1>1. a \in 1..Len(f) /\ b \in 1..Len(f) /\ Len(f) \in Nat
  BY DEF FirstPlace
<1>2. ~(a < b) /\ ~(b < a)
  BY <1>1 DEF FirstPlace
<1> QED
  BY <1>1, <1>2

(* What the queue is: papers of the answer in their order, one for every   *)
(* key, and no key twice.                                                  *)
LEMMA DedupedPapers ==
  ASSUME NEW P, NEW papers \in Seq(P)
  PROVE  /\ Dedupe(papers) \in Seq(P)
         /\ \A j \in DOMAIN Dedupe(papers) : \E a \in DOMAIN papers :
              FirstPlace(papers, Dedupe(papers)[j], a)
         /\ \A i \in DOMAIN papers : \E j \in DOMAIN Dedupe(papers) :
              Key(Dedupe(papers)[j]) = Key(papers[i])
         /\ \A i, j \in DOMAIN Dedupe(papers) :
              i # j => Key(Dedupe(papers)[i]) # Key(Dedupe(papers)[j])
         /\ InOrder(papers, Dedupe(papers))
<1>1. PICK g : /\ g[0] = <<>>
               /\ \A k \in 1..Len(papers) :
                    g[k] = IF \E i \in DOMAIN g[k - 1] : Key(g[k - 1][i]) = Key(papers[k])
                           THEN g[k - 1] ELSE Append(g[k - 1], papers[k])
               /\ Dedupe(papers) = g[Len(papers)]
  BY DedupeSteps
<1> DEFINE n == Len(papers)
           Good(k, q) ==
             /\ q \in Seq(P)
             /\ \A j \in DOMAIN q : \E a \in 1..k : FirstPlace(papers, q[j], a)
             /\ \A i \in 1..k : \E j \in DOMAIN q : Key(q[j]) = Key(papers[i])
             /\ \A i, j \in DOMAIN q : i # j => Key(q[i]) # Key(q[j])
             /\ InOrder(papers, q)
           S == {k \in Nat : k <= n => Good(k, g[k])}
<1>2. n \in Nat /\ DOMAIN papers = 1..n /\ \A i \in 1..n : papers[i] \in P
  OBVIOUS
<1>3. Good(0, g[0])
  BY <1>1 DEF InOrder
<1>4. ASSUME NEW k \in Nat, k + 1 <= n, Good(k, g[k]) PROVE Good(k + 1, g[k + 1])
  <2> DEFINE q == g[k]
             r == papers[k + 1]
             a == Append(q, r)
             m == Len(q) + 1
  <2>1. /\ k + 1 \in 1..n /\ (k + 1) - 1 = k /\ r \in P
        /\ \A i \in 1..(k + 1) : i \in 1..k \/ i = k + 1
        /\ 1..k \subseteq 1..(k + 1) /\ k + 1 \in 1..(k + 1)
    BY <1>2, <1>4
  <2>2. g[k + 1] = IF \E i \in DOMAIN q : Key(q[i]) = Key(r) THEN q ELSE a
    BY <1>1, <2>1
  <2>3. Good(k, q)
    BY <1>4
  <2> HIDE DEF q
  <2>4. ASSUME \E i \in DOMAIN q : Key(q[i]) = Key(r) PROVE Good(k + 1, q)
    <3>1. \A j \in DOMAIN q : \E i \in 1..(k + 1) : FirstPlace(papers, q[j], i)
      BY <2>1, <2>3
    <3>2. \A i \in 1..(k + 1) : \E j \in DOMAIN q : Key(q[j]) = Key(papers[i])
      BY <2>1, <2>3, <2>4
    <3> QED
      BY <2>3, <3>1, <3>2
  <2>5. ASSUME \A i \in DOMAIN q : Key(q[i]) # Key(r) PROVE Good(k + 1, a)
    <3>1. /\ a \in Seq(P) /\ m \in DOMAIN a /\ a[m] = r
          /\ \A j \in DOMAIN q : j \in DOMAIN a /\ a[j] = q[j] /\ j < m
          /\ \A j \in DOMAIN a : j \in DOMAIN q \/ j = m
          /\ DOMAIN q \subseteq Nat /\ m \in Nat
      <4>1. q \in Seq(P) /\ r \in P /\ DOMAIN q = 1..Len(q) /\ Len(q) \in Nat
        BY <2>1, <2>3
      <4>2. a \in Seq(P) /\ Len(a) = Len(q) + 1 /\ DOMAIN a = 1..Len(a)
        BY <4>1
      <4>3. a[m] = r /\ \A j \in DOMAIN q : a[j] = q[j]
        BY <4>1
      <4> HIDE DEF a, r
      <4> QED
        BY <4>1, <4>2, <4>3
    <3> HIDE DEF a, m
    <3>2. FirstPlace(papers, r, k + 1)
      <4>1. \A b \in 1..k : papers[b] # r
        BY <2>3, <2>5
      <4> QED
        BY <1>2, <2>1, <4>1 DEF FirstPlace
    <3>3. \A j \in DOMAIN a : \E i \in 1..(k + 1) : FirstPlace(papers, a[j], i)
      BY <2>1, <2>3, <3>1, <3>2
    <3>4. \A i \in 1..(k + 1) : \E j \in DOMAIN a : Key(a[j]) = Key(papers[i])
      BY <2>1, <2>3, <3>1
    <3>5. ASSUME NEW i \in DOMAIN a, NEW j \in DOMAIN a, i # j
          PROVE  Key(a[i]) # Key(a[j])
      <4>1. CASE i \in DOMAIN q /\ j \in DOMAIN q
        BY <2>3, <3>1, <3>5, <4>1
      <4>2. CASE i = m \/ j = m
        BY <2>5, <3>1, <3>5, <4>2
      <4> QED
        BY <3>1, <4>1, <4>2
    <3>6. InOrder(papers, a)
      <4> SUFFICES ASSUME NEW i \in DOMAIN a, NEW j \in DOMAIN a,
                          NEW b \in DOMAIN papers, NEW c \in DOMAIN papers, i < j,
                          FirstPlace(papers, a[i], b), FirstPlace(papers, a[j], c)
                   PROVE  b < c
        BY DEF InOrder
      <4>1. i \in DOMAIN q
        BY <3>1
      <4>2. CASE j \in DOMAIN q
        BY <2>3, <3>1, <4>1, <4>2 DEF InOrder
      <4>3. CASE j = m
        <5>1. c = k + 1
          BY <3>1, <3>2, <4>3, OneFirstPlace
        <5>2. PICK d \in 1..k : FirstPlace(papers, a[i], d)
          BY <2>3, <3>1, <4>1
        <5>3. b = d
          BY <5>2, OneFirstPlace
        <5> QED
          BY <5>1, <5>2, <5>3
      <4> QED
        BY <3>1, <4>2, <4>3
    <3> QED
      BY <3>1, <3>3, <3>4, <3>5, <3>6
  <2> HIDE DEF Good, a
  <2> QED
    BY <2>2, <2>4, <2>5
<1>5. Good(n, g[n])
  <2> HIDE DEF Good
  <2>1. 0 \in S /\ \A k \in Nat : k \in S => k + 1 \in S
    BY <1>2, <1>3, <1>4
  <2>2. n \in S
    <3> HIDE DEF S, n
    <3> QED
      BY <1>2, <2>1, NatSetInduction
  <2> QED
    BY <1>2, <2>2
<1> QED
  BY <1>1, <1>2, <1>5

-----------------------------------------------------------------------------
(* The queue of a search, and the types.                                   *)

Place(e) ==
  /\ queue[e] = Dedupe(found[e])
  /\ pc[e] = "search" => next[e] = 1
  /\ pc[e] = "insert" => next[e] <= Len(queue[e]) /\ Valid(Current(e))

StoreInv ==
  /\ TypeOK
  /\ queue = [e \in Executions |-> queue[e]]
  /\ next = [e \in Executions |-> next[e]]
  /\ seen = [e \in Executions |-> seen[e]]
  /\ \A r \in rows : {"by", "at", "title", "padded"} \subseteq DOMAIN r
  /\ \A e \in Executions : Place(e)

(* What is found, and what is queued, are papers of the sources.           *)
LEMMA FoundPapers ==
  ASSUME NEW f \in {<<>>} \union Results
  PROVE  /\ f \in Seq(papersOf) /\ Dedupe(f) \in Seq(papersOf)
         /\ Range(Dedupe(f)) \subseteq papersOf
         /\ Len(Dedupe(f)) \in Nat /\ DOMAIN Dedupe(f) = 1..Len(Dedupe(f))
<1>1. f \in Seq(papersOf)
  <2>1. CASE f = <<>>
    BY <2>1
  <2>2. CASE f \in Results
    <3>1. f \in Seq(Range(f)) /\ Range(f) \subseteq papersOf
      BY <2>2, ResultsAssumption DEF papersOf
    <3> QED
      BY <3>1
  <2> QED
    BY <2>1, <2>2
<1>2. Dedupe(f) \in Seq(papersOf)
  BY <1>1, DedupedPapers
<1> QED
  BY <1>1, <1>2 DEF Range

(* A search that has found nothing has queued nothing.                     *)
LEMMA NothingFound == Dedupe(<<>>) = <<>>
<1>1. <<>> \in Seq({}) /\ Len(<<>>) = 0
  OBVIOUS
<1> QED
  BY <1>1, DedupeSteps

(* A step that leaves the table alone, and of which an execution that was  *)
(* not searching is the only actor.                                        *)
LEMMA ReadStep ==
  ASSUME StoreInv, NEW e \in Executions, pc[e] # "search",
         UNCHANGED <<rows, clock, gone, found, queue, edits>>,
         \/ UNCHANGED seen
         \/ seen' = [seen EXCEPT ![e] = clock],
         \/ UNCHANGED <<next, pc>>
         \/ /\ UNCHANGED next
            /\ \E place \in {"done", "failed"} : pc' = [pc EXCEPT ![e] = place]
         \/ /\ UNCHANGED next
            /\ pc' = [pc EXCEPT ![e] = "insert"]
            /\ next[e] <= Len(queue[e]) /\ Valid(Current(e))
         \/ /\ next[e] <= Len(queue[e])
            /\ next' = [next EXCEPT ![e] = @ + 1]
            /\ pc[e] = "lookup" /\ UNCHANGED pc
  PROVE  StoreInv'
<1>1. /\ \A d \in Executions : d # e =>
           pc'[d] = pc[d] /\ next'[d] = next[d] /\ seen'[d] = seen[d]
      /\ pc' \in [Executions -> {"search", "lookup", "insert", "done", "failed"}]
      /\ next' = [d \in Executions |-> next'[d]]
      /\ seen' = [d \in Executions |-> seen'[d]]
  <2>1. UNCHANGED pc \/ \E place \in {"insert", "done", "failed"} :
          pc' = [pc EXCEPT ![e] = place]
    OBVIOUS
  <2>2. UNCHANGED next \/ next' = [next EXCEPT ![e] = @ + 1]
    OBVIOUS
  <2>3. /\ pc' \in [Executions -> {"search", "lookup", "insert", "done", "failed"}]
        /\ \A d \in Executions : d # e => pc'[d] = pc[d]
    <3>1. pc \in [Executions -> {"search", "lookup", "insert", "done", "failed"}]
      BY DEF StoreInv, TypeOK
    <3>2. CASE UNCHANGED pc
      BY <3>1, <3>2
    <3>3. ASSUME NEW place \in {"insert", "done", "failed"}, pc' = [pc EXCEPT ![e] = place]
          PROVE  /\ pc' \in [Executions -> {"search", "lookup", "insert", "done", "failed"}]
                 /\ \A d \in Executions : d # e => pc'[d] = pc[d]
      BY <3>1, <3>3
    <3> QED
      BY <2>1, <3>2, <3>3
  <2>4. /\ next' = [d \in Executions |-> next'[d]]
        /\ \A d \in Executions : d # e => next'[d] = next[d]
    BY <2>2 DEF StoreInv
  <2>5. /\ seen' = [d \in Executions |-> seen'[d]]
        /\ \A d \in Executions : d # e => seen'[d] = seen[d]
    BY DEF StoreInv
  <2> QED
    BY <2>3, <2>4, <2>5
<1>2. clock \in Nat /\ seen'[e] \in 0..clock
  BY DEF StoreInv, TypeOK
<1>3. Len(queue[e]) \in Nat /\ next[e] \in 1..(Len(queue[e]) + 1)
  BY FoundPapers DEF StoreInv, TypeOK, Place
<1>4. next'[e] \in 1..(Len(queue[e]) + 1) /\ pc'[e] # "search"
      /\ (pc'[e] = "insert" => next'[e] <= Len(queue[e]) /\ Valid(queue[e][next'[e]]))
  BY <1>3 DEF StoreInv, TypeOK, Place, Current
<1>5. TypeOK'
  BY <1>1, <1>2, <1>4 DEF StoreInv, TypeOK
<1>6. Place(e)'
  BY <1>4 DEF StoreInv, Place, Current
<1>7. \A d \in Executions : d # e => Place(d)'
  BY <1>1 DEF StoreInv, Place, Current
<1> QED
  BY <1>1, <1>5, <1>6, <1>7 DEF StoreInv

(* A step that writes the table: the row new comes in the place of those   *)
(* of its id, and an execution that wrote it goes on to its next paper.    *)
LEMMA TableStep ==
  ASSUME StoreInv, NEW new,
         rows' \subseteq rows \union {new}, gone' \subseteq gone \union rows,
         clock' = clock + 1, edits' \in 0..MaxEdits,
         UNCHANGED <<found, queue, seen>>,
         new.id \in 1..clock', new.at = clock', new.seen \in 0..clock,
         new.by \in Executions \union {"operator"},
         new.by \in Executions => Valid(new),
         {"by", "at", "title", "padded"} \subseteq DOMAIN new,
         \A r \in rows' : r.id = new.id => r = new,
         \/ UNCHANGED <<pc, next>>
         \/ \E e \in Executions :
              /\ pc[e] = "insert"
              /\ pc' = [pc EXCEPT ![e] = "lookup"]
              /\ next' = [next EXCEPT ![e] = @ + 1]
  PROVE  StoreInv'
<1>1. clock \in Nat /\ clock' \in Nat /\ clock < clock'
  BY DEF StoreInv, TypeOK
<1>2. ASSUME NEW r \in rows' \union gone'
      PROVE  /\ r.id \in 1..clock' /\ r.at \in r.id..clock' /\ r.seen \in 0..clock'
             /\ r.by \in Executions \union {"operator"}
             /\ r.by \in Executions => Valid(r)
  <2>1. CASE r = new
    BY <1>1, <2>1
  <2>2. CASE r \in rows \union gone
    <3>1. r.id \in 1..clock /\ r.at \in r.id..clock /\ r.seen \in 0..clock
      BY <2>2 DEF StoreInv, TypeOK
    <3> QED
      BY <1>1, <2>2, <3>1 DEF StoreInv, TypeOK
  <2> QED
    BY <2>1, <2>2
<1>3. \A r, s \in rows' : r.id = s.id => r = s
  BY DEF StoreInv, TypeOK
<1>4. /\ pc' \in [Executions -> {"search", "lookup", "insert", "done", "failed"}]
      /\ next' = [d \in Executions |-> next'[d]]
  BY DEF StoreInv, TypeOK
<1>5. ASSUME NEW d \in Executions
      PROVE  Place(d)' /\ next'[d] \in 1..(Len(queue[d]) + 1)
  <2>1. /\ Len(queue[d]) \in Nat /\ next[d] \in 1..(Len(queue[d]) + 1)
        /\ Place(d)
    BY FoundPapers DEF StoreInv, TypeOK, Place
  <2>2. CASE pc'[d] = pc[d] /\ next'[d] = next[d]
    BY <2>1, <2>2 DEF Place, Current
  <2>3. CASE pc[d] = "insert" /\ pc'[d] = "lookup" /\ next'[d] = next[d] + 1
    BY <2>1, <2>3 DEF Place, Current
  <2> QED
    BY <2>2, <2>3 DEF StoreInv, TypeOK
<1>6. ASSUME NEW d \in Executions PROVE seen'[d] \in 0..clock'
  BY <1>1 DEF StoreInv, TypeOK
<1>7. TypeOK'
  BY <1>1, <1>2, <1>3, <1>4, <1>5, <1>6 DEF StoreInv, TypeOK
<1>8. \A r \in rows' : {"by", "at", "title", "padded"} \subseteq DOMAIN r
  BY DEF StoreInv
<1> QED
  BY <1>4, <1>5, <1>7, <1>8 DEF StoreInv

(* Every step keeps the types, the places of the executions and the        *)
(* queues.                                                                 *)
LEMMA NextStoreInv == StoreInv /\ [Next]_vars => StoreInv'
<1> SUFFICES ASSUME StoreInv, [Next]_vars PROVE StoreInv'
  OBVIOUS
<1>1. CASE UNCHANGED vars
  BY <1>1 DEF vars, StoreInv, TypeOK, Place, Current
<1>2. ASSUME NEW e \in Executions, Search(e) PROVE StoreInv'
  <2>1. PICK r \in Results : /\ found' = [found EXCEPT ![e] = r]
                             /\ queue' = [queue EXCEPT ![e] = Dedupe(r)]
    BY <1>2 DEF Search
  <2>2. /\ UNCHANGED <<rows, clock, gone, next, seen, edits>>
        /\ pc[e] = "search" /\ pc' = [pc EXCEPT ![e] = "lookup"] /\ next[e] = 1
    BY <1>2 DEF Search, Goto, StoreInv, Place
  <2>3. /\ found'[e] = r /\ queue'[e] = Dedupe(r) /\ pc'[e] = "lookup"
        /\ \A d \in Executions : d # e =>
             found'[d] = found[d] /\ queue'[d] = queue[d] /\ pc'[d] = pc[d]
        /\ queue' = [d \in Executions |-> queue'[d]]
        /\ found' \in [Executions -> {<<>>} \union Results]
        /\ pc' \in [Executions -> {"search", "lookup", "insert", "done", "failed"}]
    BY <2>1, <2>2 DEF StoreInv, TypeOK
  <2>4. Range(queue'[e]) \subseteq papersOf /\ next'[e] \in 1..(Len(queue'[e]) + 1)
    BY <2>2, <2>3, FoundPapers
  <2>5. TypeOK'
    BY <2>2, <2>3, <2>4 DEF StoreInv, TypeOK
  <2>6. Place(e)'
    BY <2>2, <2>3 DEF Place
  <2>7. \A d \in Executions : d # e => Place(d)'
    BY <2>2, <2>3 DEF StoreInv, Place, Current
  <2> QED
    BY <2>2, <2>3, <2>5, <2>6, <2>7 DEF StoreInv
<1>3. ASSUME NEW e \in Executions, Lookup(e) PROVE StoreInv'
  <2>1. /\ pc[e] = "lookup" /\ next[e] <= Len(queue[e])
        /\ UNCHANGED <<rows, clock, gone, found, queue, edits>>
        /\ UNCHANGED seen \/ seen' = [seen EXCEPT ![e] = clock]
    BY <1>3 DEF Lookup
  <2>2. \/ next' = [next EXCEPT ![e] = @ + 1] /\ UNCHANGED pc
        \/ UNCHANGED next /\ pc' = [pc EXCEPT ![e] = "failed"]
        \/ UNCHANGED next /\ pc' = [pc EXCEPT ![e] = "insert"] /\ Valid(Current(e))
    BY <1>3 DEF Lookup, Goto, Current, Storable
  <2> QED
    BY <2>1, <2>2, ReadStep
<1>4. ASSUME NEW e \in Executions, Insert(e) PROVE StoreInv'
  <2> DEFINE new == Row(Current(e), e, seen[e])
  <2>1. /\ rows' = rows \union {new} /\ clock' = clock + 1
        /\ UNCHANGED <<gone, found, queue, seen, edits>> /\ pc[e] = "insert"
        /\ pc' = [pc EXCEPT ![e] = "lookup"]
        /\ next' = [next EXCEPT ![e] = @ + 1]
    BY <1>4 DEF Insert, Current, Goto
  <2>2. /\ new.id = clock + 1 /\ new.at = clock + 1 /\ new.seen = seen[e]
        /\ new.by = e /\ new.title = Current(e).title /\ new.padded = Current(e).padded
        /\ {"by", "at", "title", "padded"} \subseteq DOMAIN new
    BY DEF Row
  <2> HIDE DEF new
  <2>3. /\ clock \in Nat /\ seen[e] \in 0..clock /\ edits' \in 0..MaxEdits
        /\ Valid(Current(e)) /\ \A r \in rows : r.id \in 1..clock
    BY <2>1 DEF StoreInv, TypeOK, Place
  <2>4. new.id \in 1..clock' /\ \A r \in rows' : r.id = new.id => r = new
    BY <2>1, <2>2, <2>3
  <2>5. Valid(new)
    BY <2>2, <2>3, Zenon DEF Valid
  <2> QED
    BY <2>1, <2>2, <2>3, <2>4, <2>5, TableStep
<1>5. ASSUME NEW e \in Executions, Stored(e) \/ Break(e) PROVE StoreInv'
  BY <1>5, ReadStep DEF Stored, Break, Goto
<1>6. ASSUME NEW p, CreatePaper(p) PROVE StoreInv'
  <2> DEFINE new == Row(p, "operator", clock)
  <2>1. /\ rows' = rows \union {new} /\ clock' = clock + 1 /\ edits < MaxEdits
        /\ edits' = edits + 1 /\ UNCHANGED <<gone, found, queue, next, pc, seen>>
    BY <1>6 DEF CreatePaper, executions
  <2>2. /\ new.id = clock + 1 /\ new.at = clock + 1 /\ new.seen = clock
        /\ new.by = "operator"
        /\ {"by", "at", "title", "padded"} \subseteq DOMAIN new
    BY DEF Row
  <2> HIDE DEF new
  <2>3. clock \in Nat /\ edits' \in 0..MaxEdits /\ \A r \in rows : r.id \in 1..clock
    BY <2>1, MaxEditsAssumption DEF StoreInv, TypeOK
  <2>4. new.id \in 1..clock' /\ \A r \in rows' : r.id = new.id => r = new
    BY <2>1, <2>2, <2>3
  <2> QED
    BY <2>1, <2>2, <2>3, <2>4, OperatorAssumption, TableStep
<1>7. ASSUME NEW r \in rows, NEW p, UpdatePaper(r, p) PROVE StoreInv'
  <2> DEFINE new == Edited(r, p)
  <2>1. /\ rows' = (rows \ {r}) \union {new} /\ gone' = gone \union {r}
        /\ clock' = clock + 1 /\ edits < MaxEdits /\ edits' = edits + 1
        /\ UNCHANGED <<found, queue, next, pc, seen>>
    BY <1>7 DEF UpdatePaper, executions
  <2>2. /\ new.id = r.id /\ new.at = clock + 1 /\ new.seen = r.seen
        /\ new.by = "operator"
        /\ {"by", "at", "title", "padded"} \subseteq DOMAIN new
    BY DEF Edited, StoreInv
  <2> HIDE DEF new
  <2>3. /\ clock \in Nat /\ edits' \in 0..MaxEdits
        /\ r.id \in 1..clock /\ r.seen \in 0..clock
    BY <2>1, MaxEditsAssumption DEF StoreInv, TypeOK
  <2>4. \A s \in rows' : s.id = new.id => s = new
    BY <2>1, <2>2 DEF StoreInv, TypeOK
  <2>5. new.id \in 1..clock' /\ new.seen \in 0..clock
    BY <2>1, <2>2, <2>3
  <2> QED
    BY <2>1, <2>2, <2>3, <2>4, <2>5, OperatorAssumption, TableStep
<1>8. ASSUME NEW r \in rows, DeletePaper(r) PROVE StoreInv'
  <2>1. /\ rows' \subseteq rows /\ gone' = gone \union {r} /\ clock' = clock + 1
        /\ edits < MaxEdits /\ edits' = edits + 1
        /\ UNCHANGED <<found, queue, next, pc, seen>>
    BY <1>8 DEF DeletePaper, executions
  <2>2. clock \in Nat /\ edits' \in 0..MaxEdits
    BY <2>1, MaxEditsAssumption DEF StoreInv, TypeOK
  <2>3. ASSUME NEW s \in rows' \union gone'
        PROVE  /\ s.id \in 1..clock' /\ s.at \in s.id..clock' /\ s.seen \in 0..clock'
               /\ s.by \in Executions \union {"operator"}
               /\ s.by \in Executions => Valid(s)
    <3>1. s \in rows \union gone
      BY <2>1, <2>3
    <3>2. s.id \in 1..clock /\ s.at \in s.id..clock /\ s.seen \in 0..clock
      BY <3>1 DEF StoreInv, TypeOK
    <3> QED
      BY <2>1, <2>2, <3>1, <3>2 DEF StoreInv, TypeOK
  <2>4. \A d \in Executions : seen'[d] \in 0..clock'
    BY <2>1, <2>2 DEF StoreInv, TypeOK
  <2>5. TypeOK'
    BY <2>1, <2>2, <2>3, <2>4 DEF StoreInv, TypeOK
  <2> QED
    BY <2>1, <2>5 DEF StoreInv, Place, Current
<1> QED
  BY <1>1, <1>2, <1>3, <1>4, <1>5, <1>6, <1>7, <1>8 DEF Next

(* The invariant behind the types and the queues.                          *)
LEMMA StoreInvariant == Spec => []StoreInv
<1>1. Init => StoreInv
  <2> SUFFICES ASSUME Init PROVE StoreInv
    OBVIOUS
  <2>1. \A e \in Executions : Range(queue[e]) = {} /\ next[e] \in 1..(Len(queue[e]) + 1)
    BY DEF Init, Range
  <2>2. TypeOK
    BY <2>1, MaxEditsAssumption DEF Init, TypeOK
  <2> QED
    BY <2>2, NothingFound DEF Init, StoreInv, Place
<1> QED
  BY <1>1, NextStoreInv, PTL DEF Spec

(* The rows, the queues and the places of the executions have their types: *)
(* ids are unique, no row is younger than the table, an execution stores   *)
(* no paper without a title and never reads past its queue.                *)
THEOREM TypeCorrect == Spec => []TypeOK
<1>1. StoreInv => TypeOK
  BY DEF StoreInv
<1> QED
  BY <1>1, StoreInvariant, PTL

(* The queue stands for all that was found, in its order, without twins.   *)
THEOREM QueuesStandForFound == Spec => []QueueStandsForFound
<1>1. ASSUME StoreInv, NEW e \in Executions
      PROVE  LET q == queue[e]
                 f == found[e]
                 First(p) == CHOOSE i \in DOMAIN f :
                               f[i] = p /\ \A j \in 1..(i - 1) : f[j] # p
             IN  /\ {Key(p) : p \in Range(q)} = {Key(p) : p \in Range(f)}
                 /\ \A i, j \in DOMAIN q :
                      i < j => Key(q[i]) # Key(q[j]) /\ First(q[i]) < First(q[j])
  <2> DEFINE q == queue[e]
             f == found[e]
             First(p) == CHOOSE i \in DOMAIN f : f[i] = p /\ \A j \in 1..(i - 1) : f[j] # p
  <2>1. f \in Seq(papersOf) /\ q = Dedupe(f)
    BY <1>1, FoundPapers DEF StoreInv, TypeOK, Place
  <2> HIDE DEF q, f
  <2>2. /\ q \in Seq(papersOf)
        /\ \A j \in DOMAIN q : \E a \in DOMAIN f : FirstPlace(f, q[j], a)
        /\ \A i \in DOMAIN f : \E j \in DOMAIN q : Key(q[j]) = Key(f[i])
        /\ \A i, j \in DOMAIN q : i # j => Key(q[i]) # Key(q[j])
        /\ InOrder(f, q)
    BY <2>1, DedupedPapers
  <2>3. {Key(p) : p \in Range(q)} = {Key(p) : p \in Range(f)}
    <3>1. Range(q) \subseteq Range(f)
      BY <2>2 DEF Range, FirstPlace
    <3>2. \A p \in Range(f) : \E r \in Range(q) : Key(r) = Key(p)
      BY <2>2 DEF Range
    <3> QED
      BY <3>1, <3>2
  <2>4. \A j \in DOMAIN q : First(q[j]) \in DOMAIN f /\ FirstPlace(f, q[j], First(q[j]))
    BY <2>2 DEF FirstPlace
  <2>5. \A i, j \in DOMAIN q : i < j => First(q[i]) < First(q[j])
    <3> HIDE DEF First
    <3> QED
      BY <2>2, <2>4 DEF InOrder
  <2>6. \A i, j \in DOMAIN q : i < j => i # j
    BY <2>2
  <2> HIDE DEF First
  <2>7. /\ {Key(p) : p \in Range(q)} = {Key(p) : p \in Range(f)}
        /\ \A i, j \in DOMAIN q :
             i < j => Key(q[i]) # Key(q[j]) /\ First(q[i]) < First(q[j])
    BY <2>2, <2>3, <2>5, <2>6
  <2> QED
    BY <2>7 DEF q, f, First
<1>2. StoreInv => QueueStandsForFound
  BY <1>1 DEF QueueStandsForFound
<1> QED
  BY <1>2, StoreInvariant, PTL
=============================================================================
