------------------------------ MODULE PaperStore ------------------------------
(***************************************************************************)
(* The papers table and those who write to it: the search nodes of task    *)
(* executions, which run concurrently in several worker processes, and the *)
(* internal endpoints for papers.  A look-up and the insertion it decides  *)
(* on are two transactions, and no constraint of the table backs the       *)
(* look-up.  Titles and ids stand for what is left of them when they are   *)
(* stripped and in lower case, and padded is the columns with blanks       *)
(* around their values, which the table keeps.                             *)
(* Source: src/src/agents/search.py, src/src/crud/papers.py,               *)
(* src/src/api/routers/papers.py.                                          *)
(***************************************************************************)
EXTENDS Integers, Sequences, SequencesExt

CONSTANTS
  Executions,  \* search nodes of executions
  Results,     \* what the sources may answer: sequences of papers
  Patches,     \* payloads of PATCH: the columns set, and a paper with the values
  NoId,        \* no DOI, no arXiv id
  MaxEdits     \* bound: requests of operators

ASSUME ResultsAssumption == \A r \in Results : r \in Seq(Range(r))
ASSUME MaxEditsAssumption == MaxEdits \in Nat
ASSUME OperatorAssumption == "operator" \notin Executions

VARIABLES
  rows,      \* the papers table
  clock,     \* the number of writes to it
  gone,      \* history: what rows were before they were edited or deleted
  found,     \* the papers of each search, all sources one after the other
  queue,     \* the deduplicated ones
  next,      \* the paper of the queue that is stored next
  pc,        \* where each execution is
  seen,      \* the clock when its last look-up was made
  edits      \* the requests of operators so far

vars == <<rows, clock, gone, found, queue, next, pc, seen, edits>>

(* The columns that identify a paper.                                      *)
Identity == {"title", "doi", "arxiv"}

(* PaperCreate refuses an empty title, but not one of blanks.              *)
Valid(p) == p.title # "" \/ "title" \in p.padded

(* Mutant of Storable: papers without a title are skipped too, but later.  *)
StorableUrl(p) == p.http

(* A paper the search agent stores: _coerce_url skips what is not a URL.   *)
Storable(p) == p.http /\ Valid(p)

(* _paper_key                                                              *)
Key(p) == <<p.doi, p.arxiv, p.title>>

(* Mutant of Dedupe: only the paper just before is compared.               *)
DedupeNeighbours(papers) ==
  FoldLeft(LAMBDA q, p : IF q # <<>> /\ Key(Last(q)) = Key(p) THEN q ELSE Append(q, p),
           <<>>, papers)

(* run collects the papers whose key it has not seen.                      *)
Dedupe(papers) ==
  FoldLeft(LAMBDA q, p : IF \E i \in DOMAIN q : Key(q[i]) = Key(p) THEN q ELSE Append(q, p),
           <<>>, papers)

(* The columns in which a row and a paper are the same, blanks aside.      *)
Agreed(row, p) == {c \in Identity : row[c] = p[c] /\ (c = "title" \/ p[c] # NoId)}

(* Mutant of Matches: all of the clauses have to hold.                     *)
MatchesAll(row, p) ==
  {c \in Identity : c = "title" \/ p[c] # NoId} \subseteq Agreed(row, p) \ row.padded

(* Mutant of Matches: a missing id equals a missing id.                    *)
MatchesNoId(row, p) == \E c \in Identity : row[c] = p[c] /\ c \notin row.padded

(* get_paper_by_identity: title, DOI and arXiv id of the paper are         *)
(* stripped, those of the row are compared as they are.                    *)
Matches(row, p) == \E c \in Agreed(row, p) : c \notin row.padded

(* The row of a paper, written by execution or operator b.                 *)
Row(p, b, s) ==
  [id |-> clock + 1, title |-> p.title, padded |-> p.padded, doi |-> p.doi,
   arxiv |-> p.arxiv, by |-> b, at |-> clock + 1, seen |-> s]

papersOf == UNION {Range(r) : r \in Results}

TypeOK ==
  /\ clock \in Nat /\ edits \in 0..MaxEdits
  /\ \A r \in rows \union gone :
       /\ r.id \in 1..clock /\ r.at \in r.id..clock /\ r.seen \in 0..clock
       /\ r.by \in Executions \union {"operator"}
       /\ r.by \in Executions => Valid(r)
  /\ \A r, s \in rows : r.id = s.id => r = s
  /\ pc \in [Executions -> {"search", "lookup", "insert", "done", "failed"}]
  /\ found \in [Executions -> {<<>>} \union Results]
  /\ \A e \in Executions : /\ Range(queue[e]) \subseteq papersOf
                           /\ next[e] \in 1..(Len(queue[e]) + 1)
                           /\ seen[e] \in 0..clock

Init ==
  /\ rows = {} /\ clock = 0 /\ gone = {}
  /\ found = [e \in Executions |-> <<>>]
  /\ queue = [e \in Executions |-> <<>>]
  /\ next = [e \in Executions |-> 1]
  /\ pc = [e \in Executions |-> "search"]
  /\ seen = [e \in Executions |-> 0]
  /\ edits = 0

Goto(e, place) == pc' = [pc EXCEPT ![e] = place]

(* gather has returned; sources that raised are left out.                  *)
Search(e) ==
  /\ pc[e] = "search"
  /\ \E r \in Results :
       /\ found' = [found EXCEPT ![e] = r]
       /\ queue' = [queue EXCEPT ![e] = Dedupe(r)]
  /\ Goto(e, "lookup")
  /\ UNCHANGED <<rows, clock, gone, next, seen, edits>>

(* The next paper is skipped, or ends the node with a ValidationError, or  *)
(* it is looked up.                                                        *)
Lookup(e) ==
  /\ pc[e] = "lookup" /\ next[e] <= Len(queue[e])
  /\ LET p == queue[e][next[e]]
         known == \E r \in rows : Matches(r, p)
         Pass == next' = [next EXCEPT ![e] = @ + 1] /\ UNCHANGED pc
     IN  \/ ~p.http /\ Pass /\ UNCHANGED seen
         \/ p.http /\ ~Valid(p) /\ Goto(e, "failed") /\ UNCHANGED <<next, seen>>
         \/ /\ Storable(p)
            /\ seen' = [seen EXCEPT ![e] = clock]
            /\ \/ known /\ Pass
               \/ ~known /\ Goto(e, "insert") /\ UNCHANGED next
  /\ UNCHANGED <<rows, clock, gone, found, queue, edits>>

(* create_paper                                                            *)
Insert(e) ==
  /\ pc[e] = "insert"
  /\ rows' = rows \union {Row(queue[e][next[e]], e, seen[e])}
  /\ clock' = clock + 1
  /\ next' = [next EXCEPT ![e] = @ + 1]
  /\ Goto(e, "lookup")
  /\ UNCHANGED <<gone, found, queue, seen, edits>>

Stored(e) ==
  /\ pc[e] = "lookup" /\ next[e] > Len(queue[e])
  /\ Goto(e, "done")
  /\ UNCHANGED <<rows, clock, gone, found, queue, next, seen, edits>>

(* The database fails or the process dies: what is committed stays.        *)
Break(e) ==
  /\ pc[e] \in {"lookup", "insert"}
  /\ Goto(e, "failed")
  /\ UNCHANGED <<rows, clock, gone, found, queue, next, seen, edits>>

executions == <<found, queue, next, pc, seen>>

(* POST /papers stores what it is given.                                   *)
CreatePaper(p) ==
  /\ edits < MaxEdits /\ p.http /\ Valid(p)
  /\ rows' = rows \union {Row(p, "operator", clock)}
  /\ clock' = clock + 1
  /\ edits' = edits + 1
  /\ UNCHANGED <<gone, executions>>

(* PATCH reads the row and writes the columns it is given; DELETE reads it *)
(* and deletes it; 404 if there is none.  Nobody but an operator touches a *)
(* row once it is written, and of two operators the second overwrites its  *)
(* columns only or fails, so that each is one step.                        *)
Edited(r, patch) ==
  LET Value(c) == IF c \in patch.columns THEN patch.paper[c] ELSE r[c] IN
  [id |-> r.id, title |-> Value("title"), doi |-> Value("doi"),
   arxiv |-> Value("arxiv"), by |-> "operator", at |-> clock + 1, seen |-> r.seen,
   padded |-> {c \in Identity :
                 c \in (IF c \in patch.columns THEN patch.paper.padded ELSE r.padded)}]

UpdatePaper(r, patch) ==
  /\ edits < MaxEdits
  /\ rows' = (rows \ {r}) \union {Edited(r, patch)}
  /\ gone' = gone \union {r}
  /\ clock' = clock + 1
  /\ edits' = edits + 1
  /\ UNCHANGED executions

DeletePaper(r) ==
  /\ edits < MaxEdits
  /\ rows' = rows \ {r}
  /\ gone' = gone \union {r}
  /\ clock' = clock + 1
  /\ edits' = edits + 1
  /\ UNCHANGED executions

Next ==
  \/ \E e \in Executions : Search(e) \/ Lookup(e) \/ Insert(e) \/ Stored(e) \/ Break(e)
  \/ \E p \in papersOf : CreatePaper(p)
  \/ \E r \in rows : DeletePaper(r) \/ \E p \in Patches : UpdatePaper(r, p)

Spec == Init /\ [][Next]_vars
-----------------------------------------------------------------------------
SameIdentity(r, p) == Agreed(r, p) # {}

(* The papers a search returns have different keys, stand for everything   *)
(* that was found and are in the order in which it was found               *)
(* (search.py:66-76).                                                      *)
QueueStandsForFound ==
  \A e \in Executions :
    LET q == queue[e]
        f == found[e]
        First(p) == CHOOSE i \in DOMAIN f : f[i] = p /\ \A j \in 1..(i - 1) : f[j] # p
    IN  /\ {Key(p) : p \in Range(q)} = {Key(p) : p \in Range(f)}
        /\ \A i, j \in DOMAIN q : i < j => Key(q[i]) # Key(q[j]) /\ First(q[i]) < First(q[j])

(* A search goes past a paper only when it is no valid one or the table    *)
(* has, or had, a row of the same identity: whatever fails later, and      *)
(* whatever operators and other executions do, the papers before it were   *)
(* stored (search.py:84-104).                                              *)
PassedPapersWereStored ==
  \A e \in Executions : \A i \in 1..(next[e] - 1) :
    Storable(queue[e][i]) =>
      \E r \in rows \union gone : SameIdentity(r, queue[e][i])

(* Two rows for one paper come from a race, the second was looked up       *)
(* before the first was written, or from blanks: the look-up finds a row   *)
(* by every column in which it agrees with the paper and whose value the   *)
(* row keeps without blanks around it.  Only these are missed, and one     *)
(* execution alone stores no other paper twice (crud/papers.py:28-52).     *)
TwinsComeFromRaces ==
  \A r, s \in rows :
    s.by \in Executions /\ r.id # s.id /\ r.at <= s.seen => Agreed(r, s) \subseteq r.padded
===============================================================================
