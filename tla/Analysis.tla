------------------------------- MODULE Analysis -------------------------------
(***************************************************************************)
(* The end of a run of the workflow in one worker: AnalysisAgent asks the  *)
(* language model for one finding per paper, a batch at a time, and        *)
(* ReportAgent asks it for the text of the report and lists the sources.   *)
(* Every call goes through LiteLLMClient.complete and is retried there on  *)
(* its own; call 0 is the one of the report, the others have the number of *)
(* their paper.  A step runs from one await to the next.  Source:          *)
(* src/src/agents/analysis.py, src/src/agents/report.py,                   *)
(* src/src/llm/base.py.                                                    *)
(***************************************************************************)
EXTENDS Integers, Sequences, SequencesExt

CONSTANTS
  NumPapers,     \* the papers of the state are 1..NumPapers
  RefOf,         \* the reference to each of them
  Refs,          \* references the model may give: title, doi, arxiv, url
  NoId,          \* no DOI, no arXiv id; an id may also be empty
  Relevances,    \* the relevances the model may give
  MinRelevance,  \* MIN_FINDING_RELEVANCE
  BatchSize,     \* ANALYSIS_BATCH_SIZE
  MaxRetries,    \* max_retries
  BaseDelay,     \* retry_base_delay
  LimitDelay     \* the least delay after a rate limit error

ASSUME PapersAssumption == NumPapers \in Nat /\ BatchSize \in Nat \ {0}
ASSUME RefsAssumption == RefOf \in [1..NumPapers -> Refs]
ASSUME RetriesAssumption == MaxRetries \in Nat \ {0}
ASSUME DelaysAssumption == BaseDelay \in Nat /\ LimitDelay \in Nat

Papers == 1..NumPapers
Calls == {0} \union Papers

VARIABLES
  first,     \* the first paper of the batch, past the last one for the report
  pc,        \* where each call is
  attempt,   \* its attempt
  limited,   \* how many of its attempts hit a rate limit
  slept,     \* how long it has slept between attempts
  answer,    \* the finding it came to: the paper, its relevance and source
  findings,  \* the findings of the state
  sources    \* the sources of the report

vars == <<first, pc, attempt, limited, slept, answer, findings, sources>>

None == [paper |-> 0]

Findings == [paper : Papers, relevance : Relevances, ref : Refs]

TypeOK ==
  /\ first \in 1..(NumPapers + BatchSize)
  /\ pc \in [Calls -> {"idle", "asking", "sleeping", "answered", "failed"}]
  /\ attempt \in [Calls -> 1..MaxRetries]
  /\ \A c \in Calls : limited[c] \in 0..attempt[c]
  /\ slept \in [Calls -> Nat]
  /\ answer \in [Calls -> Findings \union {None}]
  /\ findings \in Seq(Findings)
  /\ sources \in Seq(Refs)

(* papers[i : i + ANALYSIS_BATCH_SIZE]                                     *)
Batch(i) == {p \in Papers : i <= p /\ p < i + BatchSize}

(* The calls that start when first comes to i: those of a batch, all at    *)
(* once, or the one of the report.                                         *)
Started(i) == IF i <= NumPapers THEN Batch(i) ELSE {0}

Init ==
  /\ first = 1
  /\ pc = [c \in Calls |-> IF c \in Started(1) THEN "asking" ELSE "idle"]
  /\ attempt = [c \in Calls |-> 1]
  /\ limited = [c \in Calls |-> 0]
  /\ slept = [c \in Calls |-> 0]
  /\ answer = [c \in Calls |-> None]
  /\ findings = <<>>
  /\ sources = <<>>

(* Mutant of Delay: the delay is doubled once too often.                   *)
DelayDoubled(k, limit) ==
  LET d == BaseDelay * 2^k IN IF limit /\ d < LimitDelay THEN LimitDelay ELSE d

(* The delay after attempt k.                                              *)
Delay(k, limit) ==
  LET d == BaseDelay * 2^(k - 1) IN IF limit /\ d < LimitDelay THEN LimitDelay ELSE d

(* Mutant of Fail: one attempt more than max_retries.                      *)
FailLate(c, limit) ==
  /\ pc[c] = "asking"
  /\ limited' = [limited EXCEPT ![c] = IF limit THEN @ + 1 ELSE @]
  /\ \/ /\ attempt[c] > MaxRetries
        /\ pc' = [pc EXCEPT ![c] = "failed"]
        /\ UNCHANGED slept
     \/ /\ attempt[c] <= MaxRetries
        /\ pc' = [pc EXCEPT ![c] = "sleeping"]
        /\ slept' = [slept EXCEPT ![c] = @ + Delay(attempt[c], limit)]
  /\ UNCHANGED <<first, attempt, answer, findings, sources>>

(* An attempt fails: the model answers with an error, with something that  *)
(* is not what was asked for, or not within LLM_TIMEOUT_SECONDS.  After    *)
(* the last attempt complete raises.                                       *)
Fail(c, limit) ==
  /\ pc[c] = "asking"
  /\ limited' = [limited EXCEPT ![c] = IF limit THEN @ + 1 ELSE @]
  /\ \/ /\ attempt[c] >= MaxRetries
        /\ pc' = [pc EXCEPT ![c] = "failed"]
        /\ UNCHANGED slept
     \/ /\ attempt[c] < MaxRetries
        /\ pc' = [pc EXCEPT ![c] = "sleeping"]
        /\ slept' = [slept EXCEPT ![c] = @ + Delay(attempt[c], limit)]
  /\ UNCHANGED <<first, attempt, answer, findings, sources>>

WakeUp(c) ==
  /\ pc[c] = "sleeping"
  /\ pc' = [pc EXCEPT ![c] = "asking"]
  /\ attempt' = [attempt EXCEPT ![c] = @ + 1]
  /\ UNCHANGED <<first, limited, slept, answer, findings, sources>>

(* The model's own source stands if it has a title; if it has none the     *)
(* source is the paper.                                                    *)
Answer(p, relevance, ref) ==
  /\ pc[p] = "asking"
  /\ pc' = [pc EXCEPT ![p] = "answered"]
  /\ answer' = [answer EXCEPT ![p] =
       [paper |-> p, relevance |-> relevance,
        ref |-> IF ref.title = "" THEN RefOf[p] ELSE ref]]
  /\ UNCHANGED <<first, attempt, limited, slept, findings, sources>>

(* gather keeps the order of the papers and leaves out the calls that      *)
(* raised; irrelevant findings are left out.                               *)
Kept(p) == pc[p] = "answered" /\ answer[p].relevance >= MinRelevance

FindingsOf(batch) ==
  FoldLeft(LAMBDA q, p : IF p \in batch /\ Kept(p) THEN Append(q, answer[p]) ELSE q,
           <<>>, [p \in Papers |-> p])

(* Mutant of EndBatch: one failed call keeps the batch from ending.        *)
EndBatchOfAnswers ==
  /\ first <= NumPapers
  /\ \A p \in Batch(first) : pc[p] = "answered"
  /\ findings' = findings \o FindingsOf(Batch(first))
  /\ first' = first + BatchSize
  /\ pc' = [c \in Calls |-> IF c \in Started(first + BatchSize) THEN "asking" ELSE pc[c]]
  /\ UNCHANGED <<attempt, limited, slept, answer, sources>>

(* Mutant of EndBatch: the findings of the batch replace those before it.  *)
EndBatchAnew ==
  /\ first <= NumPapers
  /\ \A p \in Batch(first) : pc[p] \in {"answered", "failed"}
  /\ findings' = FindingsOf(Batch(first))
  /\ first' = first + BatchSize
  /\ pc' = [c \in Calls |-> IF c \in Started(first + BatchSize) THEN "asking" ELSE pc[c]]
  /\ UNCHANGED <<attempt, limited, slept, answer, sources>>

(* All calls of the batch have returned or raised.                         *)
EndBatch ==
  /\ first <= NumPapers
  /\ \A p \in Batch(first) : pc[p] \in {"answered", "failed"}
  /\ findings' = findings \o FindingsOf(Batch(first))
  /\ first' = first + BatchSize
  /\ pc' = [c \in Calls |-> IF c \in Started(first + BatchSize) THEN "asking" ELSE pc[c]]
  /\ UNCHANGED <<attempt, limited, slept, answer, sources>>

(* Mutant of SourceKey: sources with one title are one.                    *)
SourceTitle(ref) == <<ref.title>>

SourceKey(ref) == <<ref.title, ref.doi, ref.arxiv>>

(* _dedupe_sources                                                         *)
Distinct(refs) ==
  FoldLeft(LAMBDA q, r :
             IF \E i \in DOMAIN q : SourceKey(q[i]) = SourceKey(r) THEN q ELSE Append(q, r),
           <<>>, refs)

(* _citation takes an empty id for none; the key of a source does not.     *)
HasId(id) == id \notin {NoId, ""}

Citation(ref) ==
  IF HasId(ref.doi) THEN <<"doi", ref.doi>>
  ELSE IF HasId(ref.arxiv) THEN <<"arXiv", ref.arxiv>>
  ELSE <<"url", ref.url>>

(* The text has arrived and the report is put together.  If the call fails *)
(* the node raises.                                                        *)
Write ==
  /\ pc[0] = "asking"
  /\ pc' = [pc EXCEPT ![0] = "answered"]
  /\ sources' = Distinct([i \in DOMAIN findings |-> findings[i].ref])
  /\ UNCHANGED <<first, attempt, limited, slept, answer, findings>>

Step(c) ==
  \/ \E limit \in BOOLEAN : Fail(c, limit)
  \/ c # 0 /\ \E r \in Relevances, ref \in Refs : Answer(c, r, ref)
  \/ c = 0 /\ Write

Next == EndBatch \/ \E c \in Calls : Step(c) \/ WakeUp(c)

Spec == Init /\ [][Next]_vars

(* Every attempt ends by its timeout, every sleep ends, and the event loop *)
(* resumes run when the last call of a batch is done.                      *)
FairSpec ==
  Spec /\ WF_vars(EndBatch) /\ \A c \in Calls : WF_vars(Step(c)) /\ WF_vars(WakeUp(c))
-----------------------------------------------------------------------------
(* The findings are those of the papers the model was able to judge and    *)
(* found relevant, one for each, in the order of the papers, however the   *)
(* calls of a batch overtake each other and whichever of them fail         *)
(* (analysis.py:22-41).                                                    *)
FindingsInOrder ==
  LET judged == {p \in Papers : p < first}
  IN  /\ \A i \in DOMAIN findings : findings[i] = answer[findings[i].paper]
      /\ \A i, j \in DOMAIN findings : i < j => findings[i].paper < findings[j].paper
      /\ {findings[i].paper : i \in DOMAIN findings} = {p \in judged : Kept(p)}
      /\ \A p \in judged : Kept(p) \/ pc[p] = "answered" \/ attempt[p] = MaxRetries

(* The sleeps of a call add up to the geometric series of the backoff, or  *)
(* more when rate limits stretched some of them, and a call that is given  *)
(* up has slept after every attempt but the last (llm/base.py:63-99).      *)
SleepAddsUp ==
  \A c \in Calls :
    LET sleeps == IF pc[c] = "sleeping" THEN attempt[c] ELSE attempt[c] - 1
        series == BaseDelay * (2^sleeps - 1)
        hits == IF pc[c] = "failed" THEN limited[c] - 1 ELSE limited[c]
    IN  /\ slept[c] >= series
        /\ slept[c] >= hits * LimitDelay
        /\ slept[c] <= series + limited[c] * LimitDelay

SameReference(r, s) == r.title = s.title /\ r.doi = s.doi /\ r.arxiv = s.arxiv

(* The sources of a report are the references of its findings, with those *)
(* of one title and the same ids listed once: every finding has a source   *)
(* of its title and ids, so that a citation by DOI or arXiv id is that of  *)
(* a source; no two sources have title and ids in common; and every source *)
(* is the reference of a finding (report.py:56-74).  The source of a       *)
(* finding cited by its URL may have another URL.                          *)
ReportIsBacked ==
  pc[0] = "answered" =>
    /\ \A i \in DOMAIN findings : \E j \in DOMAIN sources :
         LET ref == findings[i].ref IN
         /\ SameReference(ref, sources[j])
         /\ HasId(ref.doi) \/ HasId(ref.arxiv) => Citation(sources[j]) = Citation(ref)
    /\ \A j, k \in DOMAIN sources : j # k => ~SameReference(sources[j], sources[k])
    /\ \A j \in DOMAIN sources : \E i \in DOMAIN findings : findings[i].ref = sources[j]

(* The report is written, or given up, after finitely many attempts,       *)
(* whatever becomes of the analysis.                                       *)
AnalysisEnds == <>(pc[0] \in {"answered", "failed"})
===============================================================================
