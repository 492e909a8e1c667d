------------------------ MODULE SemanticScholarProofs ------------------------
(***************************************************************************)
(* The Semantic Scholar client, proved for any number of searches, slots,  *)
(* tasks and attempts and any intervals: its slots are accounted for and   *)
(* its requests are spaced in every task of the process, and in the first  *)
(* one no search comes back empty without a cause.                         *)
(***************************************************************************)
EXTENDS SemanticScholar, FiniteSetTheorems, TLAPS

USE SearchesAssumption, SlotsAssumption, TimesAssumption, AttemptsAssumption,
    BoundsAssumption

(* The lock is held by the one search that sleeps in it, and until then no *)
(* other request goes out.                                                 *)
LockInv ==
  /\ locked = (\E s \in Searches : pc[s] = "pause")
  /\ \A s, t \in Searches : pc[s] = "pause" /\ pc[t] = "pause" => s = t
  /\ \A s \in Searches : pc[s] = "pause" => wake[s] = lastRequest + MinInterval

(* The attempts of a search that has one left, that is asking, and that is *)
(* being punished for it.                                                  *)
AttemptsOf(s) ==
  /\ pc[s] \in {"ready", "slot", "lock", "pause", "backoff"} => asked[s] < MaxAttempts
  /\ pc[s] \in {"request", "penalty"} => asked[s] > 0
  /\ pc[s] = "penalty" => outcome[s] = "failed"
  /\ result[s] = "empty" => pc[s] = "done"

SlotsInv == free = Slots - Cardinality(Holders)

IInv ==
  /\ TypeOK
  /\ SlotsInv
  /\ LockInv
  /\ \A s \in Searches : AttemptsOf(s)
  /\ FirstTaskGivesUpForCause

(* The backoff is a natural number.                                        *)
LEMMA BackoffType == ASSUME NEW k \in Nat \ {0} PROVE Backoff(k) \in Nat
  <1>1. 2^(k - 1) \in Int
    OBVIOUS
  <1> QED BY <1>1 DEF Backoff

(* Of finitely many searches a number holds a slot.                        *)
LEMMA HoldersFinite == IsFiniteSet(Holders) /\ Cardinality(Holders) \in Nat
  BY FS_Subset, FS_CardinalityType DEF Holders

(* A step of one search changes the number of holders by what that search  *)
(* does.                                                                   *)
LEMMA HoldersChange ==
  ASSUME NEW s \in Searches,
         \A t \in Searches \ {s} : pc'[t] = pc[t]
  PROVE  /\ Holding(s) = Holding(s)' => Cardinality(Holders)' = Cardinality(Holders)
         /\ ~Holding(s) /\ Holding(s)' => Cardinality(Holders)' = Cardinality(Holders) + 1
         /\ Holding(s) /\ ~Holding(s)' => Cardinality(Holders)' = Cardinality(Holders) - 1
  <1>1. IsFiniteSet(Holders) /\ Cardinality(Holders) \in Nat
    BY HoldersFinite
  <1>2. ASSUME Holding(s) = Holding(s)'
        PROVE  Holders' = Holders
    BY <1>2 DEF Holders, Holding
  <1>3. ASSUME ~Holding(s), Holding(s)'
        PROVE  Holders' = Holders \union {s} /\ s \notin Holders
    BY <1>3 DEF Holders, Holding
  <1>4. ASSUME Holding(s), ~Holding(s)'
        PROVE  Holders' = Holders \ {s} /\ s \in Holders
    BY <1>4 DEF Holders, Holding
  <1> QED BY <1>1, <1>2, <1>3, <1>4, FS_AddElement, FS_RemoveElement

(* The initial state satisfies the invariant.                              *)
LEMMA InitIInv == Init => IInv
  <1> SUFFICES ASSUME Init PROVE IInv
    OBVIOUS
  <1>1. Holders = {}
    BY DEF Init, Holders, Holding
  <1>2. Cardinality(Holders) = 0
    BY <1>1, FS_EmptySet
  <1>3. -MinInterval \in Int /\ -MinInterval <= Timeout /\ 0 <= Timeout
    OBVIOUS
  <1>4. TypeOK
    <2>1. lastRequest \in (-MinInterval)..Timeout /\ elapsed \in 0..Timeout
      BY <1>3 DEF Init
    <2>2. loop \in 1..MaxLoops /\ free \in 0..Slots /\ semLoop \in 0..loop /\ lockLoop \in 0..loop
      BY DEF Init
    <2>3. 0 \in 0..MaxAttempts
      OBVIOUS
    <2>6. locked \in BOOLEAN /\ pc \in [Searches -> Places]
      BY DEF Init, Places
    <2>5. wake \in [Searches -> Nat] /\ asked \in [Searches -> 0..MaxAttempts]
      BY <2>3 DEF Init
    <2>4. /\ outcome \in [Searches -> {"none", "answer", "failed", "fatal"}]
          /\ result \in [Searches -> {"pending", "papers", "empty", "timeout"}]
      BY DEF Init
    <2> QED BY <2>1, <2>2, <2>4, <2>5, <2>6 DEF TypeOK
  <1>5. SlotsInv
    BY <1>2 DEF Init, SlotsInv
  <1>6. LockInv
    <2>1. locked = FALSE /\ ~(\E s \in Searches : pc[s] = "pause")
      BY DEF Init
    <2> QED BY <2>1 DEF LockInv
  <1>7. \A s \in Searches : AttemptsOf(s) /\ EmptyForCause(s)
    BY DEF Init, AttemptsOf, EmptyForCause
  <1> QED BY <1>4, <1>5, <1>6, <1>7 DEF IInv, FirstTaskGivesUpForCause

(* What a step of one search has to respect, whichever step it is: w is    *)
(* the place it goes to and h what it adds to the number of holders.       *)
LEMMA SearchStep ==
  ASSUME IInv, NEW s \in Searches, NEW x \in Places, NEW w \in Nat,
         loop' = loop, elapsed' = elapsed,
         semLoop' \in 0..loop, lockLoop' \in 0..loop,
         pc' = [pc EXCEPT ![s] = x],
         wake' = [wake EXCEPT ![s] = w],
         result' \in [Searches -> {"pending", "papers", "empty", "timeout"}],
         outcome' \in [Searches -> {"none", "answer", "failed", "fatal"}],
         asked' \in [Searches -> 0..MaxAttempts],
         \A t \in Searches \ {s} :
           result'[t] = result[t] /\ outcome'[t] = outcome[t] /\ asked'[t] = asked[t],
         lastRequest' \in (-MinInterval)..Timeout,
         locked' \in BOOLEAN,
         free' \in Nat,
         /\ Holding(s) = Holding(s)' => free' = free
         /\ ~Holding(s) /\ Holding(s)' => free' = free - 1
         /\ Holding(s) /\ ~Holding(s)' => free' = free + 1,
         /\ x = "pause" => /\ ~locked /\ locked'
                           /\ lastRequest' = lastRequest /\ w = lastRequest + MinInterval
         /\ x # "pause" /\ pc[s] = "pause" => ~locked'
         /\ x # "pause" /\ pc[s] # "pause" =>
              locked' = locked /\ (lastRequest' = lastRequest \/ ~locked),
         AttemptsOf(s)',
         loop = 1 => EmptyForCause(s)'
  PROVE  IInv'
  <1>1. /\ TypeOK /\ SlotsInv /\ LockInv
        /\ \A t \in Searches : AttemptsOf(t)
        /\ loop = 1 => \A t \in Searches : EmptyForCause(t)
    BY DEF IInv, FirstTaskGivesUpForCause
  <1>2. \A t \in Searches \ {s} :
          /\ pc'[t] = pc[t] /\ wake'[t] = wake[t] /\ result'[t] = result[t]
          /\ outcome'[t] = outcome[t] /\ asked'[t] = asked[t]
    BY <1>1 DEF TypeOK
  <1>3. pc'[s] = x /\ wake'[s] = w
    BY <1>1 DEF TypeOK
  <1>4. SlotsInv'
    <2>1. Cardinality(Holders) \in Nat /\ free = Slots - Cardinality(Holders)
      BY <1>1, HoldersFinite DEF SlotsInv
    <2>2. Cardinality(Holders)' \in Nat
      BY HoldersFinite, HoldersChange, <1>2, <2>1, FS_Subset, FS_CardinalityType
         DEF Holders
    <2> QED BY <1>2, <2>1, <2>2, HoldersChange DEF SlotsInv, Holding
  <1>5. TypeOK'
    <2>1. Cardinality(Holders)' \in Nat
      BY FS_Subset, FS_CardinalityType DEF Holders
    <2>2. free' \in 0..Slots
      BY <1>4, <2>1 DEF SlotsInv
    <2> QED BY <1>1, <2>2 DEF TypeOK
  <1>6. LockInv'
    <2> DEFINE P(t) == pc[t] = "pause"
    <2>1. /\ locked <=> \E t \in Searches : P(t)
          /\ \A t, u \in Searches : P(t) /\ P(u) => t = u
          /\ \A t \in Searches : P(t) => wake[t] = lastRequest + MinInterval
      BY <1>1 DEF LockInv, TypeOK
    <2>2. \A t \in Searches \ {s} : pc'[t] = "pause" <=> P(t)
      BY <1>2
    <2>3. CASE x = "pause"
      <3>1. /\ \A t \in Searches \ {s} : pc'[t] # "pause"
            /\ pc'[s] = "pause" /\ wake'[s] = lastRequest' + MinInterval /\ locked'
        BY <1>3, <2>1, <2>2, <2>3
      <3>2. locked' = TRUE /\ \E t \in Searches : pc'[t] = "pause"
        BY <3>1
      <3> QED BY <3>1, <3>2 DEF LockInv
    <2>4. CASE x # "pause" /\ pc[s] = "pause"
      <3>1. \A t \in Searches : pc'[t] # "pause"
        BY <1>3, <2>1, <2>2, <2>4
      <3>2. locked' = FALSE /\ ~ \E t \in Searches : pc'[t] = "pause"
        BY <2>4, <3>1
      <3> QED BY <3>1, <3>2 DEF LockInv
    <2>5. CASE x # "pause" /\ pc[s] # "pause"
      <3>1. \A t \in Searches : pc'[t] = "pause" <=> P(t)
        BY <1>3, <2>2, <2>5
      <3>2. locked' <=> \E t \in Searches : pc'[t] = "pause"
        BY <2>1, <2>5, <3>1
      <3>3. \A t, u \in Searches : pc'[t] = "pause" /\ pc'[u] = "pause" => t = u
        BY <2>1, <3>1
      <3>4. \A t \in Searches : pc'[t] = "pause" => wake'[t] = lastRequest' + MinInterval
        BY <1>2, <2>1, <2>5, <3>1
      <3> QED BY <3>2, <3>3, <3>4 DEF LockInv
    <2> QED BY <2>3, <2>4, <2>5
  <1>7. \A t \in Searches : AttemptsOf(t)'
    BY <1>1, <1>2 DEF AttemptsOf
  <1>8. FirstTaskGivesUpForCause'
    BY <1>1, <1>2 DEF FirstTaskGivesUpForCause, EmptyForCause
  <1> QED BY <1>4, <1>5, <1>6, <1>7, <1>8 DEF IInv

(* The places in and outside of the semaphore.                             *)
LEMMA HoldingPlaces ==
  ASSUME TypeOK, NEW s \in Searches, NEW x \in Places, pc' = [pc EXCEPT ![s] = x]
  PROVE  /\ Holding(s)' <=> x \in {"lock", "pause", "request", "penalty"}
         /\ Holding(s) \in BOOLEAN /\ Holding(s)' \in BOOLEAN
  BY DEF TypeOK, Holding

(* A search that comes to the lock or waits for it and can take it: either *)
(* it sends at once or it sleeps in the lock.                              *)
LEMMA TakeLockStep ==
  ASSUME IInv, NEW s \in Searches, pc[s] \in {"ready", "backoff", "slot", "lock"},
         TakeLock(s),
         UNCHANGED <<clock, semLoop, outcome>>, lockLoop' = lockLoop,
         free' \in Nat,
         pc[s] = "lock" => free' = free,
         pc[s] # "lock" => free' = free - 1
  PROVE  IInv'
  <1>1. TypeOK /\ LockInv /\ AttemptsOf(s)
    BY DEF IInv
  <1>2. loop = 1 => EmptyForCause(s)
    BY DEF IInv, FirstTaskGivesUpForCause
  <1>3. result[s] # "empty" /\ asked[s] \in Nat /\ asked[s] < MaxAttempts
        /\ elapsed \in 0..Timeout /\ lastRequest \in (-MinInterval)..Timeout
    BY <1>1 DEF AttemptsOf, TypeOK
  <1>4. ~locked /\ pc[s] # "pause"
    BY <1>1 DEF TakeLock, LockInv
  <1>5. Holding(s) <=> pc[s] = "lock"
    BY DEF Holding
  <1>6. ASSUME elapsed - lastRequest >= MinInterval, Send(s) PROVE IInv'
    <2>1. /\ locked' = FALSE /\ lastRequest' = elapsed
          /\ asked' = [asked EXCEPT ![s] = asked[s] + 1]
          /\ pc' = [pc EXCEPT ![s] = "request"] /\ wake' = [wake EXCEPT ![s] = 0]
          /\ result' = result /\ outcome' = outcome /\ loop' = loop /\ elapsed' = elapsed
          /\ semLoop' = semLoop
      BY <1>6 DEF Send, Wait, Sleep, clock
    <2>2. /\ asked' \in [Searches -> 0..MaxAttempts]
          /\ \A t \in Searches \ {s} : asked'[t] = asked[t]
          /\ elapsed \in (-MinInterval)..Timeout /\ "request" \in Places /\ 0 \in Nat
          /\ asked'[s] > 0
      BY <1>1, <1>3, <2>1 DEF TypeOK, Places
    <2>3. Holding(s)'
      BY <1>1, <2>1, <2>2, HoldingPlaces
    <2>4. AttemptsOf(s)' /\ (loop = 1 => EmptyForCause(s)')
      BY <1>1, <1>3, <2>1, <2>2 DEF AttemptsOf, EmptyForCause, TypeOK
    <2> QED BY <1>1, <1>4, <1>5, <2>1, <2>2, <2>3, <2>4, SearchStep DEF TypeOK
  <1>7. ASSUME elapsed - lastRequest < MinInterval, locked' = TRUE,
               Sleep(s, "pause", lastRequest + MinInterval),
               UNCHANGED <<lastRequest, asked>>
        PROVE  IInv'
    <2>1. /\ pc' = [pc EXCEPT ![s] = "pause"]
          /\ wake' = [wake EXCEPT ![s] = lastRequest + MinInterval]
          /\ result' = result /\ outcome' = outcome /\ loop' = loop /\ elapsed' = elapsed
          /\ semLoop' = semLoop /\ asked' = asked /\ lastRequest' = lastRequest /\ locked'
      BY <1>7 DEF Sleep, clock
    <2>2. lastRequest + MinInterval \in Nat /\ "pause" \in Places
      BY <1>3 DEF Places
    <2>3. Holding(s)'
      BY <1>1, <2>1, <2>2, HoldingPlaces
    <2>4. AttemptsOf(s)' /\ (loop = 1 => EmptyForCause(s)')
      BY <1>1, <1>3, <2>1, <2>2 DEF AttemptsOf, EmptyForCause, TypeOK
    <2> QED BY <1>1, <1>4, <1>5, <1>7, <2>1, <2>2, <2>3, <2>4, SearchStep DEF TypeOK
  <1> QED BY <1>6, <1>7 DEF TakeLock

(* A step to a place that is neither the lock nor a request: it leaves the *)
(* requests alone, and the lock too unless it was sleeping in it.          *)
LEMMA QuietStep ==
  ASSUME IInv, NEW s \in Searches, NEW x \in Places \ {"pause", "request", "penalty"},
         NEW w \in Nat, pc' = [pc EXCEPT ![s] = x], wake' = [wake EXCEPT ![s] = w],
         UNCHANGED <<clock, lastRequest, asked>>,
         semLoop' \in 0..loop, lockLoop' \in 0..loop,
         result' \in [Searches -> {"pending", "papers", "empty", "timeout"}],
         outcome' \in [Searches -> {"none", "answer", "failed", "fatal"}],
         \A t \in Searches \ {s} : result'[t] = result[t] /\ outcome'[t] = outcome[t],
         x = "done" \/ (result'[s] # "empty" /\ asked[s] < MaxAttempts),
         loop = 1 => EmptyForCause(s)',
         locked' = (locked /\ pc[s] # "pause"),
         /\ Holding(s) /\ x # "lock" => free' = free + 1
         /\ ~Holding(s) /\ x = "lock" => free > 0 /\ free' = free - 1
         /\ ~Holding(s) /\ x # "lock" => free' = free
         /\ Holding(s) => x # "lock"
  PROVE  IInv'
  <1>1. TypeOK
    BY DEF IInv
  <1>2. Holding(s)' <=> x = "lock"
    BY <1>1, HoldingPlaces DEF Places
  <1>3. free' \in Nat /\ free \in Nat
    BY <1>1 DEF TypeOK, Holding
  <1>4. AttemptsOf(s)'
    BY <1>1 DEF AttemptsOf, TypeOK
  <1>5. locked' \in BOOLEAN /\ (pc[s] = "pause" => ~locked') /\ (pc[s] # "pause" => locked' = locked)
    BY <1>1 DEF TypeOK
  <1>6. loop' = loop /\ elapsed' = elapsed /\ lastRequest' = lastRequest /\ asked' = asked
        /\ lastRequest \in (-MinInterval)..Timeout /\ asked \in [Searches -> 0..MaxAttempts]
        /\ x # "pause" /\ x \in Places
    BY <1>1 DEF TypeOK, clock
  <1> QED BY <1>2, <1>3, <1>4, <1>5, <1>6, SearchStep

(* A step that ends the search or puts it to sleep or to wait.             *)
LEMMA FinishIs ==
  ASSUME TypeOK, NEW s \in Searches, NEW r \in {"pending", "papers", "empty", "timeout"},
         Finish(s, r)
  PROVE  /\ pc' = [pc EXCEPT ![s] = "done"] /\ wake' = [wake EXCEPT ![s] = 0]
         /\ "done" \in Places \ {"pause", "request", "penalty"} /\ 0 \in Nat
         /\ result' \in [Searches -> {"pending", "papers", "empty", "timeout"}]
         /\ \A t \in Searches \ {s} : result'[t] = result[t]
         /\ result'[s] = r
  BY DEF TypeOK, Finish, Places

(* The start of an attempt, and the slot it has waited for.                *)
LEMMA ComeToLockStep ==
  ASSUME IInv, NEW s \in Searches, pc[s] \in {"ready", "backoff", "slot"},
         free > 0, ComeToLock(s), UNCHANGED <<clock, semLoop, outcome>>
  PROVE  IInv'
  <1>1. TypeOK /\ LockInv /\ AttemptsOf(s) /\ (loop = 1 => EmptyForCause(s))
    BY DEF IInv, FirstTaskGivesUpForCause
  <1>2. free \in Nat /\ lockLoop \in 0..loop /\ semLoop' \in 0..loop /\ loop \in Nat /\ loop >= 1
        /\ outcome' \in [Searches -> {"none", "answer", "failed", "fatal"}]
        /\ (\A t \in Searches \ {s} : outcome'[t] = outcome[t])
        /\ result[s] # "empty" /\ asked[s] < MaxAttempts /\ ~Holding(s)
    BY <1>1 DEF TypeOK, AttemptsOf, Holding
  <1>3. ASSUME TakeLock(s), free' = free - 1, UNCHANGED lockLoop PROVE IInv'
    <2>1. free' \in Nat
      BY <1>2, <1>3
    <2> QED BY <1>3, <2>1, TakeLockStep
  <1>4. ASSUME lockLoop \in {0, loop}, lockLoop' = loop, free' = free - 1, Wait(s, "lock"),
               UNCHANGED <<locked, lastRequest, asked>>
        PROVE  IInv'
    <2>1. /\ pc' = [pc EXCEPT ![s] = "lock"] /\ wake' = [wake EXCEPT ![s] = 0] /\ result' = result
          /\ "lock" \in Places \ {"pause", "request", "penalty"} /\ 0 \in Nat
      BY <1>4 DEF Wait, Sleep, Places
    <2>2. (loop = 1 => EmptyForCause(s)') /\ locked' = (locked /\ pc[s] # "pause")
          /\ lockLoop' \in 0..loop
          /\ result' \in [Searches -> {"pending", "papers", "empty", "timeout"}]
      BY <1>1, <1>2, <1>4, <2>1 DEF EmptyForCause, TypeOK
    <2> QED BY <1>2, <1>4, <2>1, <2>2, QuietStep
  <1>5. ASSUME lockLoop \notin {0, loop}, Finish(s, "empty"),
               UNCHANGED <<lockLoop, free, locked, lastRequest, asked>>
        PROVE  IInv'
    <2>1. loop # 1
      BY <1>2, <1>5
    <2>2. locked' = (locked /\ pc[s] # "pause")
      BY <1>1, <1>5 DEF TypeOK
    <2> QED BY <1>1, <1>2, <1>5, <2>1, <2>2, FinishIs, QuietStep
  <1> QED BY <1>3, <1>4, <1>5 DEF ComeToLock

(* An attempt begins.                                                      *)
LEMMA AttemptStep == ASSUME IInv, NEW s \in Searches, Attempt(s) PROVE IInv'
  <1>1. TypeOK /\ LockInv /\ AttemptsOf(s) /\ (loop = 1 => EmptyForCause(s))
        /\ pc[s] \in {"ready", "backoff"} /\ UNCHANGED <<clock, outcome>>
    BY DEF IInv, FirstTaskGivesUpForCause, Attempt
  <1>2. semLoop \in 0..loop /\ lockLoop \in 0..loop /\ loop \in Nat /\ loop >= 1
        /\ (\A t \in Searches \ {s} : outcome'[t] = outcome[t])
        /\ outcome' \in [Searches -> {"none", "answer", "failed", "fatal"}]
        /\ result[s] # "empty" /\ asked[s] < MaxAttempts /\ ~Holding(s)
    BY <1>1 DEF TypeOK, AttemptsOf, Holding
  <1>3. ASSUME free > 0, ComeToLock(s), UNCHANGED semLoop PROVE IInv'
    BY <1>1, <1>3, ComeToLockStep
  <1>4. ASSUME UNCHANGED <<lockLoop, free, locked, lastRequest, asked>>
        PROVE  /\ lockLoop' \in 0..loop /\ locked' = (locked /\ pc[s] # "pause")
               /\ UNCHANGED <<clock, lastRequest, asked>> /\ free' = free
    BY <1>1, <1>2, <1>4 DEF TypeOK
  <1>5. ASSUME semLoop' = loop, Wait(s, "slot"),
               UNCHANGED <<lockLoop, free, locked, lastRequest, asked>>
        PROVE  IInv'
    <2>1. /\ pc' = [pc EXCEPT ![s] = "slot"] /\ wake' = [wake EXCEPT ![s] = 0] /\ result' = result
          /\ "slot" \in Places \ {"pause", "request", "penalty"} /\ 0 \in Nat
      BY <1>5 DEF Wait, Sleep, Places
    <2>2. (loop = 1 => EmptyForCause(s)') /\ semLoop' \in 0..loop
          /\ result' \in [Searches -> {"pending", "papers", "empty", "timeout"}]
      BY <1>1, <1>2, <1>5, <2>1 DEF EmptyForCause, TypeOK
    <2> QED BY <1>2, <1>4, <1>5, <2>1, <2>2, QuietStep
  <1>6. ASSUME semLoop \notin {0, loop}, Finish(s, "empty"), UNCHANGED semLoop,
               UNCHANGED <<lockLoop, free, locked, lastRequest, asked>>
        PROVE  IInv'
    <2>1. loop # 1
      BY <1>2, <1>6
    <2> QED BY <1>1, <1>2, <1>4, <1>6, <2>1, FinishIs, QuietStep
  <1> QED BY <1>3, <1>5, <1>6 DEF Attempt

(* A search that has waited gets the slot or the lock.                     *)
LEMMA GetStep ==
  ASSUME IInv, NEW s \in Searches, GetSlot(s) \/ GetLock(s) PROVE IInv'
  <1>1. CASE GetSlot(s)
    BY <1>1, ComeToLockStep DEF GetSlot
  <1>2. CASE GetLock(s)
    BY <1>2, TakeLockStep DEF GetLock, IInv, TypeOK
  <1> QED BY <1>1, <1>2

(* The sleep in the lock is over and the request goes out.                 *)
LEMMA PauseOverStep == ASSUME IInv, NEW s \in Searches, PauseOver(s) PROVE IInv'
  <1>1. TypeOK /\ LockInv /\ AttemptsOf(s) /\ (loop = 1 => EmptyForCause(s))
    BY DEF IInv, FirstTaskGivesUpForCause
  <1>2. /\ pc[s] = "pause" /\ locked' = FALSE /\ lastRequest' = elapsed
        /\ asked' = [asked EXCEPT ![s] = asked[s] + 1]
        /\ pc' = [pc EXCEPT ![s] = "request"] /\ wake' = [wake EXCEPT ![s] = 0]
        /\ result' = result /\ outcome' = outcome /\ loop' = loop /\ elapsed' = elapsed
        /\ semLoop' = semLoop /\ lockLoop' = lockLoop /\ free' = free
    BY DEF PauseOver, Send, Wait, Sleep, clock
  <1>3. result[s] # "empty" /\ asked[s] \in Nat /\ asked[s] < MaxAttempts
        /\ elapsed \in 0..Timeout
    BY <1>1, <1>2 DEF AttemptsOf, TypeOK
  <1>4. /\ asked' \in [Searches -> 0..MaxAttempts]
        /\ \A t \in Searches \ {s} : asked'[t] = asked[t]
        /\ elapsed \in (-MinInterval)..Timeout /\ "request" \in Places /\ 0 \in Nat
        /\ asked'[s] > 0
    BY <1>1, <1>2, <1>3 DEF TypeOK, Places
  <1>5. Holding(s)' /\ Holding(s)
    BY <1>1, <1>2, <1>4, HoldingPlaces DEF Holding
  <1>6. AttemptsOf(s)' /\ (loop = 1 => EmptyForCause(s)')
    BY <1>1, <1>2, <1>3, <1>4 DEF AttemptsOf, EmptyForCause, TypeOK
  <1>7. /\ semLoop' \in 0..loop /\ lockLoop' \in 0..loop /\ locked' \in BOOLEAN /\ ~locked'
        /\ lastRequest' \in (-MinInterval)..Timeout /\ free' \in Nat
        /\ result' \in [Searches -> {"pending", "papers", "empty", "timeout"}]
        /\ outcome' \in [Searches -> {"none", "answer", "failed", "fatal"}]
        /\ "request" # "pause"
    <2>1. semLoop' \in 0..loop /\ lockLoop' \in 0..loop /\ free' \in Nat
      BY <1>1, <1>2 DEF TypeOK
    <2>2. locked' \in BOOLEAN /\ ~locked'
      BY <1>2
    <2>3. lastRequest' \in (-MinInterval)..Timeout
      BY <1>2, <1>4
    <2> QED BY <1>1, <1>2, <2>1, <2>2, <2>3 DEF TypeOK
  <1> QED BY <1>2, <1>4, <1>5, <1>6, <1>7, SearchStep

(* An attempt fails and the slot is given back.                            *)
LEMMA FailAttemptStep ==
  ASSUME IInv, NEW s \in Searches, pc[s] \in {"request", "penalty"},
         FailAttempt(s), free' = free + 1,
         UNCHANGED <<clock, semLoop, lockLoop, locked, lastRequest, asked>>,
         outcome' \in [Searches -> {"none", "answer", "failed", "fatal"}],
         \A t \in Searches \ {s} : outcome'[t] = outcome[t],
         outcome'[s] = "failed"
  PROVE  IInv'
  <1>1. TypeOK /\ LockInv /\ AttemptsOf(s) /\ (loop = 1 => EmptyForCause(s))
    BY DEF IInv, FirstTaskGivesUpForCause
  <1>2. /\ semLoop' \in 0..loop /\ lockLoop' \in 0..loop /\ locked' = (locked /\ pc[s] # "pause")
        /\ Holding(s) /\ asked[s] \in 1..MaxAttempts /\ elapsed \in Nat /\ result[s] # "empty"
    BY <1>1 DEF TypeOK, AttemptsOf, Holding, clock
  <1>3. ASSUME asked[s] < MaxAttempts, Sleep(s, "backoff", elapsed + Backoff(asked[s]))
        PROVE  IInv'
    <2>1. elapsed + Backoff(asked[s]) \in Nat
      BY <1>2, BackoffType
    <2>2. /\ pc' = [pc EXCEPT ![s] = "backoff"]
          /\ wake' = [wake EXCEPT ![s] = elapsed + Backoff(asked[s])] /\ result' = result
          /\ "backoff" \in Places \ {"pause", "request", "penalty"}
      BY <1>3 DEF Sleep, Places
    <2>3. (loop = 1 => EmptyForCause(s)')
          /\ result' \in [Searches -> {"pending", "papers", "empty", "timeout"}]
      BY <1>1, <1>2, <2>2 DEF EmptyForCause, TypeOK
    <2> QED BY <1>2, <1>3, <2>1, <2>2, <2>3, QuietStep
  <1>4. ASSUME asked[s] >= MaxAttempts, Finish(s, "empty") PROVE IInv'
    <2>1. asked'[s] = MaxAttempts
      BY <1>2, <1>4
    <2>2. EmptyForCause(s)'
      BY <2>1 DEF EmptyForCause
    <2> QED BY <1>1, <1>2, <1>4, <2>2, FinishIs, QuietStep
  <1> QED BY <1>3, <1>4 DEF FailAttempt

(* The response.                                                           *)
LEMMA RespondStep ==
  ASSUME IInv, NEW s \in Searches, NEW o \in {"answer", "failed", "limited", "fatal"},
         Respond(s, o)
  PROVE  IInv'
  <1>1. TypeOK /\ LockInv /\ AttemptsOf(s) /\ (loop = 1 => EmptyForCause(s))
    BY DEF IInv, FirstTaskGivesUpForCause
  <1>2. /\ pc[s] = "request"
        /\ outcome' = [outcome EXCEPT ![s] = IF o = "limited" THEN "failed" ELSE o]
        /\ UNCHANGED <<clock, semLoop, lockLoop, locked, lastRequest, asked>>
    BY DEF Respond
  <1>3. /\ outcome' \in [Searches -> {"none", "answer", "failed", "fatal"}]
        /\ \A t \in Searches \ {s} : outcome'[t] = outcome[t]
        /\ o # "limited" => outcome'[s] = o
        /\ o = "limited" => outcome'[s] = "failed"
    BY <1>1, <1>2 DEF TypeOK
  <1>4. /\ semLoop' \in 0..loop /\ lockLoop' \in 0..loop /\ locked' = (locked /\ pc[s] # "pause")
        /\ Holding(s) /\ asked[s] \in 1..MaxAttempts /\ elapsed \in Nat /\ result[s] # "empty"
    BY <1>1, <1>2 DEF TypeOK, AttemptsOf, Holding, clock
  <1>5. ASSUME o = "answer", free' = free + 1, Finish(s, "papers") PROVE IInv'
    <2>1. EmptyForCause(s)'
      BY <1>1, <1>5, FinishIs DEF EmptyForCause
    <2>2. /\ pc' = [pc EXCEPT ![s] = "done"] /\ wake' = [wake EXCEPT ![s] = 0]
          /\ "done" \in Places \ {"pause", "request", "penalty"} /\ 0 \in Nat
          /\ result' \in [Searches -> {"pending", "papers", "empty", "timeout"}]
          /\ \A t \in Searches \ {s} : result'[t] = result[t]
      BY <1>1, <1>5, FinishIs
    <2>3. UNCHANGED <<clock, lastRequest, asked>>
      BY <1>2
    <2> QED BY <1>3, <1>4, <1>5, <2>1, <2>2, <2>3, QuietStep
  <1>6. ASSUME o = "fatal", free' = free + 1, Finish(s, "empty") PROVE IInv'
    <2>1. EmptyForCause(s)'
      BY <1>3, <1>6 DEF EmptyForCause
    <2>2. /\ pc' = [pc EXCEPT ![s] = "done"] /\ wake' = [wake EXCEPT ![s] = 0]
          /\ "done" \in Places \ {"pause", "request", "penalty"} /\ 0 \in Nat
          /\ result' \in [Searches -> {"pending", "papers", "empty", "timeout"}]
          /\ \A t \in Searches \ {s} : result'[t] = result[t]
      BY <1>1, <1>6, FinishIs
    <2>3. UNCHANGED <<clock, lastRequest, asked>>
      BY <1>2
    <2> QED BY <1>3, <1>4, <1>6, <2>1, <2>2, <2>3, QuietStep
  <1>7. ASSUME o = "failed", free' = free + 1, FailAttempt(s) PROVE IInv'
    BY <1>2, <1>3, <1>7, FailAttemptStep
  <1>8. ASSUME o = "limited", NEW p \in Penalties, Sleep(s, "penalty", elapsed + p),
               UNCHANGED free
        PROVE  IInv'
    <2>1. /\ pc' = [pc EXCEPT ![s] = "penalty"] /\ wake' = [wake EXCEPT ![s] = elapsed + p]
          /\ result' = result /\ "penalty" \in Places
          /\ loop' = loop /\ elapsed' = elapsed /\ asked' = asked
          /\ lastRequest' = lastRequest /\ locked' = locked /\ free' = free
      BY <1>2, <1>8 DEF Sleep, Places, clock
    <2>5. elapsed + p \in Nat
      <3>1. p \in Nat
        BY <1>8
      <3> QED BY <1>4, <3>1
    <2>2. Holding(s)'
      BY <1>1, <2>1, HoldingPlaces
    <2>3. AttemptsOf(s)' /\ (loop = 1 => EmptyForCause(s)')
      BY <1>1, <1>3, <1>4, <1>8, <2>1 DEF AttemptsOf, EmptyForCause, TypeOK
    <2>4. /\ result' \in [Searches -> {"pending", "papers", "empty", "timeout"}]
          /\ asked' \in [Searches -> 0..MaxAttempts]
          /\ lastRequest' \in (-MinInterval)..Timeout /\ locked' \in BOOLEAN /\ free' \in Nat
      BY <1>1, <2>1 DEF TypeOK
    <2> QED BY <1>2, <1>3, <1>4, <2>1, <2>2, <2>3, <2>4, <2>5, SearchStep
  <1> QED BY <1>5, <1>6, <1>7, <1>8 DEF Respond

(* The sleep after a 429 is over, and the attempt has failed.              *)
LEMMA PenaltyOverStep == ASSUME IInv, NEW s \in Searches, PenaltyOver(s) PROVE IInv'
  <1>1. TypeOK /\ AttemptsOf(s)
    BY DEF IInv
  <1>2. /\ outcome' \in [Searches -> {"none", "answer", "failed", "fatal"}]
        /\ \A t \in Searches \ {s} : outcome'[t] = outcome[t]
        /\ outcome'[s] = "failed"
    BY <1>1 DEF PenaltyOver, TypeOK, AttemptsOf
  <1> QED BY <1>2, FailAttemptStep DEF PenaltyOver

(* The timeout gives back whatever the search holds.                       *)
LEMMA CancelStep == ASSUME IInv, NEW s \in Searches, Cancel(s) PROVE IInv'
  <1>1. TypeOK
    BY DEF IInv
  <1>2. /\ locked' = (locked /\ pc[s] # "pause") /\ Finish(s, "timeout")
        /\ UNCHANGED <<clock, lastRequest, asked>>
        /\ Holding(s) => free' = free + 1
        /\ ~Holding(s) => free' = free
    BY DEF Cancel
  <1>3. /\ semLoop' \in 0..loop /\ lockLoop' \in 0..loop
        /\ outcome' \in [Searches -> {"none", "answer", "failed", "fatal"}]
        /\ \A t \in Searches \ {s} : outcome'[t] = outcome[t]
    BY <1>1 DEF Cancel, TypeOK
  <1>4. /\ pc' = [pc EXCEPT ![s] = "done"] /\ wake' = [wake EXCEPT ![s] = 0]
        /\ "done" \in Places \ {"pause", "request", "penalty"} /\ 0 \in Nat
        /\ result' \in [Searches -> {"pending", "papers", "empty", "timeout"}]
        /\ \A t \in Searches \ {s} : result'[t] = result[t]
        /\ result'[s] = "timeout"
    BY <1>1, <1>2, FinishIs
  <1>5. EmptyForCause(s)'
    BY <1>4 DEF EmptyForCause
  <1> QED BY <1>2, <1>3, <1>4, <1>5, QuietStep

(* Time goes on.                                                           *)
LEMMA TickStep == ASSUME IInv, Tick PROVE IInv'
  <1>1. elapsed' \in 0..Timeout
    BY DEF IInv, TypeOK, Tick
  <1>2. Holders' = Holders
    BY DEF Tick, Holders, Holding
  <1> QED BY <1>1, <1>2 DEF IInv, Tick, TypeOK, SlotsInv, LockInv, AttemptsOf,
             FirstTaskGivesUpForCause, EmptyForCause

(* A new pass starts with everything given back.                           *)
LEMMA NextPassStep == ASSUME IInv, NextPass PROVE IInv'
  <1>1. TypeOK /\ SlotsInv /\ LockInv /\ \A s \in Searches : pc[s] = "done"
    BY DEF IInv, NextPass
  <1>2. Holders = {} /\ Holders' = {}
    BY <1>1 DEF NextPass, StartSearches, Holders, Holding
  <1>3. free = Slots /\ free' = Slots /\ ~locked /\ ~locked'
    <2>1. Cardinality(Holders) = 0 /\ free' = free /\ locked' = locked
      BY <1>2, FS_EmptySet DEF NextPass
    <2>2. free = Slots
      BY <1>1, <2>1 DEF SlotsInv
    <2>3. ~locked
      BY <1>1 DEF LockInv
    <2> QED BY <2>1, <2>2, <2>3
  <1>4. SlotsInv'
    BY <1>2, <1>3, FS_EmptySet DEF SlotsInv
  <1>5. lastRequest' \in (-MinInterval)..Timeout
    <2>1. PICK gap \in 0..MinInterval :
            lastRequest' = IF lastRequest - elapsed - gap < -MinInterval
                             THEN -MinInterval ELSE lastRequest - elapsed - gap
      BY DEF NextPass
    <2>2. lastRequest \in (-MinInterval)..Timeout /\ elapsed \in 0..Timeout /\ gap \in Nat
      BY <1>1 DEF TypeOK
    <2> QED BY <2>1, <2>2
  <1>6. loop' \in 1..MaxLoops /\ semLoop' \in 0..loop' /\ lockLoop' \in 0..loop'
    BY <1>1 DEF NextPass, TypeOK
  <1>7. 0 \in 0..MaxAttempts /\ 0 \in 0..Timeout /\ free' \in 0..Slots
    BY <1>3
  <1>8. TypeOK'
    BY <1>1, <1>5, <1>6, <1>7 DEF TypeOK, NextPass, StartSearches, Places
  <1>9. \A s \in Searches : pc'[s] = "ready" /\ asked'[s] = 0 /\ result'[s] = "pending"
    BY DEF NextPass, StartSearches
  <1>10. LockInv' /\ (\A s \in Searches : AttemptsOf(s)') /\ FirstTaskGivesUpForCause'
    <2>1. locked' = FALSE /\ ~ \E s \in Searches : pc'[s] = "pause"
      BY <1>8, <1>3, <1>9 DEF TypeOK
    <2>2. LockInv'
      BY <1>9, <2>1 DEF LockInv
    <2>3. ASSUME NEW s \in Searches PROVE AttemptsOf(s)' /\ EmptyForCause(s)'
      <3>1. 0 < MaxAttempts
        OBVIOUS
      <3> QED BY <1>9, <3>1 DEF AttemptsOf, EmptyForCause
    <2> QED BY <2>2, <2>3 DEF FirstTaskGivesUpForCause
  <1> QED BY <1>4, <1>8, <1>10 DEF IInv

(* The invariant is inductive.                                             *)
LEMMA NextIInv == IInv /\ [Next]_vars => IInv'
  <1> SUFFICES ASSUME IInv, [Next]_vars PROVE IInv'
    OBVIOUS
  <1>1. CASE UNCHANGED vars
    <2>1. Holders' = Holders
      BY <1>1 DEF vars, Holders, Holding
    <2> QED BY <1>1, <2>1 DEF vars, IInv, TypeOK, SlotsInv, LockInv, AttemptsOf,
               FirstTaskGivesUpForCause, EmptyForCause
  <1>2. ASSUME NEW s \in Searches, Step(s) PROVE IInv'
    BY <1>2, AttemptStep, GetStep, PauseOverStep, PenaltyOverStep, CancelStep, RespondStep
       DEF Step
  <1> QED BY <1>1, <1>2, TickStep, NextPassStep DEF Next

(* It holds in every reachable state.                                      *)
LEMMA Invariance == Spec => []IInv
  BY InitIInv, NextIInv, PTL DEF Spec

(* The variables keep their types.                                         *)
THEOREM TypeCorrect == Spec => []TypeOK
  <1>1. IInv => TypeOK
    BY DEF IInv
  <1> QED BY <1>1, Invariance, PTL

(* No slot and no lock is lost or given back twice.                        *)
THEOREM SlotsAreAccounted == Spec => []SlotsAccounted
  <1>1. IInv => SlotsAccounted
    BY DEF IInv, SlotsInv, LockInv, SlotsAccounted
  <1> QED BY <1>1, Invariance, PTL

(* No search of the first task comes back empty without a cause.           *)
THEOREM FirstTaskIsServed == Spec => []FirstTaskGivesUpForCause
  <1>1. IInv => FirstTaskGivesUpForCause
    BY DEF IInv
  <1> QED BY <1>1, Invariance, PTL

Spaced ==
  \A s \in Searches :
    asked'[s] > asked[s] =>
      elapsed - lastRequest >= MinInterval /\ lastRequest' = elapsed

(* Only a request is counted, and only the one that is sent.               *)
LEMMA QuietIsSpaced ==
  ASSUME TypeOK, \A s \in Searches : asked'[s] \in 0..asked[s]
  PROVE  Spaced
  BY DEF TypeOK, Spaced

(* A request goes out when the interval has passed.                        *)
LEMMA SendIsSpaced ==
  ASSUME TypeOK, NEW s \in Searches, Send(s), elapsed - lastRequest >= MinInterval
  PROVE  Spaced
  BY DEF TypeOK, Send, Spaced

(* So it does when a search takes the lock.                                *)
LEMMA TakeLockIsSpaced ==
  ASSUME TypeOK, NEW s \in Searches, TakeLock(s)
  PROVE  Spaced
  BY SendIsSpaced, QuietIsSpaced DEF TakeLock, TypeOK

(* Or comes to it with a slot.                                             *)
LEMMA ComeToLockIsSpaced ==
  ASSUME TypeOK, NEW s \in Searches, ComeToLock(s)
  PROVE  Spaced
  BY TakeLockIsSpaced, QuietIsSpaced DEF ComeToLock, TypeOK

(* The last request of a search that sleeps in the lock is the last one of *)
(* all, however long it sleeps.                                            *)
LEMMA NextIsSpaced == IInv /\ [Next]_vars => Spaced
  <1> SUFFICES ASSUME IInv, [Next]_vars PROVE Spaced
    OBVIOUS
  <1>1. TypeOK /\ LockInv
    BY DEF IInv
  <1>2. UNCHANGED asked => Spaced
    BY <1>1, QuietIsSpaced DEF TypeOK
  <1>3. ASSUME NextPass PROVE Spaced
    BY <1>1, <1>3, QuietIsSpaced DEF TypeOK, NextPass, StartSearches
  <1>4. ASSUME NEW s \in Searches, Step(s) PROVE Spaced
    <2>1. ASSUME Attempt(s) \/ GetSlot(s) PROVE Spaced
      BY <1>1, <1>2, <2>1, ComeToLockIsSpaced DEF Attempt, GetSlot
    <2>2. ASSUME GetLock(s) PROVE Spaced
      BY <1>1, <2>2, TakeLockIsSpaced DEF GetLock
    <2>3. ASSUME PauseOver(s) PROVE Spaced
      <3>1. Send(s) /\ elapsed >= wake[s] /\ wake[s] = lastRequest + MinInterval
        BY <1>1, <2>3 DEF PauseOver, LockInv
      <3>2. elapsed \in Int /\ lastRequest \in Int
        BY <1>1 DEF TypeOK
      <3> QED BY <1>1, <3>1, <3>2, SendIsSpaced
    <2>4. ASSUME PenaltyOver(s) \/ Cancel(s) PROVE Spaced
      BY <1>2, <2>4 DEF PenaltyOver, Cancel
    <2>5. ASSUME NEW o \in {"answer", "failed", "limited", "fatal"}, Respond(s, o)
          PROVE  Spaced
      BY <1>2, <2>5 DEF Respond
    <2> QED BY <1>4, <2>1, <2>2, <2>3, <2>4, <2>5 DEF Step
  <1>5. ASSUME Tick \/ UNCHANGED vars PROVE Spaced
    BY <1>2, <1>5 DEF Tick, vars
  <1> QED BY <1>3, <1>4, <1>5 DEF Next

(* Every request goes out at least the minimal interval after the last.    *)
THEOREM RequestsAreSpaced == Spec => RequestsSpaced
  <1>1. IInv /\ [Next]_vars => [Spaced]_vars
    BY NextIsSpaced
  <1>2. Spec => [][Spaced]_vars
    BY <1>1, Invariance, PTL DEF Spec
  <1> QED BY <1>2 DEF RequestsSpaced, Spaced
=============================================================================
