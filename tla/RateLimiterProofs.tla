-------------------------- MODULE RateLimiterProofs --------------------------
(***************************************************************************)
(* The sliding window of the rate limit middleware, proved for any number  *)
(* of clients, any limit and any window.  The deque is the tail of the     *)
(* history of admissions, and everything before that tail is older than    *)
(* the window: this is what makes it safe to forget it.                    *)
(***************************************************************************)
EXTENDS RateLimiter, TLAPS

USE LimitAssumption, WindowAssumption, MaxTimeAssumption

(* The number of admissions of c that its deque has forgotten.             *)
Forgotten(c) == Len(admitted[c]) - Len(bucket[c])

(* The deque is the end of the history.                                    *)
IsTail(c) ==
  /\ Len(bucket[c]) <= Len(admitted[c])
  /\ \A j \in 1..Len(bucket[c]) : bucket[c][j] = admitted[c][Forgotten(c) + j]

(* What it has forgotten is older than the window.                         *)
ForgottenAreOld(c) == \A i \in 1..Forgotten(c) : Expired(admitted[c][i])

(* Histories record the past.                                              *)
Past(c) ==
  /\ \A i \in 1..Len(admitted[c]) : admitted[c][i] <= now
  /\ \A t \in refused[c] : t <= now

WindowOf(c) ==
  \A i \in 1..(Len(admitted[c]) - Limit) :
    admitted[c][i + Limit] - admitted[c][i] > Window

JustifiedFor(c) ==
  \A t \in refused[c] :
    \E i \in 1..(Len(admitted[c]) - Limit + 1) :
      /\ t - admitted[c][i] <= Window
      /\ admitted[c][i + Limit - 1] <= t

ClientInv(c) ==
  IsTail(c) /\ ForgottenAreOld(c) /\ Past(c) /\ WindowOf(c) /\ JustifiedFor(c)

IInv == TypeOK /\ \A c \in Clients : ClientInv(c)

(* The initial state satisfies the invariant.                              *)
LEMMA InitIInv == Init => IInv
  BY DEF Init, IInv, TypeOK, ClientInv, IsTail, Forgotten, ForgottenAreOld, Past,
         WindowOf, JustifiedFor

(* What popping keeps: the end of the deque from index k on.               *)
LEMMA KeptIsTail ==
  ASSUME NEW b \in Seq(0..MaxTime), NEW k \in 1..(Len(b) + 1)
  PROVE  /\ Kept(b, k) \in Seq(0..MaxTime)
         /\ Len(Kept(b, k)) = Len(b) - k + 1
         /\ \A j \in 1..(Len(b) - k + 1) : Kept(b, k)[j] = b[k + j - 1]
  BY DEF Kept

(* Popping keeps the deque a tail, and forgets expired timestamps only.    *)
LEMMA PopKeepsTail ==
  ASSUME TypeOK, NEW c \in Clients, IsTail(c), ForgottenAreOld(c),
         NEW k \in 1..(Len(bucket[c]) + 1), FirstKept(bucket[c], k)
  PROVE  LET b == Kept(bucket[c], k)
             n == Len(admitted[c])
         IN  /\ b \in Seq(0..MaxTime)
             /\ Len(b) \in 0..Len(bucket[c])
             /\ Len(b) <= n
             /\ \A j \in 1..Len(b) : b[j] = admitted[c][n - Len(b) + j]
             /\ \A i \in 1..(n - Len(b)) : Expired(admitted[c][i])
  <1> DEFINE b == Kept(bucket[c], k)
             n == Len(admitted[c])
             m == Len(bucket[c])
  <1>1. /\ bucket[c] \in Seq(0..MaxTime) /\ admitted[c] \in Seq(0..MaxTime)
        /\ m \in Nat /\ n \in Nat /\ m <= n /\ k \in 1..(m + 1)
    BY DEF TypeOK, IsTail
  <1>2. /\ b \in Seq(0..MaxTime)
        /\ Len(b) = m - k + 1 /\ Len(b) \in 0..m
        /\ \A j \in 1..(m - k + 1) : b[j] = bucket[c][k + j - 1]
    <2>1. /\ b \in Seq(0..MaxTime)
          /\ Len(b) = m - k + 1
          /\ \A j \in 1..(m - k + 1) : b[j] = bucket[c][k + j - 1]
      BY <1>1, KeptIsTail
    <2> HIDE DEF b
    <2> QED BY <1>1, <2>1
  <1>3. \A j \in 1..m : bucket[c][j] = admitted[c][n - m + j]
    BY DEF IsTail, Forgotten
  <1>4. \A i \in 1..(n - m) : Expired(admitted[c][i])
    BY DEF ForgottenAreOld, Forgotten
  <1>5. \A i \in 1..(k - 1) : Expired(bucket[c][i])
    BY DEF FirstKept
  <1> HIDE DEF b, m, n
  <1>6. ASSUME NEW j \in 1..Len(b) PROVE b[j] = admitted[c][n - Len(b) + j]
    <2>1. k + j - 1 \in 1..m /\ n - m + (k + j - 1) = n - Len(b) + j
      BY <1>1, <1>2
    <2>2. b[j] = admitted[c][n - m + (k + j - 1)]
      BY <1>2, <1>3, <2>1
    <2> QED BY <2>1, <2>2
  <1>7. ASSUME NEW i \in 1..(n - Len(b)) PROVE Expired(admitted[c][i])
    <2>1. CASE i <= n - m
      BY <1>1, <1>2, <1>4, <2>1
    <2>2. CASE i > n - m
      <3> DEFINE h == i - (n - m)
      <3>1. h \in 1..(k - 1) /\ h \in 1..m /\ n - m + h = i
        BY <1>1, <1>2, <2>2
      <3> HIDE DEF h
      <3> QED BY <1>3, <1>5, <3>1
    <2> QED BY <1>1, <1>2, <2>1, <2>2
  <1>8. /\ b \in Seq(0..MaxTime)
        /\ Len(b) \in 0..m
        /\ Len(b) <= n
        /\ \A j \in 1..Len(b) : b[j] = admitted[c][n - Len(b) + j]
        /\ \A i \in 1..(n - Len(b)) : Expired(admitted[c][i])
    BY <1>1, <1>2, <1>6, <1>7
  <1> QED BY <1>8 DEF b, m, n

(* A client whose state does not change keeps its invariant, while time    *)
(* goes on.                                                                *)
LEMMA OtherClients ==
  ASSUME IInv, TypeOK', NEW c \in Clients, now' >= now,
         bucket'[c] = bucket[c], admitted'[c] = admitted[c],
         refused'[c] = refused[c]
  PROVE  ClientInv(c)'
  <1> USE DEF ClientInv, Forgotten
  <1>1. ClientInv(c) /\ TypeOK
    BY DEF IInv
  <1>2. now \in Int /\ now' \in Int /\ admitted[c] \in Seq(0..MaxTime)
        /\ bucket[c] \in Seq(0..MaxTime) /\ refused[c] \subseteq 0..MaxTime
    BY <1>1 DEF TypeOK
  <1>3. IsTail(c)'
    BY <1>1 DEF IsTail
  <1>4. ForgottenAreOld(c)'
    <2>1. \A i \in 1..Len(admitted[c]) : admitted[c][i] \in Int
      BY <1>2
    <2>2. Forgotten(c)' = Forgotten(c) /\ Forgotten(c) \in Int
          /\ Forgotten(c) <= Len(admitted[c])
      <3>1. Len(admitted[c]) \in Nat /\ Len(bucket[c]) \in Nat
        BY <1>2
      <3>2. Forgotten(c) \in Int /\ Forgotten(c) <= Len(admitted[c])
        <4> DEFINE x == Len(admitted[c])
                   y == Len(bucket[c])
        <4>1. x \in Nat /\ y \in Nat
          BY <3>1
        <4> HIDE DEF x, y
        <4>2. x - y \in Int /\ x - y <= x
          BY <4>1
        <4> QED BY <4>2 DEF x, y, Forgotten
      <3>3. Forgotten(c)' = Forgotten(c)
        <4> HIDE DEF ClientInv
        <4> QED BY DEF Forgotten
      <3> QED BY <3>2, <3>3
    <2> HIDE DEF Forgotten
    <2>3. ASSUME NEW i \in 1..Forgotten(c)
          PROVE  admitted[c][i] < now' - Window
      <3>1. admitted[c][i] \in Int
        BY <1>2, <2>1, <2>2
      <3>2. admitted[c][i] < now - Window
        BY <1>1 DEF ForgottenAreOld, Expired
      <3> QED BY <1>2, <3>1, <3>2
    <2> QED BY <2>2, <2>3 DEF ForgottenAreOld, Expired
  <1>5. Past(c)'
    BY <1>1, <1>2 DEF Past
  <1>6. WindowOf(c)' /\ JustifiedFor(c)'
    BY <1>1 DEF WindowOf, JustifiedFor
  <1> QED BY <1>3, <1>4, <1>5, <1>6

(* An admitted request keeps the invariant.                                *)
LEMMA AdmitIInv ==
  ASSUME IInv, NEW c \in Clients, Admit(c)
  PROVE  IInv'
  <1>1. PICK k \in 1..(Len(bucket[c]) + 1) :
          /\ FirstKept(bucket[c], k)
          /\ Len(Kept(bucket[c], k)) < Limit
          /\ bucket' = [bucket EXCEPT ![c] = Append(Kept(bucket[c], k), now)]
          /\ admitted' = [admitted EXCEPT ![c] = Append(admitted[c], now)]
          /\ UNCHANGED <<now, refused>>
    BY DEF Admit
  <1> DEFINE b == Kept(bucket[c], k)
             h == admitted[c]
             n == Len(h)
             l == Len(b)
             ab == Append(b, now)
             ah == Append(h, now)
  <1>2. TypeOK /\ ClientInv(c)
    BY DEF IInv
  <1>3. /\ b \in Seq(0..MaxTime) /\ l \in Nat /\ l <= n /\ l < Limit
        /\ \A j \in 1..l : b[j] = h[n - l + j]
        /\ \A i \in 1..(n - l) : h[i] < now - Window
    BY <1>1, <1>2, PopKeepsTail DEF ClientInv, Expired
  <1>4. h \in Seq(0..MaxTime) /\ n \in Nat /\ now \in 0..MaxTime
        /\ refused[c] \subseteq 0..MaxTime
    BY <1>2 DEF TypeOK
  <1>5. /\ \A i \in 1..n : h[i] <= now
        /\ \A t \in refused[c] : t <= now
        /\ \A i \in 1..(n - Limit) : h[i + Limit] - h[i] > Window
        /\ \A t \in refused[c] : \E i \in 1..(n - Limit + 1) :
             t - h[i] <= Window /\ h[i + Limit - 1] <= t
    BY <1>2 DEF ClientInv, Past, WindowOf, JustifiedFor
  <1>6. /\ ab \in Seq(0..MaxTime) /\ Len(ab) = l + 1
        /\ \A j \in 1..l : ab[j] = b[j]
        /\ ab[l + 1] = now
    <2> HIDE DEF b
    <2> QED BY <1>3, <1>4
  <1>7. /\ ah \in Seq(0..MaxTime) /\ Len(ah) = n + 1
        /\ \A j \in 1..n : ah[j] = h[j] /\ h[j] \in 0..MaxTime
        /\ ah[n + 1] = now
    BY <1>4
  <1>8. /\ bucket' = [bucket EXCEPT ![c] = ab]
        /\ admitted' = [admitted EXCEPT ![c] = ah]
        /\ UNCHANGED <<now, refused>>
    BY <1>1
  <1> HIDE DEF ab, ah, l, b, n, h
  <1>9. TypeOK'
    BY <1>2, <1>3, <1>6, <1>7, <1>8 DEF TypeOK
  <1>10. bucket'[c] = ab /\ admitted'[c] = ah /\ refused'[c] = refused[c]
         /\ now' = now
    BY <1>2, <1>8 DEF TypeOK
  <1>11. IsTail(c)'
    <2>1. ASSUME NEW j \in 1..(l + 1) PROVE ab[j] = ah[n - l + j]
      <3>1. CASE j <= l
        <4>1. j \in 1..l /\ n - l + j \in 1..n
          BY <1>3, <1>4, <3>1
        <4> QED BY <1>3, <1>6, <1>7, <4>1
      <3>2. CASE j = l + 1
        <4>1. n - l + j = n + 1
          BY <1>3, <1>4, <3>2
        <4> QED BY <1>6, <1>7, <3>2, <4>1
      <3> QED BY <1>3, <3>1, <3>2
    <2>2. (n + 1) - (l + 1) = n - l /\ l + 1 <= n + 1
      BY <1>3, <1>4
    <2> QED BY <1>6, <1>7, <1>10, <2>1, <2>2 DEF IsTail, Forgotten
  <1>12. ForgottenAreOld(c)'
    <2>1. (n + 1) - (l + 1) = n - l
      BY <1>3, <1>4
    <2>2. \A i \in 1..(n - l) : i \in 1..n
      BY <1>3, <1>4
    <2>3. \A i \in 1..(n - l) : ah[i] < now - Window
      BY <1>3, <1>7, <2>2
    <2> QED BY <1>6, <1>7, <1>10, <2>1, <2>3
            DEF ForgottenAreOld, Forgotten, Expired
  <1>13. Past(c)'
    <2>1. \A i \in 1..(n + 1) : ah[i] <= now
      <3>1. \A i \in 1..(n + 1) : i \in 1..n \/ i = n + 1
        BY <1>4
      <3> QED BY <1>4, <1>5, <1>7, <3>1
    <2> QED BY <1>5, <1>7, <1>10, <2>1 DEF Past
  <1>14. WindowOf(c)'
    <2>1. ASSUME NEW i \in 1..(n + 1 - Limit)
          PROVE  ah[i + Limit] - ah[i] > Window
      <3>1. CASE i + Limit <= n
        <4>1. i \in 1..(n - Limit) /\ i \in 1..n /\ i + Limit \in 1..n
          BY <1>4, <3>1
        <4> QED BY <1>5, <1>7, <4>1
      <3>2. CASE i + Limit = n + 1
        <4>1. i \in 1..(n - l) /\ i \in 1..n
          BY <1>3, <1>4, <3>2
        <4>2. h[i] < now - Window /\ h[i] \in Int /\ ah[i] = h[i] /\ ah[i + Limit] = now
          BY <1>3, <1>7, <3>2, <4>1
        <4> QED BY <1>4, <4>2
      <3>3. i + Limit <= n \/ i + Limit = n + 1
        <4>1. i \in Int /\ Limit \in Int /\ i <= n + 1 - Limit
          BY <1>4
        <4> QED BY <1>4, <4>1
      <3> QED BY <3>1, <3>2, <3>3
    <2>2. \A i \in 1..(Len(ah) - Limit) : ah[i + Limit] - ah[i] > Window
      <3>1. Len(ah) - Limit = n + 1 - Limit
        BY <1>4, <1>7
      <3> QED BY <2>1, <3>1
    <2> QED BY <1>10, <2>2 DEF WindowOf
  <1>15. JustifiedFor(c)'
    <2>1. ASSUME NEW t \in refused[c]
          PROVE  \E i \in 1..(n + 1 - Limit + 1) :
                   t - ah[i] <= Window /\ ah[i + Limit - 1] <= t
      <3>1. PICK i \in 1..(n - Limit + 1) :
              t - h[i] <= Window /\ h[i + Limit - 1] <= t
        BY <1>5
      <3>2. i \in Int /\ Limit \in Nat \ {0} /\ 1 <= i /\ i <= n - Limit + 1
        BY <1>4
      <3>3. i \in 1..n /\ i + Limit - 1 \in 1..n /\ i \in 1..(n + 1 - Limit + 1)
        BY <1>4, <3>2
      <3> QED BY <1>7, <3>1, <3>3
    <2>2. \A t \in refused[c] : \E i \in 1..(Len(ah) - Limit + 1) :
            t - ah[i] <= Window /\ ah[i + Limit - 1] <= t
      <3>1. Len(ah) - Limit + 1 = n + 1 - Limit + 1
        BY <1>4, <1>7
      <3> QED BY <2>1, <3>1
    <2> QED BY <1>10, <2>2 DEF JustifiedFor
  <1>16. \A d \in Clients \ {c} : ClientInv(d)'
    BY <1>2, <1>4, <1>8, <1>9, OtherClients DEF TypeOK
  <1>17. ClientInv(c)'
    BY <1>11, <1>12, <1>13, <1>14, <1>15 DEF ClientInv
  <1> QED BY <1>9, <1>16, <1>17 DEF IInv

(* A refused request keeps the invariant: as many timestamps are left in   *)
(* the deque as it may hold, so they are the last Limit admissions.        *)
LEMMA RefuseIInv ==
  ASSUME IInv, NEW c \in Clients, Refuse(c)
  PROVE  IInv'
  <1>1. PICK k \in 1..(Len(bucket[c]) + 1) :
          /\ FirstKept(bucket[c], k)
          /\ Len(Kept(bucket[c], k)) >= Limit
          /\ bucket' = [bucket EXCEPT ![c] = Kept(bucket[c], k)]
          /\ refused' = [refused EXCEPT ![c] = refused[c] \union {now}]
          /\ UNCHANGED <<now, admitted>>
    BY DEF Refuse
  <1> DEFINE b == Kept(bucket[c], k)
             h == admitted[c]
             n == Len(h)
             l == Len(b)
             m == Len(bucket[c])
             r == refused[c] \union {now}
  <1>2. TypeOK /\ ClientInv(c)
    BY DEF IInv
  <1>3. /\ b \in Seq(0..MaxTime) /\ l \in Nat /\ l <= n /\ l >= Limit
        /\ \A j \in 1..l : b[j] = h[n - l + j]
        /\ \A i \in 1..(n - l) : Expired(h[i])
    BY <1>1, <1>2, PopKeepsTail DEF ClientInv
  <1>4. /\ h \in Seq(0..MaxTime) /\ n \in Nat /\ now \in 0..MaxTime
        /\ refused[c] \subseteq 0..MaxTime /\ m \in Nat /\ m <= Limit
        /\ bucket[c] \in Seq(0..MaxTime)
    BY <1>2 DEF TypeOK
  <1>5. /\ l = m - k + 1
        /\ \A j \in 1..(m - k + 1) : b[j] = bucket[c][k + j - 1]
        /\ k <= m => ~Expired(bucket[c][k])
    BY <1>1, <1>4, KeptIsTail DEF FirstKept
  <1>6. /\ \A i \in 1..n : h[i] <= now
        /\ \A t \in refused[c] : t <= now
        /\ WindowOf(c)
        /\ \A t \in refused[c] : \E i \in 1..(n - Limit + 1) :
             t - h[i] <= Window /\ h[i + Limit - 1] <= t
    BY <1>2 DEF ClientInv, Past, JustifiedFor
  <1>7. /\ bucket' = [bucket EXCEPT ![c] = b]
        /\ refused' = [refused EXCEPT ![c] = r]
        /\ r \subseteq 0..MaxTime /\ l <= Limit
        /\ UNCHANGED <<now, admitted>>
    <2>1. l <= Limit
      <3>1. k \in 1..(m + 1)
        OBVIOUS
      <3> HIDE DEF b, h, n, l, m, r
      <3> QED BY <1>4, <1>5, <3>1
    <2>2. r \subseteq 0..MaxTime
      BY <1>4
    <2> QED BY <1>1, <2>1, <2>2
  <1>8. bucket'[c] = b /\ admitted'[c] = h /\ refused'[c] = r /\ now' = now
    <2> HIDE DEF b, r
    <2>1. bucket'[c] = b /\ refused'[c] = r
      BY <1>2, <1>7 DEF TypeOK
    <2> QED BY <1>7, <2>1
  <1>9. k \in 1..(m + 1)
    OBVIOUS
  <1>10. IsTail(c)' /\ ForgottenAreOld(c)'
    BY <1>3, <1>8 DEF IsTail, ForgottenAreOld, Forgotten, Expired
  <1>11. WindowOf(c)'
    BY <1>6, <1>8 DEF WindowOf
  <1>12. Past(c)'
    BY <1>4, <1>6, <1>8 DEF Past
  <1> HIDE DEF b, l, n, h, m
  <1>13. TypeOK'
    BY <1>2, <1>3, <1>7 DEF TypeOK, l
  <1>14. k = 1 /\ l = Limit /\ m = Limit
    BY <1>3, <1>4, <1>5, <1>9
  <1>15. h[n - Limit + 1] >= now - Window /\ n - Limit + 1 \in 1..n
    <2>1. n - Limit + 1 \in 1..n /\ 1 \in 1..l /\ 1 \in 1..(m - k + 1)
          /\ k + 1 - 1 = k
      BY <1>3, <1>4, <1>14
    <2>2. h[n - Limit + 1] = bucket[c][k]
      BY <1>3, <1>5, <1>14, <2>1
    <2>3. ~Expired(bucket[c][k])
      BY <1>5, <1>14
    <2>4. h[n - Limit + 1] \in Int
      BY <1>4, <2>1 DEF n
    <2> QED BY <1>4, <2>1, <2>2, <2>3, <2>4 DEF Expired
  <1>16. JustifiedFor(c)'
    <2>1. ASSUME NEW t \in r
          PROVE  \E i \in 1..(n - Limit + 1) :
                   t - h[i] <= Window /\ h[i + Limit - 1] <= t
      <3>1. CASE t \in refused[c]
        BY <1>6, <3>1
      <3>2. CASE t = now
        <4>1. /\ n - Limit + 1 \in 1..(n - Limit + 1) /\ n \in 1..n
              /\ (n - Limit + 1) + Limit - 1 = n
          BY <1>4, <1>15
        <4>2. now - h[n - Limit + 1] <= Window /\ h[n] <= now
          <5>1. h[n - Limit + 1] \in Int
            BY <1>4, <1>15 DEF n
          <5> QED BY <1>4, <1>6, <1>15, <4>1, <5>1
        <4> QED BY <3>2, <4>1, <4>2
      <3> QED BY <3>1, <3>2
    <2> QED BY <1>8, <2>1 DEF JustifiedFor, n
  <1>17. \A d \in Clients \ {c} : ClientInv(d)'
    BY <1>2, <1>4, <1>7, <1>13, OtherClients DEF TypeOK
  <1>18. ClientInv(c)'
    BY <1>10, <1>11, <1>12, <1>16 DEF ClientInv
  <1> QED BY <1>13, <1>17, <1>18 DEF IInv

(* Every step keeps the invariant.                                         *)
LEMMA NextIInv == IInv /\ [Next]_vars => IInv'
  <1> SUFFICES ASSUME IInv, [Next]_vars PROVE IInv'
    OBVIOUS
  <1>1. CASE Tick
    <2>1. TypeOK'
      BY <1>1 DEF IInv, TypeOK, Tick
    <2> QED BY <1>1, <2>1, OtherClients DEF IInv, TypeOK, Tick
  <1>2. ASSUME NEW c \in Clients, Admit(c) PROVE IInv'
    BY <1>2, AdmitIInv
  <1>3. ASSUME NEW c \in Clients, Refuse(c) PROVE IInv'
    BY <1>3, RefuseIInv
  <1>4. CASE UNCHANGED vars
    <2>1. TypeOK'
      BY <1>4 DEF IInv, TypeOK, vars
    <2> QED BY <1>4, <2>1, OtherClients DEF IInv, TypeOK, vars
  <1> QED BY <1>1, <1>2, <1>3, <1>4 DEF Next

(* The state of the middleware is well typed, and no deque grows beyond    *)
(* the limit.                                                              *)
THEOREM TypeCorrect == Spec => []TypeOK
  <1>1. IInv => TypeOK
    BY DEF IInv
  <1> QED BY InitIInv, NextIInv, <1>1, PTL DEF Spec

(* Whatever the limit and the window: no client is admitted more than      *)
(* Limit times within any window.                                          *)
THEOREM WindowsAreBounded == Spec => []SlidingWindow
  <1>1. IInv => SlidingWindow
    BY DEF IInv, ClientInv, WindowOf, SlidingWindow
  <1> QED BY InitIInv, NextIInv, <1>1, PTL DEF Spec

(* Whatever the limit and the window: a client that is answered 429 had    *)
(* been admitted Limit times in the window before.                         *)
THEOREM RefusalsAreJustified == Spec => []RefusalJustified
  <1>1. IInv => RefusalJustified
    BY DEF IInv, ClientInv, JustifiedFor, RefusalJustified
  <1> QED BY InitIInv, NextIInv, <1>1, PTL DEF Spec
=============================================================================
