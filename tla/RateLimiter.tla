----------------------------- MODULE RateLimiter -----------------------------
(***************************************************************************)
(* RateLimitMiddleware of one API process: a sliding window of timestamps  *)
(* for each client host.  Requests to paths outside /api/v1/research pass  *)
(* without a trace and are left out.  Between reading the clock and        *)
(* appending to the deque dispatch does not await, so that a request is    *)
(* one step.  Source: src/src/api/middleware/rate_limit.py.                *)
(***************************************************************************)
EXTENDS Integers, Sequences

CONSTANTS
  Clients,  \* client hosts
  Limit,    \* API_RATE_LIMIT_REQUESTS
  Window,   \* API_RATE_LIMIT_WINDOW_SECONDS
  MaxTime   \* bound: the clock stops there

ASSUME LimitAssumption == Limit \in Nat \ {0}
ASSUME WindowAssumption == Window \in Nat
ASSUME MaxTimeAssumption == MaxTime \in Nat

VARIABLES
  now,      \* time.time(), taken not to run backwards
  bucket,   \* _requests: the deque of each client
  admitted, \* history: the times of all admitted requests of each client
  refused   \* history: the times at which each client was answered 429

vars == <<now, bucket, admitted, refused>>

TypeOK ==
  /\ now \in 0..MaxTime
  /\ bucket \in [Clients -> Seq(0..MaxTime)]
  /\ \A c \in Clients : Len(bucket[c]) <= Limit
  /\ admitted \in [Clients -> Seq(0..MaxTime)]
  /\ refused \in [Clients -> SUBSET (0..MaxTime)]

Init ==
  /\ now = 0
  /\ bucket = [c \in Clients |-> <<>>]
  /\ admitted = [c \in Clients |-> <<>>]
  /\ refused = [c \in Clients |-> {}]

(* Mutant of Expired: a closed window.                                     *)
ExpiredAtTheEdge(t) == t <= now - Window

(* bucket[0] < window_start                                                *)
Expired(t) == t < now - Window

(* The while loop pops from the left up to the first timestamp that is     *)
(* still in the window; k is the index of that one.                        *)
FirstKept(b, k) ==
  /\ k \in 1..(Len(b) + 1)
  /\ \A i \in 1..(k - 1) : Expired(b[i])
  /\ k <= Len(b) => ~Expired(b[k])

Kept(b, k) == SubSeq(b, k, Len(b))

Admit(c) ==
  \E k \in 1..(Len(bucket[c]) + 1) :
    /\ FirstKept(bucket[c], k)
    /\ Len(Kept(bucket[c], k)) < Limit
    /\ bucket' = [bucket EXCEPT ![c] = Append(Kept(@, k), now)]
    /\ admitted' = [admitted EXCEPT ![c] = Append(@, now)]
    /\ UNCHANGED <<now, refused>>

(* Mutant of Refuse: the timestamp is appended before the check.           *)
RefuseAndCount(c) ==
  \E k \in 1..(Len(bucket[c]) + 1) :
    /\ FirstKept(bucket[c], k)
    /\ Len(Kept(bucket[c], k)) >= Limit
    /\ bucket' = [bucket EXCEPT ![c] = Append(Kept(@, k), now)]
    /\ refused' = [refused EXCEPT ![c] = @ \union {now}]
    /\ UNCHANGED <<now, admitted>>

(* 429; what has been popped stays popped, and the request leaves no       *)
(* timestamp.                                                              *)
Refuse(c) ==
  \E k \in 1..(Len(bucket[c]) + 1) :
    /\ FirstKept(bucket[c], k)
    /\ Len(Kept(bucket[c], k)) >= Limit
    /\ bucket' = [bucket EXCEPT ![c] = Kept(@, k)]
    /\ refused' = [refused EXCEPT ![c] = @ \union {now}]
    /\ UNCHANGED <<now, admitted>>

Tick ==
  /\ now < MaxTime
  /\ now' = now + 1
  /\ UNCHANGED <<bucket, admitted, refused>>

Next == Tick \/ \E c \in Clients : Admit(c) \/ Refuse(c)

Spec == Init /\ [][Next]_vars
-----------------------------------------------------------------------------
(* No client is ever admitted more than Limit times within a window,       *)
(* whichever window one looks at: a request and the one Limit places after *)
(* it are more than a window apart.  The deque alone does not show that,   *)
(* because it forgets.                                                     *)
SlidingWindow ==
  \A c \in Clients : \A i \in 1..(Len(admitted[c]) - Limit) :
    admitted[c][i + Limit] - admitted[c][i] > Window

(* Nobody is refused for less: a refused client had been admitted Limit    *)
(* times in the window that ended with the refused request.  Requests that *)
(* were refused themselves, those of other clients and those that are too  *)
(* old never count (rate_limit.py:29-37).                                  *)
RefusalJustified ==
  \A c \in Clients : \A t \in refused[c] :
    \E i \in 1..(Len(admitted[c]) - Limit + 1) :
      /\ t - admitted[c][i] <= Window
      /\ admitted[c][i + Limit - 1] <= t
=============================================================================
