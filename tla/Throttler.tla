----------------------------- MODULE Throttler -----------------------------
(***************************************************************************)
(* The rate limiter that the threads of all transfers of a process share.  *)
(* limit() cuts a request into pieces; for each piece a thread reads the   *)
(* clock, computes under the lock how long to sleep, and sleeps without    *)
(* it.  Meanwhile transfers start and end, and every sender or receiver    *)
(* that the resource controller makes sets the rates again, which resets   *)
(* the progress of all.                                                    *)
(***************************************************************************)
EXTENDS Integers, FiniteSets

CONSTANTS
    Threads,
    Transfers,          \* the transfers, which register with the throttler
    Second,             \* ticks of the clock in the unit of the rates
    Rates,              \* records avg, peak, bucket: rates that are set
    FirstRates,         \* the ones the throttler is made with
    SingleRequestLimit,
    Requests,           \* sizes of requests
    MaxTime, MaxBytes, MaxResets    \* bounds

(* What the divisions need. *)
ThrottlerAssumption ==
    Second \in Nat \ {0} /\ SingleRequestLimit \in Nat \ {0}

VARIABLES
    now,            \* the clock
    th,             \* the throttler's fields
    refs,           \* the transfers that registered (refCount_)
    thread,         \* what each thread is doing
    sent,           \* tokens for which limit() has returned
    asked,          \* tokens requests were made for
    allowance,      \* what the average rate allowed before the last reset
    resets

thVars == <<now, th, refs, thread, sent, asked, allowance, resets>>

-----------------------------------------------------------------------------
Least(a, b) == IF a < b THEN a ELSE b
Ceil(a, b) == (a + b - 1) \div b

(* configureOptions.  A negative rate is none. *)
ConfigureOptions(r) ==
    LET peak == IF r.peak < r.avg /\ r.peak >= 0 THEN (12 * r.avg) \div 10 ELSE r.peak
    IN  [avg |-> r.avg, peak |-> peak,
         bucket |-> IF r.bucket <= 0 /\ peak > 0 THEN peak \div 2 ELSE r.bucket]

(* resetState *)
ResetState(r) ==
    [avg |-> r.avg, peak |-> r.peak, bucket |-> r.bucket, startTime |-> now,
     lastFillTime |-> now, progress |-> 0, tokenBucket |-> 0]

Asleep == [pc |-> "idle", at |-> 0, left |-> 0, piece |-> 0]

(* The constructor does not adjust the peak rate. *)
Init ==
    /\ now = 0
    /\ th = ResetState([FirstRates EXCEPT !.bucket = IF @ > 0 THEN @ ELSE FirstRates.peak \div 2])
    /\ refs = {}
    /\ thread = [t \in Threads |-> Asleep]
    /\ sent = 0 /\ asked = 0 /\ allowance = 0 /\ resets = 0

Tick ==
    /\ now < MaxTime
    /\ now' = now + 1
    /\ UNCHANGED <<th, refs, thread, sent, asked, allowance, resets>>

-----------------------------------------------------------------------------
(* What the average rate allowed since the last reset, in tokens per tick  *)
(* times Second, with what the threads asleep at a reset may still send.   *)
Allowed == IF th.avg > 0 THEN th.avg * (now - th.startTime) ELSE 0
Sleeping == {t \in Threads : thread[t].pc = "sleep"}

Reset(r) ==
    /\ th' = ResetState(r)
    /\ allowance' = allowance + Allowed
          + Second * SingleRequestLimit * Cardinality(Sleeping)
    /\ resets' = resets + 1

SetThrottlerRates(r) ==
    /\ resets < MaxResets
    /\ Reset(ConfigureOptions(r))
    /\ UNCHANGED <<now, refs, thread, sent, asked>>

StartTransfer(x) ==
    /\ x \notin refs
    /\ refs' = refs \cup {x}
    /\ \/ /\ refs = {}
          /\ resets < MaxResets
          /\ Reset([avg |-> th.avg, peak |-> th.peak, bucket |-> th.bucket])
       \/ /\ refs # {}
          /\ UNCHANGED <<th, allowance, resets>>
    /\ UNCHANGED <<now, thread, sent, asked>>

(* A transfer ends when its threads have; the last one ends when no thread *)
(* is in limit().                                                          *)
EndTransfer(x) ==
    /\ x \in refs
    /\ refs = {x} => \A t \in Threads : thread[t].pc = "idle"
    /\ refs' = refs \ {x}
    /\ UNCHANGED <<now, th, thread, sent, asked, allowance, resets>>

-----------------------------------------------------------------------------
(* limit *)

(* The next piece of a request, and the clock. *)
Piece(left) ==
    [pc |-> "read", at |-> now, left |-> left,
     piece |-> Least(SingleRequestLimit, left)]

Limit(t, size) ==
    /\ thread[t].pc = "idle" /\ refs # {}
    /\ asked + size <= MaxBytes
    /\ asked' = asked + size
    /\ thread' = [thread EXCEPT ![t] = Piece(size)]
    /\ UNCHANGED <<now, th, refs, sent, allowance, resets>>

(* averageThrottler: the ticks to sleep.  The clock was read before the    *)
(* lock was taken.                                                         *)
AverageThrottler(f, at) ==
    LET elapsed == at - f.startTime
    IN  IF f.avg > 0 /\ f.progress * Second > f.avg * elapsed
        THEN Ceil(f.progress * Second, f.avg) - elapsed ELSE 0

(* The token bucket holds whole tokens: what it is filled by is a double,  *)
(* the sum is cut off towards zero.                                        *)
TokenBucket_NeverEmptied(f, at, delta) ==
    LET full == f.tokenBucket * Second + (at - f.lastFillTime) * f.peak
    IN  Least(IF full >= 0 THEN full \div Second ELSE 0, f.bucket) - delta

TokenBucket(f, at, delta) ==
    LET full == f.tokenBucket * Second + (at - f.lastFillTime) * f.peak
        tokens == IF full >= 0 THEN full \div Second ELSE -((-full) \div Second)
    IN  Least(tokens, f.bucket) - delta

(* calculateSleep: the throttler's fields and the ticks to sleep. *)
CalculateSleep(at, delta) ==
    LET f == [th EXCEPT !.progress = @ + delta]
        ticks == AverageThrottler(f, at)
        tokens == TokenBucket(f, at, delta)
    IN  IF refs = {} THEN [th |-> th, ticks |-> 0]
        ELSE IF ticks > 0 \/ f.peak <= 0 \/ f.bucket <= 0 THEN [th |-> f, ticks |-> ticks]
        ELSE [th |-> [f EXCEPT !.lastFillTime = at, !.tokenBucket = tokens],
              ticks |-> IF tokens < 0 THEN Ceil(-tokens * Second, f.peak) ELSE 0]

(* limitSingleRequest up to the sleep, which then lasts for at least the   *)
(* time that was computed.                                                 *)
Compute(t) ==
    /\ thread[t].pc = "read"
    /\ LET c == CalculateSleep(thread[t].at, thread[t].piece)
       IN  /\ th' = c.th
           /\ thread' = [thread EXCEPT ![t].pc = "sleep", ![t].at = now + c.ticks]
    /\ UNCHANGED <<now, refs, sent, asked, allowance, resets>>

(* limitInternal goes on with the next piece. *)
Wake(t) ==
    LET r == thread[t] IN
    /\ r.pc = "sleep" /\ now >= r.at
    /\ sent' = sent + r.piece
    /\ thread' = [thread EXCEPT ![t] =
                    IF r.left > r.piece THEN Piece(r.left - r.piece) ELSE Asleep]
    /\ UNCHANGED <<now, th, refs, asked, allowance, resets>>

-----------------------------------------------------------------------------
Next ==
    \/ Tick
    \/ \E r \in Rates : SetThrottlerRates(r)
    \/ \E x \in Transfers : StartTransfer(x) \/ EndTransfer(x)
    \/ \E t \in Threads :
          Compute(t) \/ Wake(t) \/ \E size \in Requests : Limit(t, size)

Spec == Init /\ [][Next]_thVars

-----------------------------------------------------------------------------
(* avg_rate_per_sec: however the calls of the threads interleave with each *)
(* other, with new transfers and with changes of the rates, the threads    *)
(* have not gone on with more than the average rate allowed, except for    *)
(* the pieces that were being slept on when the progress was reset.        *)
AverageRespected == sent * Second <= allowance + Allowed

(* calculateSleep: "Bucket is filled at the rate of bucketRatePerSec_ till *)
(* the limit of tokenBucketLimit_".  The threads have not gone on with     *)
(* more than it was filled with since the throttler was started, also when *)
(* they read the clock in one order and take the lock in another.          *)
PeakRespected ==
    resets <= 1 /\ th.peak > 0 /\ th.bucket > 0 =>
        sent * Second <= th.peak * (now - th.startTime)
=============================================================================
