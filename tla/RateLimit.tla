----------------------------- MODULE RateLimit -----------------------------
(***************************************************************************)
(* The rate limit of the workflow service (workflow_service.py, _Bucket    *)
(* and _rate): one bucket of credit for every actor and one for all of     *)
(* them.  Any number of worker threads ask, in the name of an actor each;  *)
(* the service's lock is held over an answer, so an answer is one step and *)
(* it reads the clock inside.                                              *)
(*                                                                         *)
(* A second has Second ticks, for its 10^9 nanoseconds, and a request      *)
(* costs Second credits.                                                   *)
(***************************************************************************)
EXTENDS Integers, Sequences, FiniteSets

CONSTANTS
    Actors,             \* the actors that have credentials
    Everyone,           \* the bucket they share
    ActorRate,          \* requests per second and burst of an actor: 4
    GlobalRate,         \* and of everyone: 16
    Second,             \* ticks of the clock in a second
    MaxTime             \* bound of the instance: ticks

ASSUME RateAssumption ==
    /\ Everyone \notin Actors
    /\ {ActorRate, GlobalRate, Second} \subseteq Nat \ {0}
    /\ MaxTime \in Nat

VARIABLES
    now,        \* time.monotonic_ns()
    buckets,    \* _buckets and _global_bucket
    admitted,   \* history: the requests let through, in order
    refusal     \* history: the last answer, when it was "rate_limited"

rateVars == <<now, buckets, admitted, refusal>>

Names == Actors \cup {Everyone}

Rate(name) == IF name = Everyone THEN GlobalRate ELSE ActorRate

NoRefusal == [actor |-> Everyone, at |-> -1]

RateInit ==
    /\ now = 0
    /\ buckets = [name \in Names |-> [credit |-> Rate(name) * Second, at |-> 0]]
    /\ admitted = <<>> /\ refusal = NoRefusal

\* Mutant: the time since the last request counts again at the next one.
RefilledTwice(name) ==
    LET elapsed == now - buckets[name].at
        credit == buckets[name].credit + elapsed * Rate(name)
    IN  [credit |-> IF credit > Rate(name) * Second THEN Rate(name) * Second ELSE credit,
         at |-> buckets[name].at]

\* Mutant: an idle bucket saves up without bound.
RefilledUnbounded(name) ==
    [credit |-> buckets[name].credit + (now - buckets[name].at) * Rate(name), at |-> now]

\* _Bucket.refill: at most one second's worth, and never above the burst.
Refilled(name) ==
    LET passed == now - buckets[name].at
        elapsed == IF passed > Second THEN Second ELSE passed
        credit == buckets[name].credit + elapsed * Rate(name)
    IN  [credit |-> IF credit > Rate(name) * Second THEN Rate(name) * Second ELSE credit,
         at |-> now]

\* Mutant: an actor pays for a request that the others' traffic refuses.
PaysWhenRefused(a) ==
    [name \in Names |->
        IF name = a /\ Refilled(a).credit >= Second THEN [Refilled(a) EXCEPT !.credit = @ - Second]
        ELSE IF name = Everyone THEN Refilled(name) ELSE buckets[name]]

\* A refusal refills the two buckets and takes nothing.
AfterRefusal(a) ==
    [name \in Names |-> IF name \in {a, Everyone} THEN Refilled(name) ELSE buckets[name]]

Affordable(a) == \A name \in {a, Everyone} : Refilled(name).credit >= Second

LetThrough(a) ==
    /\ Affordable(a)
    /\ buckets' = [name \in Names |->
                      IF name \in {a, Everyone}
                      THEN [Refilled(name) EXCEPT !.credit = @ - Second] ELSE buckets[name]]
    /\ admitted' = Append(admitted, [actor |-> a, at |-> now])
    /\ refusal' = NoRefusal
    /\ UNCHANGED now

TurnAway(a) ==
    /\ ~Affordable(a)
    /\ buckets' = AfterRefusal(a)
    /\ refusal' = [actor |-> a, at |-> now]
    /\ UNCHANGED <<now, admitted>>

ClockTicks == now < MaxTime /\ now' = now + 1 /\ UNCHANGED <<buckets, admitted, refusal>>

RateNext == ClockTicks \/ \E a \in Actors : LetThrough(a) \/ TurnAway(a)

RateSpec == RateInit /\ [][RateNext]_rateVars

-----------------------------------------------------------------------------
(***************************************************************************)
(* Properties.  The reference is the log of what was let through; the      *)
(* buckets do not occur in it.                                             *)
(***************************************************************************)
RateTypeOK ==
    /\ now \in 0..MaxTime
    /\ buckets \in [Names -> [credit: Nat, at: 0..now]]
    /\ \A name \in Names : buckets[name].credit <= Rate(name) * Second
    /\ admitted \in Seq([actor: Actors, at: 0..now])
    /\ refusal \in [actor: Actors, at: 0..now] \cup {NoRefusal}

\* The places in the log that one bucket pays for, from the i-th place to the j-th.
PaidBy(name, i, j) == {k \in i..j : name \in {admitted[k].actor, Everyone}}

\* No window of time lets through more than the burst and the rate allow: not
\* for one actor, whatever number of connections it uses, and not for all of
\* them together (_rate).
WindowsBounded ==
    \A name \in Names : \A i, j \in PaidBy(name, 1, Len(admitted)) :
        i <= j => Cardinality(PaidBy(name, i, j)) * Second
                      <= Rate(name) * (Second + admitted[j].at - admitted[i].at)

\* The requests let through from the i-th on have left less than one in the bucket.
UsedUp(name, at) ==
    \E i \in PaidBy(name, 1, Len(admitted)) :
        (Cardinality(PaidBy(name, i, Len(admitted))) + 1) * Second
            > Rate(name) * (Second + at - admitted[i].at)

\* Nobody is refused for nothing: a refusal means that the actor, or all actors
\* together, have used up what some window allows.  In particular refusals cost
\* nothing, and whoever waits gets through (_rate, _Bucket.refill).
RefusalsEarned ==
    refusal # NoRefusal => UsedUp(refusal.actor, refusal.at) \/ UsedUp(Everyone, refusal.at)

\* No window of time admits more than rate and burst, and nobody is refused who has
\* credit by the log of admissions (workflow_service.py).
RatesKept == RateTypeOK /\ WindowsBounded /\ RefusalsEarned
=============================================================================
