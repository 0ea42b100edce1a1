----------------------------- MODULE RateLimiter -----------------------------
(***************************************************************************)
(* The per-IP rate limiter of security/rate_limit.rs: a token bucket per   *)
(* source address, created full by the first request, refilled lazily when *)
(* the next one arrives, and dropped by a periodic task once it was left   *)
(* alone for long.  The map's mutex is held for a whole check and for a    *)
(* whole prune, so each is one step.                                       *)
(*                                                                         *)
(* The refill counts whole tokens and then starts over from now: what had  *)
(* accrued towards the next token is lost.  The ideal bucket the code      *)
(* stands for loses nothing; `credit` is its content, in fractions of a    *)
(* token, and what the limiter is measured against.                        *)
(***************************************************************************)
EXTENDS Integers

CONSTANTS
  Ip,            \* peer addresses
  Rpm,           \* requests_per_minute, clamped to at least one
  Minute,        \* clock ticks in a minute
  IdlePruneAge,  \* IDLE_PRUNE_AGE in ticks
  MaxNow         \* bound: the clock stops here

ASSUME RateAssumption == Rpm \in Nat \ {0} /\ Minute \in Nat \ {0}

(* A bucket is pruned no sooner than it would be full (two minutes against *)
(* the one a refill takes).                                                *)
ASSUME PruneAssumption == IdlePruneAge \in Nat /\ IdlePruneAge >= Minute

ASSUME BoundAssumption == MaxNow \in Nat

VARIABLES
  now,           \* the clock
  kept,          \* addresses that have a bucket
  tokens,        \* TokenBucket.tokens
  lastRefill,    \* TokenBucket.last_refill
  credit,        \* the ideal bucket, in 1/Minute of a token (history)
  granted,       \* when a request was last let through (history)
  refused        \* when a request was last refused (history)

limiterVars == <<now, kept, tokens, lastRefill, credit, granted, refused>>

-----------------------------------------------------------------------------
Lesser(a, b) == IF a <= b THEN a ELSE b

(* What the ideal bucket holds at most.                                    *)
Full == Rpm * Minute

Age(ip) == now - lastRefill[ip]

(* Whole tokens accrued since the last refill.                             *)
NewTokens(ip) == (Age(ip) * Rpm) \div Minute

(* What a check finds in the bucket: a new one is full.                    *)
Available(ip) ==
  IF ip \in kept THEN Lesser(tokens[ip] + NewTokens(ip), Rpm) ELSE Rpm

(* Mutant of RefilledAt: every check starts the count over.                *)
RefilledAtAlways(ip) == now

RefilledAt(ip) ==
  IF ip \in kept /\ NewTokens(ip) = 0 THEN lastRefill[ip] ELSE now

LimiterInit ==
  /\ now = 1
  /\ kept = {}
  /\ tokens = [ip \in Ip |-> Rpm]
  /\ lastRefill = [ip \in Ip |-> 1]
  /\ credit = [ip \in Ip |-> Full]
  /\ granted = [ip \in Ip |-> 0]
  /\ refused = [ip \in Ip |-> 0]

(* The refill happens whether or not a token is left to spend.             *)
Refill(ip, left) ==
  /\ kept' = kept \cup {ip}
  /\ tokens' = [tokens EXCEPT ![ip] = left]
  /\ lastRefill' = [lastRefill EXCEPT ![ip] = RefilledAt(ip)]

Allow(ip) ==
  /\ Available(ip) > 0
  /\ Refill(ip, Available(ip) - 1)
  /\ credit' = [credit EXCEPT ![ip] = @ - Minute]
  /\ granted' = [granted EXCEPT ![ip] = now]
  /\ UNCHANGED <<now, refused>>

Deny(ip) ==
  /\ Available(ip) = 0
  /\ Refill(ip, 0)
  /\ refused' = [refused EXCEPT ![ip] = now]
  /\ UNCHANGED <<now, credit, granted>>

(* Mutant of IsIdle: buckets are dropped as soon as they are out of use.   *)
IdleSoon(ip) == Age(ip) > 0

IsIdle(ip) == Age(ip) >= IdlePruneAge

(* The prune task runs every five minutes, at any phase of the clients'.   *)
Prune ==
  /\ kept' = {ip \in kept : ~IsIdle(ip)}
  /\ UNCHANGED <<now, tokens, lastRefill, credit, granted, refused>>

Tick ==
  /\ now < MaxNow
  /\ now' = now + 1
  /\ credit' = [ip \in Ip |-> Lesser(credit[ip] + Rpm, Full)]
  /\ UNCHANGED <<kept, tokens, lastRefill, granted, refused>>

LimiterNext == (\E ip \in Ip : Allow(ip) \/ Deny(ip)) \/ Prune \/ Tick

LimiterSpec == LimiterInit /\ [][LimiterNext]_limiterVars

-----------------------------------------------------------------------------
(* Properties.                                                             *)

(* A bucket at rest is never full: the check that refilled it took one.    *)
LimiterTypeOK ==
  /\ now \in Nat
  /\ kept \subseteq Ip
  /\ tokens \in [Ip -> 0 .. Rpm]
  /\ \A ip \in kept : tokens[ip] < Rpm
  /\ lastRefill \in [Ip -> Nat]
  /\ \A ip \in Ip : lastRefill[ip] <= now
  /\ credit \in [Ip -> Int]
  /\ granted \in [Ip -> Nat] /\ refused \in [Ip -> Nat]

(* However its requests fall, and whenever its bucket is dropped and       *)
(* created again, an address gets no request through that the ideal bucket *)
(* of requests_per_minute with full bursts would have refused              *)
(* (try_consume, prune).                                                   *)
WithinBudget == \A ip \in Ip : credit[ip] >= 0

(* Dropping a bucket is invisible: it would have been full anyway (prune,  *)
(* "idle long enough to refill fully").                                    *)
PruneInvisible == [][\A ip \in kept \ kept' : Available(ip) = Rpm]_limiterVars

(* An address that polls as fast as it likes is never refused for longer   *)
(* than one token takes to accrue: being refused does not put off the      *)
(* refill (try_consume moves last_refill only when it adds a token).       *)
PollingNotStarved ==
  \A ip \in Ip : refused[ip] > granted[ip] => (refused[ip] - granted[ip]) * Rpm < Minute

(* The inductive invariant: the code's bucket, valued with everything that *)
(* has accrued, is never worth more than the ideal one, and an address     *)
(* without a bucket has the ideal one full.  The last refill is no later   *)
(* than the last request that was let through.                             *)
NeverAhead ==
  \A ip \in Ip :
    /\ credit[ip] <= Full
    /\ ip \in kept => \/ credit[ip] = Full
                      \/ credit[ip] >= tokens[ip] * Minute + Age(ip) * Rpm
    /\ ip \notin kept => credit[ip] = Full

RefillsServe ==
  \A ip \in Ip :
    /\ refused[ip] <= now /\ granted[ip] <= now
    /\ ip \in kept => lastRefill[ip] <= granted[ip]

LimiterInv == LimiterTypeOK /\ NeverAhead /\ RefillsServe /\ PollingNotStarved

-----------------------------------------------------------------------------
(* Stated by a document or a comment, and not kept by the code: no run     *)
(* expects these to hold (README.md, section 5).                           *)

(* rate_limit.rs promises a continuous refill and a sustained rate: an     *)
(* address is refused only when the ideal bucket has no token either.      *)
SustainedRate ==
  [][\A ip \in Ip : refused'[ip] # refused[ip] => credit[ip] < Minute]_limiterVars
=============================================================================
