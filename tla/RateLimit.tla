------------------------------ MODULE RateLimit ------------------------------
(***************************************************************************)
(* The token bucket of one chat, internal/orchestrator/rate_limit.go, as   *)
(* onInboundMessage uses it: every message reads the clock first and takes *)
(* the bucket's lock afterwards, so concurrent messages may refill it in   *)
(* another order than the one in which they read the clock.  Time is       *)
(* counted from the making of the bucket in units of 1/Second seconds and  *)
(* tokens in units of 1/Second tokens, which makes every refill a whole    *)
(* number; the rounding of float64 is left out.                            *)
(***************************************************************************)
EXTENDS Integers

CONSTANTS
  Calls,      \* messages that may be handled at one time
  Capacity,   \* RateLimitTokensPerSec
  Second,     \* units of time in a second
  MaxTime,    \* bound: time that passes
  Unread      \* the message has not read the clock

ASSUME RateAssumption == Capacity \in Nat /\ Second \in Nat \ {0} /\ MaxTime \in Nat /\ Unread \notin Int

VARIABLES
  now,        \* the clock
  stamp,      \* the time each message has read
  tokens,     \* tb.tokens
  last,       \* tb.lastRefillAt
  accepted    \* messages let through

bucket == <<now, stamp, tokens, last, accepted>>

\* newTokenBucket: the bucket starts full.
RateInit ==
  /\ now = 0 /\ stamp = [c \in Calls |-> Unread]
  /\ tokens = Capacity * Second /\ last = 0
  /\ accepted = 0

TimePasses ==
  /\ now < MaxTime /\ now' = now + 1
  /\ UNCHANGED <<stamp, tokens, last, accepted>>

\* onInboundMessage evaluates time.Now() before the call.
ReadClock(c) ==
  /\ stamp[c] = Unread
  /\ stamp' = [stamp EXCEPT ![c] = now]
  /\ UNCHANGED <<now, tokens, last, accepted>>

\* elapsed is negative for a message overtaken by one with a later time.
Refilled(t) ==
  LET sum == tokens + (t - last) * Capacity
  IN  IF sum < Capacity * Second THEN sum ELSE Capacity * Second

\* Variant: lastRefillAt is not moved.
TryAcquireRefillsAgain(c) ==
  /\ stamp[c] # Unread
  /\ IF Refilled(stamp[c]) >= Second
     THEN tokens' = Refilled(stamp[c]) - Second /\ accepted' = accepted + 1
     ELSE tokens' = Refilled(stamp[c]) /\ UNCHANGED accepted
  /\ stamp' = [stamp EXCEPT ![c] = Unread]
  /\ UNCHANGED <<now, last>>

TryAcquire(c) ==
  /\ stamp[c] # Unread
  /\ last' = stamp[c]
  /\ IF Refilled(stamp[c]) >= Second
     THEN tokens' = Refilled(stamp[c]) - Second /\ accepted' = accepted + 1
     ELSE tokens' = Refilled(stamp[c]) /\ UNCHANGED accepted
  /\ stamp' = [stamp EXCEPT ![c] = Unread]
  /\ UNCHANGED now

RateNext == TimePasses \/ \E c \in Calls : ReadClock(c) \/ TryAcquire(c)

RateSpec == RateInit /\ [][RateNext]_bucket

-----------------------------------------------------------------------------
\* However the messages overtake each other, the bucket never lets through more than
\* its capacity at once and Capacity for every second since it was made.
RateBound == accepted * Second <= Capacity * Second + Capacity * now

\* Why: what was let through and what is left never exceed what was put in.
RateInv ==
  /\ now \in Nat /\ last \in Nat /\ last <= now /\ tokens \in Int /\ accepted \in Nat
  /\ stamp \in [Calls -> Nat \cup {Unread}]
  /\ \A c \in Calls : stamp[c] # Unread => stamp[c] <= now
  /\ accepted * Second + tokens <= Capacity * Second + Capacity * last
  /\ RateBound

=============================================================================
