------------------------------ MODULE MCRequests ------------------------------
(***************************************************************************)
(* What requests share in the memory of the backend and on its disk: the   *)
(* caches of answers and cost bases, the timestamps of the rate limiter,   *)
(* and the Longbridge token.  The three share no state, so each is checked *)
(* by itself: part says which of them moves in a behavior, and the others  *)
(* stay where they begin.                                                  *)
(***************************************************************************)
EXTENDS QueryCache, FiniteSets, TLC

CONSTANTS
    MaxRequests, Window,                          \* of RateLimiter
    Threads, Configured, Lifetimes, Skew, PendingTtl, MaxRetries,
    MaxHours, MaxStarts, MaxTokens                \* and of LongbridgeAuth

ASSUME LimiterAssumption == IsFiniteSet(Requests) /\ MaxRequests \in Nat /\ Window \in Nat

VARIABLES
    part,
    time, entry, lists, at, mine, place, shared,
    hours, file, sdk, op, where, frame, lock, ready, issued, good, starts, used, trouble

Limiter == INSTANCE RateLimiter
Auth == INSTANCE LongbridgeAuth WITH MaxTime <- MaxHours, time <- hours, at <- where

limiter == <<time, entry, lists, at, mine, place, shared>>
auth == <<hours, file, sdk, op, where, frame, lock, ready, issued, good, starts, used, trouble>>
all == <<part, vars, limiter, auth>>

(* Nothing is cached or imported while the others are checked.             *)
MCInit ==
    /\ part \in {"cache", "limiter", "token"}
    /\ Init /\ Limiter!Init /\ Auth!Init
    /\ part # "cache" => print = 0 /\ key = [r \in Requests |-> CHOOSE k \in Keys : TRUE]

CacheStep == part = "cache" /\ Next /\ UNCHANGED <<part, limiter, auth>>
LimiterStep == part = "limiter" /\ Limiter!Next /\ UNCHANGED <<part, vars, auth>>
TokenStep == part = "token" /\ Auth!Next /\ UNCHANGED <<part, vars, limiter>>

MCNext == CacheStep \/ LimiterStep \/ TokenStep

MCSpec == MCInit /\ [][MCNext]_all

(* Requests are alike, and so are keys and threads.                        *)
Symmetry == Permutations(Requests) \union Permutations(Keys) \union Permutations(Threads)

(* See LoneChecksAreExact in RateLimiter.                                  *)
LoneChecksAreExact == Limiter!LoneChecksAreExact

(* See TokenIsKept in LongbridgeAuth.                                      *)
TokenIsKept == Auth!TokenIsKept
=============================================================================
