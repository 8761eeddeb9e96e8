------------------------------- MODULE RateLimit -------------------------------
(***************************************************************************)
(* api/middleware/rate_limit.py: the sliding window that API processes     *)
(* keep in Redis sorted sets.  Every request runs in a process of its own, *)
(* which reads its clock, runs the four commands of the pipeline as one    *)
(* transaction, and takes its member back when the count was at the limit. *)
(* A tick is a second; the processes' clocks agree.                        *)
(***************************************************************************)
EXTENDS Integers, FiniteSets

CONSTANTS
  Requests,
  Tenant,      \* the tenant a request's token names, a function
  Client,      \* the address it comes from, a function
  Bucket,      \* what _endpoint_bucket makes of its method and path, a function
  Limit,       \* the limit of a bucket, a function
  WindowS,      \* window_s
  MaxTime,     \* bound: the clock
  MaxFaults    \* bound: failed calls and dying processes

ASSUME RateLimitConstantsOK ==
  /\ IsFiniteSet(Requests)
  /\ DOMAIN Tenant = Requests /\ DOMAIN Client = Requests /\ DOMAIN Bucket = Requests
  /\ \A r \in Requests : Limit[Bucket[r]] \in Nat \ {0}
  /\ WindowS \in Nat \ {0}
  /\ MaxTime \in Nat
  /\ MaxFaults \in Nat

\* JWTAuthMiddleware stores token_payload and nobody request.state.tenant_id, so the
\* tenant of the key is always the client's address.
KeyOf(r) == <<Client[r], Bucket[r]>>
Keys == {KeyOf(r) : r \in Requests}

VARIABLES
  clock,
  at,       \* where each request is
  stamp,    \* its now_ms
  zset,     \* the members of each key; a member's score is its stamp
  expiry,   \* when a key expires
  prompt,   \* ghost: admitted by the count, in the second of their stamp
  faults

limiterVars == <<clock, at, stamp, zset, expiry, prompt, faults>>

Ats == {"new", "stamped", "over", "served", "refused", "lost"}

LimiterTypeOK ==
  /\ clock \in 0 .. MaxTime
  /\ at \in [Requests -> Ats]
  /\ stamp \in [Requests -> 0 .. MaxTime]
  /\ zset \in [Keys -> SUBSET Requests]
  /\ expiry \in [Keys -> Nat]
  /\ prompt \subseteq Requests
  /\ faults \in 0 .. MaxFaults

LimiterInit ==
  /\ clock = 0
  /\ at = [r \in Requests |-> "new"]
  /\ stamp = [r \in Requests |-> 0]
  /\ zset = [k \in Keys |-> {}]
  /\ expiry = [k \in Keys |-> 0]
  /\ prompt = {}
  /\ faults = 0

Moves(r, to) == at' = [at EXCEPT ![r] = to]

Fault ==
  /\ faults < MaxFaults
  /\ faults' = faults + 1

----------------------------------------------------------------------------

Receive(r) ==
  /\ at[r] = "new"
  /\ Moves(r, "stamped")
  /\ stamp' = [stamp EXCEPT ![r] = clock]
  /\ UNCHANGED <<clock, zset, expiry, prompt, faults>>

\* Mutant: the cutoff is a second late.
Live_OneLess(r) == {q \in zset[KeyOf(r)] : stamp[q] > stamp[r] - WindowS + 1}

\* What zremrangebyscore leaves, and zcard counts.
Live(r) == {q \in zset[KeyOf(r)] : stamp[q] > stamp[r] - WindowS}

AddsMember(r) ==
  /\ zset' = [zset EXCEPT ![KeyOf(r)] = Live(r) \cup {r}]
  /\ expiry' = [expiry EXCEPT ![KeyOf(r)] = clock + WindowS + 1]

OverLimit(r) == Cardinality(Live(r)) >= Limit[Bucket[r]]

RunPipeline(r) ==
  /\ at[r] = "stamped"
  /\ AddsMember(r)
  /\ IF OverLimit(r)
     THEN Moves(r, "over") /\ UNCHANGED prompt
     ELSE /\ Moves(r, "served")
          /\ prompt' = IF stamp[r] = clock THEN prompt \cup {r} ELSE prompt
  /\ UNCHANGED <<clock, stamp, faults>>

\* The transaction did not run, or its answer is lost: the request goes on.
PipelineFails(r) ==
  /\ at[r] = "stamped"
  /\ AddsMember(r) \/ UNCHANGED <<zset, expiry>>
  /\ Moves(r, "served")
  /\ Fault
  /\ UNCHANGED <<clock, stamp, prompt>>

\* Mutant: the optimistic add is not undone.
TakenBack_Kept(r) == zset[KeyOf(r)]

TakenBack(r) == zset[KeyOf(r)] \ {r}

Refuse(r) ==
  /\ at[r] = "over"
  /\ zset' = [zset EXCEPT ![KeyOf(r)] = TakenBack(r)]
  /\ Moves(r, "refused")
  /\ UNCHANGED <<clock, stamp, expiry, prompt, faults>>

\* A zrem that raises lets the request through after all, whether it ran or not.
RefuseFails(r) ==
  /\ at[r] = "over"
  /\ \/ UNCHANGED zset
     \/ zset' = [zset EXCEPT ![KeyOf(r)] = TakenBack(r)]
  /\ Moves(r, "served")
  /\ Fault
  /\ UNCHANGED <<clock, stamp, expiry, prompt>>

ProcessDies(r) ==
  /\ at[r] \in {"stamped", "over"}
  /\ Moves(r, "lost")
  /\ Fault
  /\ UNCHANGED <<clock, stamp, zset, expiry, prompt>>

\* Redis drops a key at its expiry.
ClockTicks ==
  /\ clock < MaxTime
  /\ clock' = clock + 1
  /\ zset' = [k \in Keys |-> IF expiry[k] <= clock + 1 THEN {} ELSE zset[k]]
  /\ UNCHANGED <<at, stamp, expiry, prompt, faults>>

LimiterNext ==
  \/ \E r \in Requests :
       \/ Receive(r) \/ RunPipeline(r) \/ PipelineFails(r)
       \/ Refuse(r) \/ RefuseFails(r) \/ ProcessDies(r)
  \/ ClockTicks

LimiterSpec == LimiterInit /\ [][LimiterNext]_limiterVars

----------------------------------------------------------------------------
(* Properties.                                                              *)

\* "Exact sliding-window counter": of the requests whose pipeline ran in the second they
\* were stamped, no window of WindowS seconds sees more than the limit admitted, whatever requests
\* stamped earlier, failures and expiries happen between them.
WindowHolds ==
  \A k \in Keys, r \in Requests, s \in 0 .. MaxTime :
    KeyOf(r) = k =>
      Cardinality({q \in prompt : KeyOf(q) = k /\ s - WindowS < stamp[q] /\ stamp[q] <= s})
        <= Limit[Bucket[r]]

\* A client that goes on asking after a 429 does not keep itself locked out: a refused
\* request has no member, so every member was let through, or its zrem is still to come
\* or was lost with its process.
RefusedLeaveNoTrace ==
  \A k \in Keys : \A r \in zset[k] : KeyOf(r) = k /\ at[r] \in {"served", "over", "lost"}

\* "Per-tenant": a request is refused only when its own tenant had sent as many requests
\* as the limit to the bucket, no more than a window before it.
RefusedForItsTenant ==
  \A r \in Requests :
    at[r] = "refused" =>
      Cardinality({q \in Requests \ {r} :
                     /\ Tenant[q] = Tenant[r] /\ Bucket[q] = Bucket[r]
                     /\ at[q] # "new" /\ stamp[q] > stamp[r] - WindowS})
        >= Limit[Bucket[r]]
=============================================================================
