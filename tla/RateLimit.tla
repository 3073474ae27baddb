------------------------------- MODULE RateLimit -------------------------------
(***************************************************************************)
(* RateLimitMiddleware: requests of one client to one group of routes are  *)
(* counted in a window that begins with the first of them.  In production  *)
(* the counters are in Redis, elsewhere in a Map of the process that is    *)
(* cleaned up when it is full.  A request takes no time; Tick is the clock.*)
(***************************************************************************)
EXTENDS Naturals, SequencesExt, FiniteSetsExt

CONSTANTS Keys,        \* client, method and group of routes
          LimitMax,    \* RateProfile.max
          WindowTicks, \* RateProfile.windowMs
          MaxBuckets,  \* MAX_BUCKETS
          MaxHits      \* bound: requests of a key in one window, or at one moment

ASSUME LimitAssumption ==
  /\ {LimitMax, WindowTicks, MaxBuckets} \subseteq Nat \ {0}
  /\ MaxHits \in Nat /\ MaxHits >= 2 * LimitMax

VARIABLES limiter,  \* where the counters are
          buckets,  \* buckets[k]: a counter, and the time until it is reset
          order,    \* the keys of the Map, as they were put into it
          spent,    \* spent[k][a]: requests of k counted within the limit, a ticks ago
          dropped   \* keys that have lost a counter (both for the properties only)

limitVars == <<limiter, buckets, order, spent, dropped>>

\* A counter whose time is over is the same as none, but for its place in the Map.
NoBucket == [count |-> 0, left |-> 0]

NothingSpent == [a \in 0..(WindowTicks - 1) |-> 0]

SpentBy(k) == MapThenSumSet(LAMBDA a : spent[k][a], DOMAIN spent[k])

\* Among the types: the Map has no more keys than it may, each once.
LimitTypeOK ==
  /\ limiter \in {"redis", "memory"}
  /\ buckets \in [Keys -> [count: 0..MaxHits, left: 0..WindowTicks]]
  /\ order \in BoundedSeq(Keys, MaxBuckets) /\ IsInjective(order)
  /\ spent \in [Keys -> [0..(WindowTicks - 1) -> 0..MaxHits]]
  /\ dropped \subseteq Keys
  /\ limiter = "memory" => \A k \in Keys : buckets[k] # NoBucket => Contains(order, k)

LimitInit ==
  /\ limiter \in {"redis", "memory"}
  /\ buckets = [k \in Keys |-> NoBucket]
  /\ order = <<>>
  /\ spent = [k \in Keys |-> NothingSpent]
  /\ dropped = {}
-----------------------------------------------------------------------------
\* Bug: each request begins the window anew.
CountAnew(b) == [count |-> b.count + 1, left |-> WindowTicks]

\* INCR, and the expiry for the first; hitMemoryLimit does the same.
Count(b) ==
  [count |-> b.count + 1, left |-> IF b.left > 0 THEN b.left ELSE WindowTicks]

Spend(k, n) ==
  spent' = IF n <= LimitMax THEN [spent EXCEPT ![k][0] = @ + 1] ELSE spent

Bounded(k) == buckets[k].count < MaxHits /\ spent[k][0] < MaxHits

\* hitRedisLimit: the script is one step. Its answer may be lost, and the request
\* with it, or the client of Redis sends it once more: the next step counts again.
HitRedisLimit(k) ==
  /\ limiter = "redis" /\ Bounded(k)
  /\ buckets' = [buckets EXCEPT ![k] = Count(@)]
  /\ Spend(k, buckets'[k].count)
  /\ UNCHANGED <<limiter, order, dropped>>

\* The keys of a sequence whose time is not over, as they are in it (a recursive
\* function, because provers cannot expand SelectSeq).
LiveKeys(keys) ==
  LET kept[i \in 0..Len(keys)] ==
        IF i = 0 THEN <<>>
        ELSE IF buckets[keys[i]].left > 0 THEN Append(kept[i - 1], keys[i]) ELSE kept[i - 1]
  IN  kept[Len(keys)]

\* cleanupBuckets: a full Map loses the key that has been in it for longest, live
\* or not, and all whose time is over.
CleanupBuckets == IF Len(order) < MaxBuckets THEN order ELSE LiveKeys(Tail(order))

\* hitMemoryLimit: a key keeps its place when its counter is set again.
HitMemoryLimit(k) ==
  LET kept == CleanupBuckets
      lost == {j \in Keys : buckets[j].left > 0 /\ ~Contains(kept, j)}
      left == [j \in Keys |-> IF j \in lost THEN NoBucket ELSE buckets[j]]
  IN /\ limiter = "memory" /\ Bounded(k)
     /\ buckets' = [left EXCEPT ![k] = Count(@)]
     /\ order' = IF Contains(kept, k) THEN kept ELSE Append(kept, k)
     /\ dropped' = dropped \cup lost
     /\ Spend(k, buckets'[k].count)
     /\ UNCHANGED limiter

\* The Map is empty after a restart of the process; Redis keeps its counters in a file.
RestartLimiter ==
  /\ limiter = "memory"
  /\ buckets' = [k \in Keys |-> NoBucket]
  /\ order' = <<>>
  /\ dropped' = dropped \cup {k \in Keys : buckets[k].left > 0}
  /\ UNCHANGED <<limiter, spent>>

\* What is older than a window is forgotten.
Tick ==
  /\ buckets' = [k \in Keys |-> IF buckets[k].left <= 1 THEN NoBucket
                                ELSE [buckets[k] EXCEPT !.left = @ - 1]]
  /\ spent' = [k \in Keys |-> [a \in 0..(WindowTicks - 1) |->
                 IF a = 0 THEN 0 ELSE spent[k][a - 1]]]
  /\ dropped' = {k \in dropped : spent'[k] # NothingSpent}
  /\ UNCHANGED <<limiter, order>>

LimitNext ==
  \/ \E k \in Keys : HitRedisLimit(k) \/ HitMemoryLimit(k)
  \/ RestartLimiter \/ Tick

LimitSpec == LimitInit /\ [][LimitNext]_limitVars
-----------------------------------------------------------------------------
\* Windows that begin with a request may lie side by side: within the length of a
\* window a client gets through less than twice the limit, unless its counter was
\* lost; and it is refused only when it has spent the limit within that time, so
\* that refused requests do not keep it out (RateLimitMiddleware.use).
LimitHolds ==
  \A k \in Keys :
    /\ SpentBy(k) < 2 * LimitMax \/ k \in dropped
    /\ buckets[k].count > LimitMax => SpentBy(k) >= LimitMax
=============================================================================
