------------------------------ MODULE RateLimit ------------------------------
(***************************************************************************)
(* The fixed-window limiter of src/security/rate-limit.ts: one counter per *)
(* domain and key, in one map whose size is watched.                       *)
(***************************************************************************)
EXTENDS Integers, FiniteSets, Functions

CONSTANTS
  Limits,       \* RateLimitRules: domain |-> allowed in a window
  WindowMs,     \* length of a window, in ticks
  MaxTracked    \* MAX_TRACKED_KEYS

ASSUME RateAssumption ==
  /\ \A d \in DOMAIN Limits : Limits[d] \in Nat \ {0}
  /\ WindowMs \in Nat \ {0}
  /\ MaxTracked \in Nat

VARIABLES
  now,        \* the clock
  counters    \* #counters: <<domain, key>> |-> [start, count]

rateVars == <<now, counters>>

Domains == DOMAIN Limits

RateTypeOK ==
  /\ now \in Nat
  /\ \A k \in DOMAIN counters :
       k[1] \in Domains /\ counters[k] \in [start : 0..now, count : Nat \ {0}]

RateInit == now = 0 /\ counters = << >>

-----------------------------------------------------------------------------
\* The operators take the map they work on: a login consumes two quotas in
\* one step.

\* now - windowStart >= windowMs
Expired(map, k) == now - map[k].start >= WindowMs
Running(map, k) == k \in DOMAIN map /\ ~Expired(map, k)

\* Mutant of Kept: the map is emptied when it is full.
KeptNone(map) == IF Cardinality(DOMAIN map) >= MaxTracked THEN << >> ELSE map

\* Only a new window looks at the size of the map, and only expired windows
\* leave it: it grows past MaxTracked while all windows are running.
Kept(map) ==
  IF Cardinality(DOMAIN map) >= MaxTracked
    THEN Restrict(map, {k \in DOMAIN map : ~Expired(map, k)})
    ELSE map

\* The verdict of consume.
Allowed(map, k) == Running(map, k) => map[k].count + 1 <= Limits[k[1]]

\* What consume leaves in the map; refused requests are counted as well.
Consumed(map, k) ==
  IF Running(map, k)
    THEN [map EXCEPT ![k].count = @ + 1]
    ELSE [j \in DOMAIN Kept(map) \cup {k} |->
            IF j = k THEN [start |-> now, count |-> 1] ELSE Kept(map)[j]]

=============================================================================
