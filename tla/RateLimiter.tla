---------------------------- MODULE RateLimiter ----------------------------
(***************************************************************************)
(* internal/redis/client.go (Allow) and internal/middleware/rate_limiter.go*)
(* over the counters in Redis.  The key of a counter is a header of the    *)
(* request that names its sender, such as X-Real-IP, or, without one, the  *)
(* address and port of its connection; these strings are the Origins.  A   *)
(* connection has one request at a time.                                   *)
(*                                                                         *)
(* Time passes in ticks of a second.  The Lua script is one step: Redis    *)
(* runs nothing else meanwhile.  The client that Connect makes repeats an  *)
(* EVAL that failed, so one request may run the script several times.      *)
(***************************************************************************)
EXTENDS Integers, FiniteSets

CONSTANTS
    Origins,        \* the origins of requests
    Connections,    \* where requests arrive, one after the other
    OriginOf,       \* the origin of each connection
    Limit,          \* requestsPerMinute
    Window,         \* the window NewServer's limiter uses, in seconds
    MaxRetries,     \* retries of the Redis client, by default 3
    RedisFaults     \* failures of Redis considered, a subset of RedisFaultKinds

\* "error": Eval fails and the script has not run.  "ambiguous": it has run,
\* and its answer is lost.
RedisFaultKinds == {"error", "ambiguous"}

ASSUME RateLimiterAssumption ==
    /\ IsFiniteSet(Connections)
    /\ OriginOf \in [Connections -> Origins]
    /\ Limit \in Nat \ {0}
    /\ Window \in Nat
    /\ MaxRetries \in Nat
    /\ RedisFaults \subseteq RedisFaultKinds

VARIABLES
    count,      \* the counter of an origin, 0 when its key does not exist
    ttl,        \* seconds until the key expires
    tries,      \* failed tries of the request that a connection is busy with
    since,      \* history: runs counted in this second and the ones before it
    asked,      \* history: the number of requests that these runs were for
    lastRun     \* history: seconds since a run was counted for that request

counters == << count, ttl >>
limiterVars == << counters, tries, since, asked, lastRun >>

\* An expiry of 0 is prevented.
WindowSeconds == IF Window <= 0 THEN 1 ELSE Window

\* since[o][age] and asked[o][age] are about this second and the age seconds
\* before it; Uncounted stands for a run that is older, or that never was.
Ages == 0 .. (WindowSeconds - 1)
Uncounted == WindowSeconds

LimiterInit ==
    /\ count = [o \in Origins |-> 0]
    /\ ttl = [o \in Origins |-> 0]
    /\ tries = [c \in Connections |-> 0]
    /\ since = [o \in Origins |-> [age \in Ages |-> 0]]
    /\ asked = [o \in Origins |-> [age \in Ages |-> 0]]
    /\ lastRun = [c \in Connections |-> Uncounted]

-----------------------------------------------------------------------------
(* The script. *)

\* Mutant: the counter may exceed the limit by one.
ExceededOffByOne(o) == count[o] > Limit

Exceeded(o) == count[o] >= Limit

\* Mutant: every origin shares one key.
IncrShared(o) ==
    /\ count' = [p \in Origins |-> count[p] + 1]
    /\ ttl' = [p \in Origins |-> IF count[p] = 0 THEN WindowSeconds ELSE ttl[p]]

\* INCR, and EXPIRE for the run that creates the key.
Incr(o) ==
    /\ count' = [count EXCEPT ![o] = @ + 1]
    /\ ttl' = [ttl EXCEPT ![o] = IF count[o] = 0 THEN WindowSeconds ELSE @]

\* The histories of a run that counts: the stretches of time that have seen an
\* earlier run for the same request have seen the request.
Recorded(c, o) ==
    /\ since' = [since EXCEPT ![o] = [age \in Ages |-> since[o][age] + 1]]
    /\ asked' = [asked EXCEPT ![o] = [age \in Ages |->
                    IF lastRun[c] <= age THEN asked[o][age] ELSE asked[o][age] + 1]]

\* The script returns 1.
Counted(c) ==
    /\ ~Exceeded(OriginOf[c])
    /\ Incr(OriginOf[c])
    /\ Recorded(c, OriginOf[c])

NotCounted == UNCHANGED << counters, since, asked >>

-----------------------------------------------------------------------------
(* Allow and the middleware, for the request of connection c. *)

\* The request leaves the limiter.
Through(c) ==
    /\ tries' = [tries EXCEPT ![c] = 0]
    /\ lastRun' = [lastRun EXCEPT ![c] = Uncounted]

\* The script admits the request and Allow returns nil.
Allowed(c) == Counted(c) /\ Through(c)

\* The client sends the EVAL again: it was not run, or it was and its answer
\* is lost.
Retry(c) ==
    /\ tries[c] < MaxRetries
    /\ tries' = [tries EXCEPT ![c] = @ + 1]
    /\ \/ /\ "error" \in RedisFaults \/ ("ambiguous" \in RedisFaults /\ Exceeded(OriginOf[c]))
          /\ NotCounted
          /\ UNCHANGED lastRun
       \/ /\ "ambiguous" \in RedisFaults
          /\ Counted(c)
          /\ lastRun' = [lastRun EXCEPT ![c] = 0]

\* Allow returns another error and the middleware lets the request pass: an
\* error that is not retried, or that of the last try.
FailOpen(c) ==
    /\ \/ "error" \in RedisFaults /\ NotCounted
       \/ /\ "ambiguous" \in RedisFaults /\ tries[c] = MaxRetries
          /\ Counted(c) \/ (Exceeded(OriginOf[c]) /\ NotCounted)
    /\ Through(c)

Passes(c) == Allowed(c) \/ FailOpen(c)

\* Mutant: a refused request starts the window anew.
TooManyRequestsExtends(c) ==
    /\ Exceeded(OriginOf[c])
    /\ ttl' = [ttl EXCEPT ![OriginOf[c]] = WindowSeconds]
    /\ Through(c)
    /\ UNCHANGED << count, since, asked >>

\* ErrRateLimitExceeded: a 429, and the counter is left alone.
TooManyRequests(c) ==
    /\ Exceeded(OriginOf[c])
    /\ NotCounted
    /\ Through(c)

\* The context of the request ends between two tries, and so does Allow.
Canceled(c) ==
    /\ tries[c] > 0
    /\ NotCounted
    /\ Through(c)

\* A second passes, and Redis drops the keys whose time has come.
Tick ==
    /\ ttl' = [o \in Origins |-> IF ttl[o] = 0 THEN 0 ELSE ttl[o] - 1]
    /\ count' = [o \in Origins |-> IF ttl'[o] = 0 THEN 0 ELSE count[o]]
    /\ since' = [o \in Origins |->
                    [age \in Ages |-> IF age = 0 THEN 0 ELSE since[o][age - 1]]]
    /\ asked' = [o \in Origins |->
                    [age \in Ages |-> IF age = 0 THEN 0 ELSE asked[o][age - 1]]]
    /\ lastRun' = [c \in Connections |->
                      IF lastRun[c] = Uncounted THEN Uncounted ELSE lastRun[c] + 1]
    /\ UNCHANGED tries

-----------------------------------------------------------------------------
(* Properties. *)

\* The runs counted for origin o in the last WindowSeconds, and the requests
\* they were for.
Recent(o) == since[o][WindowSeconds - 1]
RecentRequests(o) == asked[o][WindowSeconds - 1]

(* A fixed window is no sliding one, so its limit holds for the window that a
   first request opens.  In any other stretch of that length the script counts
   fewer than twice as many for one origin.  Requests that pass because Redis
   fails are bounded by nothing. *)
BurstBounded == \A o \in Origins : Recent(o) < 2 * Limit

\* How often a request may be counted: the client repeats a run only if its
\* answer was lost.
RunsPerRequest == IF "ambiguous" \in RedisFaults THEN MaxRetries + 1 ELSE 1

(* Nobody is turned away for the requests of others or of an earlier window:
   an origin whose requests are refused has used up the limit itself in the last
   WindowSeconds.  That takes Limit requests as long as Redis answers, and with
   the client's retries never fewer than Limit / (MaxRetries + 1). *)
LimitedOnlyBySelf ==
    \A o \in Origins : Exceeded(o) => RunsPerRequest * RecentRequests(o) >= Limit

(* An origin at its limit is served again, even if it goes on sending. *)
LimitRecovers == \A o \in Origins : Exceeded(o) ~> ~Exceeded(o)
=============================================================================
