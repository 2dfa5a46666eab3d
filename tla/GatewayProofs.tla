---------------------------- MODULE GatewayProofs ----------------------------
(***************************************************************************)
(* Theorems about Gateway, for any number of origins, connections, users,  *)
(* registrations and wallets, any limit, any window and any number of      *)
(* retries.  The limiter, the tables of auth and the handlers have an      *)
(* invariant each: LimiterInv (when the window of an origin opened, what   *)
(* it has seen since, and for how many requests), AuthInv (what a token    *)
(* and a 201 imply of the table users) and HandlerInv, which rests on      *)
(* AuthInv.                                                                *)
(***************************************************************************)
EXTENDS Gateway, DatabaseProofs, FiniteSetTheorems

USE DEF PlatformAccount

\* The conjuncts of GatewayTypeOK, component by component.
CounterTypeOK ==
    /\ count \in [Origins -> 0 .. Limit]
    /\ ttl \in [Origins -> 0 .. WindowSeconds]
    /\ since \in [Origins -> [Ages -> Nat]]

CallTypeOK ==
    /\ tries \in [Connections -> 0 .. MaxRetries]
    /\ asked \in [Origins -> [Ages -> Nat]]
    /\ lastRun \in [Connections -> 0 .. Uncounted]

AuthTypeOK ==
    /\ users \in [Emails -> {NoUser} \cup [password : Passwords, role : Roles]]
    /\ tokens \subseteq [user : Emails, role : Roles]
    /\ registered \subseteq Registrations

HandlerTypeOK ==
    /\ reading \in [Connections -> {NotReading} \cup [user : Users, wallet : Wallets]]
    /\ shown \subseteq [user : Users, wallet : Wallets]
    /\ changedBy \subseteq [user : Users, wallet : Wallets]

\* GatewayTypeOK by its parts.
LEMMA GatewayTypeParts ==
    GatewayTypeOK <=> DbTypeOK /\ CounterTypeOK /\ CallTypeOK /\ AuthTypeOK /\ HandlerTypeOK
BY DEF GatewayTypeOK, CounterTypeOK, CallTypeOK, AuthTypeOK, HandlerTypeOK

-----------------------------------------------------------------------------
(* The kinds of steps, for each of the components. *)

\* A run that counts ends the client's call, or its answer is lost.
CountedRun(c) ==
    /\ Counted(c)
    /\ \/ Through(c)
       \/ /\ "ambiguous" \in RedisFaults
          /\ tries[c] < MaxRetries
          /\ tries' = [tries EXCEPT ![c] = @ + 1]
          /\ lastRun' = [lastRun EXCEPT ![c] = 0]

\* A call ends or goes on without a run that counts.
UncountedRun(c) ==
    /\ NotCounted
    /\ \/ Through(c)
       \/ /\ tries[c] < MaxRetries
          /\ tries' = [tries EXCEPT ![c] = @ + 1]
          /\ UNCHANGED lastRun

\* What a request or a tick does to the counters and the calls.
LimiterKinds ==
    \/ Tick
    \/ UNCHANGED limiterVars
    \/ \E c \in Connections : CountedRun(c) \/ UncountedRun(c)

\* What a step does to users and tokens.
AuthKinds ==
    \/ UNCHANGED authVars
    \/ \E r \in Registrations : Register(r) \/ RegisterReplyLost(r)
    \/ \E e \in Emails, p \in Passwords : Login(e, p)
    \/ \E t \in tokens : TokenExpires(t)

\* Every way through the limiter is of one of these kinds.
LEMMA LimiterOutcomes ==
    ASSUME NEW c \in Connections,
           Passes(c) \/ Canceled(c) \/ TooManyRequests(c) \/ Retry(c)
    PROVE  LimiterKinds
<1>1. CASE Passes(c)
  BY <1>1 DEF Passes, Allowed, FailOpen, LimiterKinds, CountedRun, UncountedRun
<1>2. CASE Canceled(c) \/ TooManyRequests(c)
  BY <1>2 DEF Canceled, TooManyRequests, LimiterKinds, UncountedRun
<1>3. CASE Retry(c)
  BY <1>3 DEF Retry, LimiterKinds, CountedRun, UncountedRun
<1> QED  BY <1>1, <1>2, <1>3

\* Every step touches the limiter in one of these ways, and users and tokens.
LEMMA GatewayKinds == ASSUME GatewayNext PROVE LimiterKinds /\ AuthKinds
<1>1. ASSUME NEW c \in Connections, NEW t \in tokens, Authenticated(c, t)
      PROVE  Passes(c) /\ UNCHANGED authVars
  BY <1>1 DEF Authenticated, HandleGetWallets, HandleCreateWallet, HandleGetWallet,
     HandleGetTransactions, HandleSetStatus
<1>2. ASSUME NEW c \in Connections,
             RetryLimiter(c) \/ WithoutEffect(c) \/ RateLimited(c) \/ GetTransactions(c)
      PROVE  LimiterKinds /\ UNCHANGED authVars
  BY <1>2, LimiterOutcomes
  DEF RetryLimiter, WithoutEffect, RateLimited, GetTransactions, LimiterKinds
<1>3. ASSUME NEW c \in Connections, NEW r \in Registrations, HandleRegister(c, r)
      PROVE  LimiterKinds /\ AuthKinds
  BY <1>3, LimiterOutcomes DEF HandleRegister, AuthKinds
<1>4. ASSUME NEW c \in Connections, NEW e \in Emails, NEW p \in Passwords, HandleLogin(c, e, p)
      PROVE  LimiterKinds /\ AuthKinds
  BY <1>4, LimiterOutcomes DEF HandleLogin, AuthKinds
<1>5. ASSUME NEW t \in tokens, TokenExpires(t), UNCHANGED limiterVars
      PROVE  LimiterKinds /\ AuthKinds
  BY <1>5 DEF LimiterKinds, AuthKinds
<1>6. CASE TimePasses
  BY <1>6 DEF TimePasses, LimiterKinds, AuthKinds
<1> QED
  BY <1>1, <1>2, <1>3, <1>4, <1>5, <1>6, LimiterOutcomes DEF GatewayNext, HandleRequest, AuthKinds

-----------------------------------------------------------------------------
(* The counters. *)

\* The window of origin o opened WindowSeconds - ttl[o] seconds ago, with a
\* run that only stretches reaching back that far have seen.
WindowInv(o) ==
    /\ count[o] > 0 <=> ttl[o] > 0
    /\ \A age \in Ages : age > 0 => since[o][age - 1] <= since[o][age]
    /\ count[o] = 0 => Recent(o) <= Limit - 1
    /\ count[o] > 0 =>
          /\ Recent(o) <= count[o] + Limit - 1
          /\ \A age \in Ages : IF age >= WindowSeconds - ttl[o]
                               THEN since[o][age] >= count[o]
                               ELSE since[o][age] <= count[o] - 1

CounterInv == CounterTypeOK /\ \A o \in Origins : WindowInv(o)

\* There is a window, and its last second is an age.
LEMMA WindowType ==
    /\ WindowSeconds \in Nat \ {0} /\ Limit \in Nat \ {0}
    /\ WindowSeconds - 1 \in Ages /\ 0 \in Ages
    /\ \A age \in Ages : age \in Nat /\ age < WindowSeconds /\ (age > 0 => age - 1 \in Ages)
<1>1. WindowSeconds \in Nat \ {0} /\ Limit \in Nat \ {0}
  BY RateLimiterAssumption DEF WindowSeconds
<1> QED  BY <1>1 DEF Ages

\* Nothing has been counted at first.
LEMMA CounterStart == LimiterInit => CounterInv
<1> USE WindowType
<1> SUFFICES ASSUME LimiterInit PROVE CounterInv
  OBVIOUS
<1>1. CounterTypeOK
  BY DEF LimiterInit, CounterTypeOK
<1>2. ASSUME NEW o \in Origins PROVE WindowInv(o)
  <2>1. count[o] = 0 /\ ttl[o] = 0 /\ \A age \in Ages : since[o][age] = 0
    BY DEF LimiterInit
  <2> QED  BY <2>1 DEF WindowInv, Recent
<1> QED  BY <1>1, <1>2 DEF CounterInv

\* A run that is counted is seen by every stretch of time up to now.
LEMMA CounterCounted ==
    ASSUME CounterInv, NEW c \in Connections, Counted(c)
    PROVE  CounterInv'
<1> USE WindowType
<1> DEFINE o == OriginOf[c]
<1>0. o \in Origins
  BY RateLimiterAssumption
<1> CounterTypeOK /\ \A p \in Origins : WindowInv(p)
  BY DEF CounterInv
<1>1. /\ count[o] \in Nat /\ count[o] < Limit /\ ttl[o] \in 0 .. WindowSeconds
      /\ \A age \in Ages : since[o][age] \in Nat
  BY <1>0 DEF Counted, Exceeded, CounterTypeOK
<1>2. /\ count' = [count EXCEPT ![o] = count[o] + 1]
      /\ ttl' = [ttl EXCEPT ![o] = IF count[o] = 0 THEN WindowSeconds ELSE ttl[o]]
      /\ since' = [since EXCEPT ![o] = [age \in Ages |-> since[o][age] + 1]]
  BY DEF Counted, Incr, Recorded
<1> HIDE DEF o
<1>3. CounterTypeOK'
  BY <1>0, <1>1, <1>2 DEF CounterTypeOK
<1>4. ASSUME NEW p \in Origins \ {o} PROVE WindowInv(p)'
  <2>1. count'[p] = count[p] /\ ttl'[p] = ttl[p] /\ since'[p] = since[p]
    BY <1>2, <1>4 DEF CounterTypeOK
  <2> QED  BY <2>1 DEF WindowInv, Recent
<1>5. WindowInv(o)'
  <2>1. /\ count'[o] = count[o] + 1
        /\ ttl'[o] = IF count[o] = 0 THEN WindowSeconds ELSE ttl[o]
        /\ \A age \in Ages : since'[o][age] = since[o][age] + 1
    BY <1>0, <1>2 DEF CounterTypeOK
  <2>2. count'[o] > 0 <=> ttl'[o] > 0
    BY <1>0, <1>1, <2>1 DEF WindowInv
  <2>3. \A age \in Ages : age > 0 => since'[o][age - 1] <= since'[o][age]
    BY <1>0, <1>1, <2>1 DEF WindowInv
  <2>4. Recent(o)' <= count'[o] + Limit - 1
    BY <1>0, <1>1, <2>1 DEF WindowInv, Recent
  <2>5. ASSUME NEW age \in Ages
        PROVE  IF age >= WindowSeconds - ttl'[o] THEN since'[o][age] >= count'[o]
                                                 ELSE since'[o][age] <= count'[o] - 1
    BY <1>0, <1>1, <2>1 DEF WindowInv
  <2>6. count'[o] > 0
    BY <1>1, <2>1
  <2> QED  BY <1>1, <2>1, <2>2, <2>3, <2>4, <2>5, <2>6 DEF WindowInv
<1> QED  BY <1>3, <1>4, <1>5 DEF CounterInv

\* A second later every stretch of time has seen what the one that is shorter by
\* a second saw; and when the window closes, the request that opened it is too
\* old to be seen by any.
LEMMA CounterTick ==
    ASSUME CounterInv, Tick
    PROVE  CounterInv'
<1> USE WindowType
<1> CounterTypeOK /\ \A p \in Origins : WindowInv(p)
  BY DEF CounterInv
<1>1. ASSUME NEW o \in Origins
      PROVE  /\ ttl'[o] = IF ttl[o] = 0 THEN 0 ELSE ttl[o] - 1
             /\ count'[o] = IF ttl'[o] = 0 THEN 0 ELSE count[o]
             /\ \A age \in Ages : since'[o][age] = IF age = 0 THEN 0 ELSE since[o][age - 1]
  BY DEF Tick
<1>2. CounterTypeOK'
  <2>1. ttl' \in [Origins -> 0 .. WindowSeconds]
    <3>1. \A o \in Origins : ttl[o] \in 0 .. WindowSeconds
      BY DEF CounterTypeOK
    <3>2. \A o \in Origins : (IF ttl[o] = 0 THEN 0 ELSE ttl[o] - 1) \in 0 .. WindowSeconds
      BY <3>1
    <3> QED  BY <3>2 DEF Tick
  <2>2. count' \in [Origins -> 0 .. Limit]
    BY DEF CounterTypeOK, Tick
  <2>3. since' \in [Origins -> [Ages -> Nat]]
    BY DEF CounterTypeOK, Tick
  <2> QED  BY <2>1, <2>2, <2>3 DEF CounterTypeOK
<1>3. ASSUME NEW o \in Origins PROVE WindowInv(o)'
  <2>1. /\ count[o] \in Nat /\ count[o] <= Limit /\ ttl[o] \in 0 .. WindowSeconds
        /\ \A age \in Ages : since[o][age] \in Nat
    BY DEF CounterTypeOK
  <2>2. count'[o] > 0 <=> ttl'[o] > 0
    BY <1>1, <2>1 DEF WindowInv
  <2>3. ASSUME NEW age \in Ages, age > 0 PROVE since'[o][age - 1] <= since'[o][age]
    BY <1>1, <2>1, <2>3 DEF WindowInv
  <2>4. Recent(o)' <= Recent(o)
    BY <1>1, <2>1 DEF WindowInv, Recent
  <2>5. CASE ttl[o] = 0
    BY <1>1, <2>1, <2>2, <2>3, <2>4, <2>5 DEF WindowInv, Recent, CounterTypeOK
  <2>6. CASE ttl[o] = 1
    <3>1. Recent(o)' <= count[o] - 1
      BY <1>1, <2>1, <2>6 DEF WindowInv, Recent
    <3>2. count'[o] = 0 /\ Recent(o)' \in Nat
      BY <1>1, <1>2, <2>6 DEF CounterTypeOK, Recent
    <3> QED  BY <2>1, <2>2, <2>3, <3>1, <3>2 DEF WindowInv
  <2>7. CASE ttl[o] > 1
    <3>1. count'[o] = count[o] /\ count[o] > 0 /\ ttl'[o] = ttl[o] - 1
      BY <1>1, <2>1, <2>7 DEF WindowInv
    <3>2. ASSUME NEW age \in Ages
          PROVE  IF age >= WindowSeconds - ttl'[o] THEN since'[o][age] >= count'[o]
                                                   ELSE since'[o][age] <= count'[o] - 1
      BY <1>1, <2>1, <2>7, <3>1 DEF WindowInv
    <3>3. Recent(o)' <= count'[o] + Limit - 1
      BY <1>2, <2>1, <2>4, <3>1 DEF WindowInv, CounterTypeOK, Recent
    <3> QED  BY <2>2, <2>3, <3>1, <3>2, <3>3 DEF WindowInv
  <2> QED  BY <2>1, <2>5, <2>6, <2>7
<1> QED  BY <1>2, <1>3 DEF CounterInv

-----------------------------------------------------------------------------
(* The calls of the Redis client. *)

\* The runs that the calls of origin o may still add to a stretch of time that
\* has seen their requests already.
Spare(o, age) ==
    {run \in Connections \X (1 .. MaxRetries) :
        OriginOf[run[1]] = o /\ lastRun[run[1]] <= age /\ tries[run[1]] <= run[2]}

\* A request that was counted and is still in the limiter has lost an answer.
\* What was counted, and may still be without being a new request, does not
\* exceed what the requests account for.
CallInv ==
    /\ CallTypeOK
    /\ \A c \in Connections :
          lastRun[c] # Uncounted => tries[c] > 0 /\ "ambiguous" \in RedisFaults
    /\ "ambiguous" \notin RedisFaults => asked = since
    /\ \A o \in Origins, age \in Ages :
          since[o][age] + Cardinality(Spare(o, age)) <= (MaxRetries + 1) * asked[o][age]

LimiterInv == CounterInv /\ CallInv

\* Spare runs are finitely many.
LEMMA SpareFinite ==
    ASSUME NEW o, NEW age
    PROVE  IsFiniteSet(Spare(o, age)) /\ Cardinality(Spare(o, age)) \in Nat
<1>1. IsFiniteSet(Connections) /\ IsFiniteSet(1 .. MaxRetries)
  BY RateLimiterAssumption, FS_Interval
<1>2. IsFiniteSet(Connections \X (1 .. MaxRetries))
  BY <1>1, FS_Product
<1>3. Spare(o, age) \in SUBSET (Connections \X (1 .. MaxRetries))
  BY DEF Spare
<1>4. IsFiniteSet(Spare(o, age))
  BY <1>2, <1>3, FS_Subset
<1> QED  BY <1>4, FS_CardinalityType

\* Fewer of them are no more.
LEMMA SpareShrinks ==
    ASSUME NEW o, NEW age, NEW p, NEW old, Spare(o, age)' \subseteq Spare(p, old)
    PROVE  /\ Cardinality(Spare(o, age)') \in Nat
           /\ Cardinality(Spare(o, age)') <= Cardinality(Spare(p, old))
<1>1. IsFiniteSet(Spare(p, old))
  BY SpareFinite
<1>2. Spare(o, age)' \in SUBSET Spare(p, old)
  OBVIOUS
<1> DEFINE S == Spare(p, old)
           T == Spare(o, age)'
<1>3. IsFiniteSet(S) /\ T \in SUBSET S
  BY <1>1, <1>2
<1> HIDE DEF S, T
<1>4. IsFiniteSet(T) /\ Cardinality(T) <= Cardinality(S)
  BY <1>3, FS_Subset
<1>5. Cardinality(T) \in Nat
  BY <1>4, FS_CardinalityType
<1> QED  BY <1>4, <1>5 DEF S, T

\* One more request accounts for MaxRetries + 1 more runs.
LEMMA OneMoreRequest ==
    ASSUME NEW n \in Nat
    PROVE  (MaxRetries + 1) * (n + 1) = (MaxRetries + 1) * n + MaxRetries + 1
BY RateLimiterAssumption

\* Nothing has been asked at first.
LEMMA CallStart == LimiterInit => CallInv
<1> SUFFICES ASSUME LimiterInit PROVE CallInv
  OBVIOUS
<1> USE WindowType
<1>1. CallTypeOK /\ (\A c \in Connections : lastRun[c] = Uncounted) /\ asked = since
  BY RateLimiterAssumption DEF LimiterInit, CallTypeOK, Uncounted
<1>2. ASSUME NEW o \in Origins, NEW age \in Ages
      PROVE  since[o][age] + Cardinality(Spare(o, age)) <= (MaxRetries + 1) * asked[o][age]
  <2>1. Spare(o, age) = {}
    BY <1>1 DEF Spare, Uncounted
  <2>2. Cardinality(Spare(o, age)) = 0
    BY <2>1, FS_EmptySet
  <2>3. since[o][age] = 0 /\ asked[o][age] = 0
    BY DEF LimiterInit
  <2> QED  BY <2>2, <2>3, RateLimiterAssumption
<1> QED  BY <1>1, <1>2 DEF CallInv

\* A run that counts uses up a spare one, or adds a request.
LEMMA CallCounted ==
    ASSUME CounterInv, CallInv, NEW c \in Connections, CountedRun(c)
    PROVE  CallInv'
<1> USE WindowType
<1> DEFINE q == OriginOf[c]
<1>0. q \in Origins /\ MaxRetries \in Nat
  BY RateLimiterAssumption
<1>1. /\ since' = [since EXCEPT ![q] = [age \in Ages |-> since[q][age] + 1]]
      /\ asked' = [asked EXCEPT ![q] = [age \in Ages |->
             IF lastRun[c] <= age THEN asked[q][age] ELSE asked[q][age] + 1]]
  BY DEF CountedRun, Counted, Recorded
<1>2. /\ CallTypeOK /\ since \in [Origins -> [Ages -> Nat]]
      /\ \A d \in Connections :
            lastRun[d] # Uncounted => tries[d] > 0 /\ "ambiguous" \in RedisFaults
  BY DEF CallInv, CounterInv, CounterTypeOK
<1>3. /\ tries \in [Connections -> 0 .. MaxRetries] /\ lastRun \in [Connections -> 0 .. Uncounted]
      /\ asked \in [Origins -> [Ages -> Nat]]
  BY <1>2 DEF CallTypeOK
<1>4. \/ /\ tries' = [tries EXCEPT ![c] = 0]
         /\ lastRun' = [lastRun EXCEPT ![c] = Uncounted]
      \/ /\ "ambiguous" \in RedisFaults /\ tries[c] < MaxRetries
         /\ tries' = [tries EXCEPT ![c] = tries[c] + 1]
         /\ lastRun' = [lastRun EXCEPT ![c] = 0]
  BY DEF CountedRun, Through
<1> HIDE DEF q
<1>5. CallTypeOK'
  <2>1. tries' \in [Connections -> 0 .. MaxRetries]
    BY <1>0, <1>3, <1>4
  <2>2. lastRun' \in [Connections -> 0 .. Uncounted]
    BY <1>3, <1>4 DEF Uncounted
  <2>3. asked' \in [Origins -> [Ages -> Nat]]
    BY <1>0, <1>1, <1>3
  <2> QED  BY <2>1, <2>2, <2>3 DEF CallTypeOK
<1>6. \A d \in Connections : lastRun'[d] # Uncounted => tries'[d] > 0 /\ "ambiguous" \in RedisFaults
  BY <1>2, <1>3, <1>4
<1>7. ASSUME "ambiguous" \notin RedisFaults PROVE asked' = since'
  <2>1. asked = since /\ lastRun[c] = Uncounted
    BY <1>2, <1>7 DEF CallInv
  <2>2. \A age \in Ages : ~(lastRun[c] <= age)
    BY <2>1 DEF Uncounted
  <2>3. [age \in Ages |-> IF lastRun[c] <= age THEN asked[q][age] ELSE asked[q][age] + 1]
            = [age \in Ages |-> since[q][age] + 1]
    BY <2>1, <2>2
  <2> QED  BY <1>1, <2>1, <2>3
<1>8. ASSUME NEW o \in Origins, NEW age \in Ages
      PROVE  since'[o][age] + Cardinality(Spare(o, age)') <= (MaxRetries + 1) * asked'[o][age]
  <2>1. /\ since[o][age] + Cardinality(Spare(o, age)) <= (MaxRetries + 1) * asked[o][age]
        /\ since[o][age] \in Nat /\ asked[o][age] \in Nat
        /\ Cardinality(Spare(o, age)) \in Nat
    BY <1>2, <1>3, SpareFinite DEF CallInv
  <2>2. \A d \in Connections \ {c} : tries'[d] = tries[d] /\ lastRun'[d] = lastRun[d]
    BY <1>3, <1>4
  <2>3. CASE o # q
    <3>1. Spare(o, age)' \subseteq Spare(o, age)
      BY <2>2, <2>3 DEF Spare, q
    <3>2. since'[o][age] = since[o][age] /\ asked'[o][age] = asked[o][age]
      BY <1>1, <1>2, <1>3, <2>3
    <3>3. /\ Cardinality(Spare(o, age)') \in Nat
          /\ Cardinality(Spare(o, age)') <= Cardinality(Spare(o, age))
      BY <3>1, SpareShrinks
    <3> QED  BY <2>1, <3>2, <3>3, <1>0
  <2>4. CASE o = q /\ lastRun[c] <= age
    <3>1. tries[c] \in 1 .. MaxRetries
      <4>1. lastRun[c] # Uncounted
        BY <2>4 DEF Uncounted
      <4>2. tries[c] > 0 /\ tries[c] \in 0 .. MaxRetries
        BY <1>2, <1>3, <4>1
      <4> QED  BY <1>0, <4>2
    <3>2. << c, tries[c] >> \in Spare(o, age)
      BY <2>4, <3>1 DEF Spare, q
    <3>3. \A run \in Spare(o, age)' : run \in Spare(o, age) /\ run # << c, tries[c] >>
      BY <1>3, <1>4, <2>2, <2>4, <3>1 DEF Spare, Uncounted
    <3> DEFINE S == Spare(o, age)
               T == Spare(o, age)'
               x == << c, tries[c] >>
    <3>4. IsFiniteSet(S) /\ x \in S /\ T \in SUBSET (S \ {x})
      BY <3>2, <3>3, SpareFinite
    <3> HIDE DEF S, T, x
    <3>5. IsFiniteSet(S \ {x}) /\ Cardinality(S \ {x}) = Cardinality(S) - 1
      BY <3>4, FS_RemoveElement
    <3>6. IsFiniteSet(T) /\ Cardinality(T) <= Cardinality(S \ {x})
      BY <3>4, <3>5, FS_Subset
    <3>7. Cardinality(T) \in Nat
      BY <3>6, FS_CardinalityType
    <3>8. since'[o][age] = since[o][age] + 1 /\ asked'[o][age] = asked[o][age]
      BY <1>0, <1>1, <1>2, <1>3, <2>4
    <3>9. since'[o][age] + Cardinality(T) <= (MaxRetries + 1) * asked'[o][age]
      BY <2>1, <3>5, <3>6, <3>7, <3>8, <1>0 DEF S
    <3> QED  BY <3>9 DEF T
  <2>5. CASE o = q /\ ~(lastRun[c] <= age)
    <3> DEFINE S == Spare(o, age)
               T == Spare(o, age)'
               N == {c} \X (1 .. MaxRetries)
    <3>1. \A run \in T : run \in S \/ run \in N
      BY <2>2 DEF Spare
    <3>2. IsFiniteSet(S) /\ T \in SUBSET (S \cup N)
      BY <3>1, SpareFinite
    <3>3. IsFiniteSet(N) /\ Cardinality(N) <= MaxRetries
      <4>1. IsFiniteSet({c}) /\ Cardinality({c}) = 1
        BY FS_Singleton
      <4>2. IsFiniteSet(1 .. MaxRetries) /\ Cardinality(1 .. MaxRetries) = MaxRetries
        <5>1. /\ IsFiniteSet(1 .. MaxRetries)
              /\ Cardinality(1 .. MaxRetries) = IF 1 > MaxRetries THEN 0 ELSE MaxRetries - 1 + 1
          BY <1>0, FS_Interval
        <5> QED  BY <1>0, <5>1
      <4>3. IsFiniteSet(N) /\ Cardinality(N) = Cardinality({c}) * Cardinality(1 .. MaxRetries)
        BY <4>1, <4>2, FS_Product
      <4> QED  BY <1>0, <4>1, <4>2, <4>3
    <3> HIDE DEF S, T, N
    <3>4. /\ IsFiniteSet(S \cup N)
          /\ Cardinality(S \cup N) = Cardinality(S) + Cardinality(N) - Cardinality(S \cap N)
      BY <3>2, <3>3, FS_Union
    <3>5. IsFiniteSet(T) /\ Cardinality(T) <= Cardinality(S \cup N)
      BY <3>2, <3>4, FS_Subset
    <3>6. IsFiniteSet(S \cap N)
      BY <3>2, FS_Intersection
    <3>7. /\ Cardinality(T) \in Nat /\ Cardinality(S \cup N) \in Nat
          /\ Cardinality(S \cap N) \in Nat /\ Cardinality(N) \in Nat
      BY <3>3, <3>4, <3>5, <3>6, FS_CardinalityType
    <3>8. since'[o][age] = since[o][age] + 1 /\ asked'[o][age] = asked[o][age] + 1
      BY <1>0, <1>1, <1>2, <1>3, <2>5
    <3>9. (MaxRetries + 1) * asked'[o][age] = (MaxRetries + 1) * asked[o][age] + MaxRetries + 1
      BY <2>1, <3>8, OneMoreRequest
    <3>10. (MaxRetries + 1) * asked[o][age] \in Nat
      BY <2>1, <1>0
    <3>11. /\ since[o][age] + Cardinality(S) <= (MaxRetries + 1) * asked[o][age]
           /\ Cardinality(S) \in Nat
      BY <2>1 DEF S
    <3>12. since'[o][age] + Cardinality(T) <= (MaxRetries + 1) * asked'[o][age]
      BY <2>1, <3>3, <3>4, <3>5, <3>7, <3>8, <3>9, <3>10, <3>11, <1>0
    <3> QED  BY <3>12 DEF T
  <2> QED  BY <2>3, <2>4, <2>5
<1> QED  BY <1>5, <1>6, <1>7, <1>8 DEF CallInv

\* A run that does not count leaves no more to spare.
LEMMA CallUncounted ==
    ASSUME CounterInv, CallInv, NEW c \in Connections, UncountedRun(c)
    PROVE  CallInv'
<1> USE WindowType
<1>1. UNCHANGED << since, asked >> /\ MaxRetries \in Nat
  BY RateLimiterAssumption DEF UncountedRun, NotCounted
<1>2. /\ tries \in [Connections -> 0 .. MaxRetries] /\ lastRun \in [Connections -> 0 .. Uncounted]
      /\ asked \in [Origins -> [Ages -> Nat]] /\ since \in [Origins -> [Ages -> Nat]]
      /\ \A d \in Connections :
            lastRun[d] # Uncounted => tries[d] > 0 /\ "ambiguous" \in RedisFaults
  BY DEF CallInv, CallTypeOK, CounterInv, CounterTypeOK
<1>3. \/ /\ tries' = [tries EXCEPT ![c] = 0]
         /\ lastRun' = [lastRun EXCEPT ![c] = Uncounted]
      \/ /\ tries[c] < MaxRetries
         /\ tries' = [tries EXCEPT ![c] = tries[c] + 1]
         /\ UNCHANGED lastRun
  BY DEF UncountedRun, Through
<1>4. CallTypeOK'
  <2>1. tries' \in [Connections -> 0 .. MaxRetries]
    <3>1. tries[c] \in 0 .. MaxRetries /\ 0 \in 0 .. MaxRetries
      BY <1>1, <1>2
    <3>2. tries[c] < MaxRetries => tries[c] + 1 \in 0 .. MaxRetries
      BY <1>1, <3>1
    <3> QED  BY <1>2, <1>3, <3>1, <3>2
  <2>2. lastRun' \in [Connections -> 0 .. Uncounted]
    BY <1>2, <1>3 DEF Uncounted
  <2> QED  BY <1>1, <1>2, <2>1, <2>2 DEF CallTypeOK
<1>5. \A d \in Connections : lastRun'[d] # Uncounted => tries'[d] > 0 /\ "ambiguous" \in RedisFaults
  BY <1>2, <1>3
<1>6. ASSUME NEW o \in Origins, NEW age \in Ages
      PROVE  since'[o][age] + Cardinality(Spare(o, age)') <= (MaxRetries + 1) * asked'[o][age]
  <2>1. ASSUME NEW d \in Connections, NEW k \in 1 .. MaxRetries, lastRun'[d] <= age, tries'[d] <= k
        PROVE  lastRun[d] <= age /\ tries[d] <= k
    <3>1. CASE d # c
      BY <1>2, <1>3, <2>1, <3>1
    <3>2. CASE d = c
      <4>1. lastRun'[c] # Uncounted
        BY <2>1, <3>2 DEF Uncounted
      <4>2. lastRun'[c] = lastRun[c] /\ tries'[c] = tries[c] + 1 /\ tries[c] \in Nat
        BY <1>2, <1>3, <4>1
      <4> QED  BY <2>1, <3>2, <4>2
    <3> QED  BY <3>1, <3>2
  <2>2. Spare(o, age)' \subseteq Spare(o, age)
    BY <2>1 DEF Spare
  <2>3. /\ Cardinality(Spare(o, age)') \in Nat
        /\ Cardinality(Spare(o, age)') <= Cardinality(Spare(o, age))
        /\ Cardinality(Spare(o, age)) \in Nat
    BY <2>2, SpareShrinks, SpareFinite
  <2>4. /\ since[o][age] + Cardinality(Spare(o, age)) <= (MaxRetries + 1) * asked[o][age]
        /\ since[o][age] \in Nat /\ (MaxRetries + 1) * asked[o][age] \in Nat
    BY <1>1, <1>2 DEF CallInv
  <2> QED  BY <1>1, <2>3, <2>4
<1> QED  BY <1>1, <1>4, <1>5, <1>6 DEF CallInv

\* A second later a stretch of time has as much to spare as the one that is
\* shorter by a second had.
LEMMA CallTick ==
    ASSUME CounterInv, CallInv, Tick
    PROVE  CallInv'
<1> USE WindowType
<1>1. /\ since' = [o \in Origins |-> [age \in Ages |-> IF age = 0 THEN 0 ELSE since[o][age - 1]]]
      /\ asked' = [o \in Origins |-> [age \in Ages |-> IF age = 0 THEN 0 ELSE asked[o][age - 1]]]
      /\ lastRun' = [c \in Connections |->
                        IF lastRun[c] = Uncounted THEN Uncounted ELSE lastRun[c] + 1]
      /\ tries' = tries
      /\ MaxRetries \in Nat
  BY RateLimiterAssumption DEF Tick
<1>2. /\ tries \in [Connections -> 0 .. MaxRetries] /\ lastRun \in [Connections -> 0 .. Uncounted]
      /\ asked \in [Origins -> [Ages -> Nat]] /\ since \in [Origins -> [Ages -> Nat]]
      /\ \A d \in Connections :
            lastRun[d] # Uncounted => tries[d] > 0 /\ "ambiguous" \in RedisFaults
  BY DEF CallInv, CallTypeOK, CounterInv, CounterTypeOK
<1>3. CallTypeOK'
  <2>1. lastRun' \in [Connections -> 0 .. Uncounted]
    <3>1. \A c \in Connections : lastRun[c] \in 0 .. Uncounted
      BY <1>2
    <3>2. \A c \in Connections :
             (IF lastRun[c] = Uncounted THEN Uncounted ELSE lastRun[c] + 1) \in 0 .. Uncounted
      BY <3>1 DEF Uncounted
    <3> QED  BY <1>1, <3>2
  <2>2. asked' \in [Origins -> [Ages -> Nat]]
    BY <1>1, <1>2
  <2> QED  BY <1>1, <1>2, <2>1, <2>2 DEF CallTypeOK
<1>4. \A d \in Connections : lastRun'[d] # Uncounted => tries'[d] > 0 /\ "ambiguous" \in RedisFaults
  BY <1>1, <1>2
<1>5. "ambiguous" \notin RedisFaults => asked' = since'
  BY <1>1 DEF CallInv
<1>6. ASSUME NEW o \in Origins, NEW age \in Ages
      PROVE  since'[o][age] + Cardinality(Spare(o, age)') <= (MaxRetries + 1) * asked'[o][age]
  <2>1. CASE age = 0
    <3>1. \A c \in Connections : ~(lastRun'[c] <= age)
      BY <1>1, <1>2, <2>1 DEF Uncounted
    <3>2. Spare(o, age)' = {}
      BY <3>1 DEF Spare
    <3>3. Cardinality(Spare(o, age)') = 0
      BY <3>2, FS_EmptySet
    <3>4. since'[o][age] = 0 /\ asked'[o][age] = 0
      BY <1>1, <2>1
    <3> QED  BY <1>1, <3>3, <3>4
  <2>2. CASE age > 0
    <3>1. \A c \in Connections : lastRun'[c] <= age => lastRun[c] <= age - 1
      BY <1>1, <1>2, <2>2 DEF Uncounted
    <3>2. Spare(o, age)' \subseteq Spare(o, age - 1)
      BY <1>1, <3>1 DEF Spare
    <3>3. /\ Cardinality(Spare(o, age)') \in Nat
          /\ Cardinality(Spare(o, age)') <= Cardinality(Spare(o, age - 1))
          /\ Cardinality(Spare(o, age - 1)) \in Nat
      BY <3>2, SpareShrinks, SpareFinite
    <3>4. age - 1 \in Ages
      BY <2>2
    <3>5. /\ since[o][age - 1] + Cardinality(Spare(o, age - 1))
                <= (MaxRetries + 1) * asked[o][age - 1]
          /\ since[o][age - 1] \in Nat /\ (MaxRetries + 1) * asked[o][age - 1] \in Nat
      BY <1>1, <1>2, <3>4 DEF CallInv
    <3>6. since'[o][age] = since[o][age - 1] /\ asked'[o][age] = asked[o][age - 1]
      BY <1>1, <2>2
    <3> QED  BY <3>3, <3>5, <3>6
  <2> QED  BY <2>1, <2>2
<1> QED  BY <1>3, <1>4, <1>5, <1>6 DEF CallInv

-----------------------------------------------------------------------------
\* Nothing has been counted or asked at first.
LEMMA LimiterStart == LimiterInit => LimiterInv
BY CounterStart, CallStart DEF LimiterInv

\* Every step preserves LimiterInv.
LEMMA LimiterStep == LimiterInv /\ [GatewayNext]_gatewayVars => LimiterInv'
<1> SUFFICES ASSUME LimiterInv, [GatewayNext]_gatewayVars PROVE LimiterInv'
  OBVIOUS
<1> CounterInv /\ CallInv
  BY DEF LimiterInv
<1>1. ASSUME UNCHANGED << counters, since >> PROVE CounterInv'
  BY <1>1 DEF counters, CounterInv, CounterTypeOK, WindowInv, Recent
<1>2. ASSUME UNCHANGED limiterVars PROVE LimiterInv'
  <2>1. CounterInv'
    BY <1>1, <1>2 DEF limiterVars
  <2>2. \A o \in Origins, age \in Ages : Spare(o, age)' = Spare(o, age)
    BY <1>2 DEF limiterVars, Spare
  <2>3. CallInv'
    BY <1>2, <2>2 DEF limiterVars, CallInv, CallTypeOK
  <2> QED  BY <2>1, <2>3 DEF LimiterInv
<1>3. ASSUME NEW c \in Connections, CountedRun(c) PROVE LimiterInv'
  BY <1>3, CounterCounted, CallCounted DEF CountedRun, LimiterInv
<1>4. ASSUME NEW c \in Connections, UncountedRun(c) PROVE LimiterInv'
  BY <1>1, <1>4, CallUncounted DEF UncountedRun, NotCounted, LimiterInv
<1>5. CASE Tick
  BY <1>5, CounterTick, CallTick DEF LimiterInv
<1>6. CASE UNCHANGED gatewayVars
  BY <1>2, <1>6 DEF gatewayVars
<1> QED  BY <1>2, <1>3, <1>4, <1>5, <1>6, GatewayKinds DEF LimiterKinds

\* In no stretch of time as long as the window the script counts twice the limit
\* for one origin, wherever in the fixed windows it begins.
THEOREM BurstsAreBounded == GatewaySpec => []BurstBounded
<1>1. LimiterInv => BurstBounded
  BY WindowType DEF LimiterInv, CounterInv, CounterTypeOK, WindowInv, Recent, BurstBounded
<1>2. GatewayInit => LimiterInv
  BY LimiterStart DEF GatewayInit
<1> QED  BY <1>1, <1>2, LimiterStep, PTL DEF GatewaySpec

\* An origin is refused only for requests of its own in the last window, each of
\* which the client's retries may have counted MaxRetries + 1 times, however the
\* retries of its connections and their other requests mix.
THEOREM RefusedForOwnRequests == GatewaySpec => []LimitedOnlyBySelf
<1>1. ASSUME LimiterInv, NEW o \in Origins, Exceeded(o)
      PROVE  RunsPerRequest * RecentRequests(o) >= Limit
  <2> USE WindowType
  <2> DEFINE last == WindowSeconds - 1
  <2>1. /\ last \in Ages /\ MaxRetries \in Nat
        /\ count[o] >= Limit /\ count[o] > 0 /\ count[o] \in Nat /\ ttl[o] > 0
    BY <1>1, RateLimiterAssumption
    DEF LimiterInv, CounterInv, CounterTypeOK, WindowInv, Exceeded
  <2>2. since[o][last] >= count[o] /\ since[o][last] \in Nat
    BY <1>1, <2>1 DEF LimiterInv, CounterInv, CounterTypeOK, WindowInv
  <2>3. asked[o][last] \in Nat
    BY <1>1, <2>1 DEF LimiterInv, CallInv, CallTypeOK
  <2>4. CASE "ambiguous" \notin RedisFaults
    <3>1. asked[o][last] = since[o][last]
      BY <1>1, <2>4 DEF LimiterInv, CallInv
    <3> QED  BY <2>1, <2>2, <2>3, <2>4, <3>1 DEF RunsPerRequest, RecentRequests
  <2>5. CASE "ambiguous" \in RedisFaults
    <3>1. Cardinality(Spare(o, last)) \in Nat
      BY SpareFinite
    <3>2. since[o][last] + Cardinality(Spare(o, last)) <= (MaxRetries + 1) * asked[o][last]
      BY <1>1, <2>1 DEF LimiterInv, CallInv
    <3>3. (MaxRetries + 1) * asked[o][last] \in Nat
      BY <2>1, <2>3
    <3>4. (MaxRetries + 1) * asked[o][last] >= Limit
      BY <2>1, <2>2, <3>1, <3>2, <3>3
    <3> QED  BY <2>5, <3>4 DEF RunsPerRequest, RecentRequests
  <2> QED  BY <2>4, <2>5
<1>2. LimiterInv => LimitedOnlyBySelf
  BY <1>1 DEF LimitedOnlyBySelf
<1>3. GatewayInit => LimiterInv
  BY LimiterStart DEF GatewayInit
<1> QED  BY <1>2, <1>3, LimiterStep, PTL DEF GatewaySpec

-----------------------------------------------------------------------------
(* Users and tokens. *)

AuthInv == AuthTypeOK /\ RegisteredForGood /\ TokensSpeakForUsers

\* Whoever is in the table stays there, with the same password and role.
UsersKept == \A e \in Emails : UserExists(e) => users'[e] = users[e]

\* What a registration writes.
LEMMA RegistrationType ==
    ASSUME NEW r \in Registrations
    PROVE  /\ r.email \in Emails /\ UserOf(r) \in [password : Passwords, role : Roles]
           /\ UserOf(r) # NoUser /\ UserOf(r).role \in Roles
<1>1. r \in [email : Emails, password : Passwords, role : RoleNames]
  BY AuthAssumption
<1>2. RoleOf(r) \in Roles /\ RoleOf(r) # ""
  BY <1>1 DEF RoleOf, Roles
<1> QED  BY <1>1, <1>2 DEF UserOf, NoUser

\* The INSERT adds a row and changes none.
LEMMA CreateUserKeeps ==
    ASSUME AuthTypeOK, NEW r \in Registrations, CreateUser(r)
    PROVE  /\ UsersKept
           /\ users' \in [Emails -> {NoUser} \cup [password : Passwords, role : Roles]]
           /\ users'[r.email] = UserOf(r)
BY RegistrationType DEF AuthTypeOK, CreateUser, UsersKept, UserExists

\* Users who stay keep what was promised to them true.
LEMMA UsersKeptFrame ==
    ASSUME AuthInv, UsersKept
    PROVE  /\ \A r \in registered : users'[r.email] = UserOf(r)
           /\ \A t \in tokens : users'[t.user] # NoUser /\ users'[t.user].role = t.role
<1>1. ASSUME NEW r \in registered PROVE users'[r.email] = UserOf(r)
  <2>1. r \in Registrations /\ users[r.email] = UserOf(r)
    BY <1>1 DEF AuthInv, AuthTypeOK, RegisteredForGood
  <2> QED  BY <2>1, RegistrationType DEF UsersKept, UserExists
<1>2. ASSUME NEW t \in tokens PROVE users'[t.user] # NoUser /\ users'[t.user].role = t.role
  <2>1. t.user \in Emails /\ UserExists(t.user) /\ users[t.user].role = t.role
    BY <1>2 DEF AuthInv, AuthTypeOK, TokensSpeakForUsers
  <2> QED  BY <2>1 DEF UsersKept, UserExists
<1> QED  BY <1>1, <1>2

\* Every step preserves AuthInv and keeps the users.
LEMMA AuthStep == AuthInv /\ [GatewayNext]_gatewayVars => AuthInv' /\ UsersKept
<1> SUFFICES ASSUME AuthInv, [GatewayNext]_gatewayVars PROVE AuthInv' /\ UsersKept
  OBVIOUS
<1> AuthTypeOK /\ RegisteredForGood /\ TokensSpeakForUsers
  BY DEF AuthInv
<1>1. ASSUME UNCHANGED authVars PROVE AuthInv' /\ UsersKept
  BY <1>1 DEF authVars, AuthInv, AuthTypeOK, RegisteredForGood, TokensSpeakForUsers, UsersKept,
     UserExists
<1>2. ASSUME NEW r \in Registrations, Register(r) PROVE AuthInv' /\ UsersKept
  <2>1. /\ UsersKept /\ users'[r.email] = UserOf(r)
        /\ users' \in [Emails -> {NoUser} \cup [password : Passwords, role : Roles]]
    BY <1>2, CreateUserKeeps DEF Register
  <2>2. /\ tokens' = tokens \cup {Claims(r.email, UserOf(r))}
        /\ registered' = registered \cup {r}
    BY <1>2 DEF Register
  <2>3. /\ Claims(r.email, UserOf(r)) \in [user : Emails, role : Roles]
        /\ Claims(r.email, UserOf(r)).user = r.email
        /\ Claims(r.email, UserOf(r)).role = UserOf(r).role
    BY RegistrationType DEF Claims
  <2>4. AuthTypeOK'
    BY <2>1, <2>2, <2>3 DEF AuthTypeOK
  <2>5. RegisteredForGood'
    BY <2>1, <2>2, UsersKeptFrame DEF RegisteredForGood
  <2>6. TokensSpeakForUsers'
    BY <2>1, <2>2, <2>3, UsersKeptFrame, RegistrationType DEF TokensSpeakForUsers, UserExists
  <2> QED  BY <2>1, <2>4, <2>5, <2>6 DEF AuthInv
<1>3. ASSUME NEW r \in Registrations, RegisterReplyLost(r) PROVE AuthInv' /\ UsersKept
  <2>1. /\ UsersKept
        /\ users' \in [Emails -> {NoUser} \cup [password : Passwords, role : Roles]]
    BY <1>3, CreateUserKeeps DEF RegisterReplyLost
  <2>2. tokens' = tokens /\ registered' = registered
    BY <1>3 DEF RegisterReplyLost
  <2> QED  BY <2>1, <2>2, UsersKeptFrame
           DEF AuthInv, AuthTypeOK, RegisteredForGood, TokensSpeakForUsers, UserExists
<1>4. ASSUME NEW e \in Emails, NEW p \in Passwords, Login(e, p) PROVE AuthInv' /\ UsersKept
  <2>1. users[e] # NoUser /\ users[e] \in [password : Passwords, role : Roles]
    BY <1>4 DEF Login, UserExists, AuthTypeOK
  <2>2. /\ Claims(e, users[e]) \in [user : Emails, role : Roles]
        /\ Claims(e, users[e]).user = e /\ Claims(e, users[e]).role = users[e].role
    BY <2>1 DEF Claims
  <2>3. /\ tokens' = tokens \cup {Claims(e, users[e])}
        /\ UNCHANGED << users, registered >>
    BY <1>4 DEF Login
  <2> QED  BY <2>1, <2>2, <2>3
           DEF AuthInv, AuthTypeOK, RegisteredForGood, TokensSpeakForUsers, UsersKept, UserExists
<1>5. ASSUME NEW t \in tokens, TokenExpires(t) PROVE AuthInv' /\ UsersKept
  BY <1>5 DEF TokenExpires, AuthInv, AuthTypeOK, RegisteredForGood, TokensSpeakForUsers, UsersKept,
     UserExists
<1>6. CASE UNCHANGED gatewayVars
  BY <1>1, <1>6 DEF gatewayVars
<1> QED  BY <1>1, <1>2, <1>3, <1>4, <1>5, <1>6, GatewayKinds DEF AuthKinds

\* Nobody is registered at first.
LEMMA AuthStart == AuthInit => AuthInv
BY DEF AuthInit, AuthInv, AuthTypeOK, RegisteredForGood, TokensSpeakForUsers

\* Whoever was answered with a 201 has the row that was asked for from then on:
\* a repeated or a competing registration of the same address changes nothing.
THEOREM RegistrationLasts == GatewaySpec => []RegisteredForGood
<1>1. AuthInv => RegisteredForGood
  BY DEF AuthInv
<1>2. GatewayInit => AuthInv
  BY AuthStart DEF GatewayInit
<1> QED  BY <1>1, <1>2, AuthStep, PTL DEF GatewaySpec

\* As long as it has not expired, a token says what the table users says.
THEOREM TokensAreTrue == GatewaySpec => []TokensSpeakForUsers
<1>1. AuthInv => TokensSpeakForUsers
  BY DEF AuthInv
<1>2. GatewayInit => AuthInv
  BY AuthStart DEF GatewayInit
<1> QED  BY <1>1, <1>2, AuthStep, PTL DEF GatewaySpec

-----------------------------------------------------------------------------
(* The handlers. *)

\* This access is one that the rules allow.
MayView(access) == Owner[access.wallet] = access.user \/ IsStaff(access.user)

\* What GetTransactions found out before its first statement is still true at
\* the second, whether or not the token has expired.
HandlerInv ==
    /\ HandlerTypeOK
    /\ \A c \in Connections : reading[c] # NotReading => MayView(reading[c])
    /\ ActedWithinRole

\* Nobody who is in the staff ever leaves it.
LEMMA StaffStays ==
    ASSUME UsersKept, NEW u \in Users, IsStaff(u)
    PROVE  IsStaff(u)'
<1>1. NoUser.role \notin Staff
  BY DEF Staff, NoUser
<1>2. users[u] # NoUser
  BY <1>1 DEF IsStaff
<1> QED  BY <1>2, GatewayAssumption DEF UsersKept, UserExists, IsStaff

\* So an access that was allowed stays allowed.
LEMMA MayViewStays ==
    ASSUME UsersKept, NEW access \in [user : Users, wallet : Wallets], MayView(access)
    PROVE  MayView(access)'
BY StaffStays DEF MayView

\* HandlerInv survives a step that adds only what is allowed.
LEMMA HandlerFrame ==
    ASSUME HandlerInv, UsersKept, HandlerTypeOK',
           \A c \in Connections : reading'[c] \in {NotReading, reading[c]} \/ MayView(reading'[c]),
           \A access \in shown' : access \in shown \/ MayView(access),
           \A access \in changedBy' : access \in changedBy \/ IsStaff(access.user)
    PROVE  HandlerInv'
<1> HandlerTypeOK
  BY DEF HandlerInv
<1>1. ASSUME NEW c \in Connections, reading'[c] # NotReading PROVE MayView(reading[c])'
  <2>1. PICK access \in [user : Users, wallet : Wallets] : access = reading'[c]
    BY <1>1 DEF HandlerTypeOK
  <2>2. MayView(access)
    BY <1>1, <2>1 DEF HandlerInv
  <2>3. MayView(access)'
    BY <2>2, MayViewStays
  <2> QED  BY <2>1, <2>3 DEF MayView, IsStaff
<1>2. ASSUME NEW access \in shown'
      PROVE  Owner[access.wallet] = access.user \/ IsStaff(access.user)'
  <2>1. access \in [user : Users, wallet : Wallets]
    BY <1>2 DEF HandlerTypeOK
  <2>2. MayView(access)
    BY <1>2 DEF HandlerInv, ActedWithinRole, MayView
  <2> QED  BY <2>1, <2>2, MayViewStays DEF MayView
<1>3. ASSUME NEW access \in changedBy' PROVE IsStaff(access.user)'
  <2>1. access.user \in Users
    BY <1>3 DEF HandlerTypeOK
  <2>2. IsStaff(access.user)
    BY <1>3 DEF HandlerInv, ActedWithinRole
  <2> QED  BY <2>1, <2>2, StaffStays
<1>4. ActedWithinRole'
  BY <1>2, <1>3 DEF ActedWithinRole
<1> QED  BY <1>1, <1>4 DEF HandlerInv

\* The claims of a token that was handed out are those of the user's row.
LEMMA TokenClaims ==
    ASSUME AuthInv, NEW t \in tokens
    PROVE  t.user \in Users /\ users[t.user].role = t.role
<1>1. t \in [user : Emails, role : Roles]
  BY DEF AuthInv, AuthTypeOK
<1> QED  BY <1>1, GatewayAssumption DEF AuthInv, TokensSpeakForUsers

\* The handlers behind AuthMiddleware preserve HandlerInv.
LEMMA AuthenticatedHandlers ==
    ASSUME HandlerInv, AuthInv, UsersKept, NEW c \in Connections, NEW t \in tokens,
           Authenticated(c, t)
    PROVE  HandlerInv'
<1> HandlerTypeOK
  BY DEF HandlerInv
<1>0. t.user \in Users /\ users[t.user].role = t.role
  BY TokenClaims
<1>1. ASSUME NEW w \in Wallets
      PROVE  /\ Access(t.user, w) \in [user : Users, wallet : Wallets]
             /\ Access(t.user, w).user = t.user /\ Access(t.user, w).wallet = w
  BY <1>0, <1>1 DEF Access
<1>2. ASSUME NEW w \in Wallets, CanView(t, w) PROVE MayView(Access(t.user, w))
  BY <1>0, <1>1, <1>2 DEF CanView, MayView, IsStaff
<1>3. ASSUME HandleGetWallets(c, t) PROVE HandlerInv'
  <2>1. \A w \in GetWalletsByOwner(t.user) : w \in Wallets /\ MayView(Access(t.user, w))
    BY <1>1 DEF GetWalletsByOwner, MayView
  <2>2. /\ shown' = shown \cup {Access(t.user, w) : w \in GetWalletsByOwner(t.user)}
        /\ UNCHANGED << reading, changedBy >>
    BY <1>3 DEF HandleGetWallets
  <2>3. HandlerTypeOK'
    BY <1>1, <2>1, <2>2 DEF HandlerTypeOK
  <2> QED  BY <2>1, <2>2, <2>3, HandlerFrame
<1>4. ASSUME NEW w \in Wallets, HandleCreateWallet(c, t, w) PROVE HandlerInv'
  <2>1. UNCHANGED handlerState
    BY <1>4 DEF HandleCreateWallet
  <2>2. HandlerTypeOK'
    BY <2>1 DEF handlerState, HandlerTypeOK
  <2> QED  BY <2>1, <2>2, HandlerFrame DEF handlerState
<1>5. ASSUME NEW w \in Wallets, HandleGetWallet(c, t, w) PROVE HandlerInv'
  <2>1. /\ shown' = shown \cup {Access(t.user, w)} /\ UNCHANGED << reading, changedBy >>
        /\ MayView(Access(t.user, w))
    BY <1>2, <1>5 DEF HandleGetWallet
  <2>2. HandlerTypeOK'
    BY <1>1, <2>1 DEF HandlerTypeOK
  <2> QED  BY <2>1, <2>2, HandlerFrame
<1>6. ASSUME NEW w \in Wallets, HandleGetTransactions(c, t, w) PROVE HandlerInv'
  <2>1. /\ reading' = [reading EXCEPT ![c] = Access(t.user, w)] /\ UNCHANGED << shown, changedBy >>
        /\ MayView(Access(t.user, w))
    BY <1>2, <1>6 DEF HandleGetTransactions
  <2>2. HandlerTypeOK'
    BY <1>1, <2>1 DEF HandlerTypeOK
  <2>3. \A d \in Connections : reading'[d] = reading[d] \/ MayView(reading'[d])
    BY <2>1 DEF HandlerTypeOK
  <2> QED  BY <2>1, <2>2, <2>3, HandlerFrame
<1>7. ASSUME NEW w \in Wallets, NEW newStatus \in {"FROZEN", "ACTIVE"},
             HandleSetStatus(c, t, w, newStatus)
      PROVE  HandlerInv'
  <2>1. /\ changedBy' = changedBy \cup {Access(t.user, w)} /\ UNCHANGED << reading, shown >>
        /\ IsStaff(t.user)
    BY <1>0, <1>7 DEF HandleSetStatus, RequireRole, IsStaff
  <2>2. HandlerTypeOK'
    BY <1>1, <2>1 DEF HandlerTypeOK
  <2> QED  BY <1>1, <2>1, <2>2, HandlerFrame
<1> QED  BY <1>3, <1>4, <1>5, <1>6, <1>7 DEF Authenticated

\* Every step preserves HandlerInv.
LEMMA HandlerStep == HandlerInv /\ AuthInv /\ [GatewayNext]_gatewayVars => HandlerInv'
<1> SUFFICES ASSUME HandlerInv, AuthInv, [GatewayNext]_gatewayVars PROVE HandlerInv'
  OBVIOUS
<1> HandlerTypeOK /\ UsersKept
  BY AuthStep DEF HandlerInv
<1>1. ASSUME UNCHANGED handlerState PROVE HandlerInv'
  <2>1. HandlerTypeOK'
    BY <1>1 DEF handlerState, HandlerTypeOK
  <2> QED  BY <1>1, <2>1, HandlerFrame DEF handlerState
<1>2. ASSUME NEW c \in Connections, GetTransactions(c) PROVE HandlerInv'
  <2>1. /\ reading[c] # NotReading /\ shown' = shown \cup {reading[c]}
        /\ reading' = [reading EXCEPT ![c] = NotReading] /\ UNCHANGED changedBy
    BY <1>2 DEF GetTransactions
  <2>2. reading[c] \in [user : Users, wallet : Wallets] /\ MayView(reading[c])
    BY <2>1 DEF HandlerTypeOK, HandlerInv
  <2>3. HandlerTypeOK'
    BY <2>1, <2>2 DEF HandlerTypeOK
  <2>4. \A d \in Connections : reading'[d] \in {NotReading, reading[d]}
    BY <2>1 DEF HandlerTypeOK
  <2> QED  BY <2>1, <2>2, <2>3, <2>4, HandlerFrame
<1>3. CASE UNCHANGED gatewayVars
  BY <1>1, <1>3 DEF gatewayVars
<1> QED
  BY <1>1, <1>2, <1>3, AuthenticatedHandlers
  DEF GatewayNext, HandleRequest, RetryLimiter, WithoutEffect, RateLimited, HandleRegister,
      HandleLogin, TimePasses

\* Nothing has been shown at first.
LEMMA HandlerStart == GatewayInit => HandlerInv
BY DEF GatewayInit, HandlerInv, HandlerTypeOK, ActedWithinRole

\* A wallet is shown only to its owner and to the staff, and frozen and unfrozen
\* only by the staff, by the table users: the claims of a token, the middleware
\* and the two statements of GetTransactions leave no gap.
THEOREM RolesAreKept == GatewaySpec => []ActedWithinRole
<1>1. HandlerInv => ActedWithinRole
  BY DEF HandlerInv
<1>2. GatewayInit => AuthInv
  BY AuthStart DEF GatewayInit
<1> QED  BY <1>1, <1>2, AuthStep, HandlerStart, HandlerStep, PTL DEF GatewaySpec

-----------------------------------------------------------------------------
(* Types. *)

\* The handlers of wallets keep the types of the tables.
LEMMA GatewayDbStep == DbTypeOK /\ [GatewayNext]_gatewayVars => DbTypeOK'
<1> SUFFICES ASSUME DbTypeOK, [GatewayNext]_gatewayVars PROVE DbTypeOK'
  OBVIOUS
<1>1. ASSUME UNCHANGED dbVars PROVE DbTypeOK'
  BY <1>1 DEF dbVars, DbTypeOK
<1>2. ASSUME NEW c \in Connections, NEW t \in tokens, Authenticated(c, t) PROVE DbTypeOK'
  <2>1. ASSUME NEW w \in Wallets, NEW newStatus \in {"FROZEN", "ACTIVE"},
               HandleSetStatus(c, t, w, newStatus)
        PROVE  WalletStep(w)
    BY <2>1 DEF HandleSetStatus, WalletStep
  <2>2. ASSUME NEW w \in Wallets, HandleCreateWallet(c, t, w) PROVE WalletStep(w)
    BY <2>2 DEF HandleCreateWallet, WalletStep
  <2> QED  BY <1>1, <1>2, <2>1, <2>2, WalletStepDbType
           DEF Authenticated, HandleGetWallets, HandleGetWallet, HandleGetTransactions
<1>3. CASE UNCHANGED gatewayVars
  BY <1>1, <1>3 DEF gatewayVars
<1> QED
  BY <1>1, <1>2, <1>3
  DEF GatewayNext, HandleRequest, RetryLimiter, WithoutEffect, RateLimited, HandleRegister,
      HandleLogin, GetTransactions, TimePasses

\* Every variable of the gateway keeps its type: a counter never exceeds the
\* limit, and its key never outlives the window.
THEOREM GatewayTypeCorrect == GatewaySpec => []GatewayTypeOK
<1>1. DbTypeOK /\ LimiterInv /\ AuthInv /\ HandlerInv => GatewayTypeOK
  BY GatewayTypeParts DEF LimiterInv, CounterInv, CallInv, AuthInv, HandlerInv
<1>2. GatewayInit => DbTypeOK /\ LimiterInv /\ AuthInv
  BY DbInitType, LimiterStart, AuthStart DEF GatewayInit
<1> QED
  BY <1>1, <1>2, HandlerStart, GatewayDbStep, LimiterStep, AuthStep, HandlerStep, PTL
  DEF GatewaySpec
=============================================================================
