------------------------------ MODULE Gateway ------------------------------
(***************************************************************************)
(* The way of a request through the API process: the router and middleware *)
(* of internal/server and internal/middleware, with the limiter, then the  *)
(* token, then the handlers of internal/auth and internal/wallets over     *)
(* Database.  Transfers and payments have modules of their own.            *)
(*                                                                         *)
(* One step is one request up to its first database statement: what comes  *)
(* before it, Redis and the token, no other request can tell apart from it.*)
(* Only HandleGetTransactions has a second statement.                      *)
(***************************************************************************)
EXTENDS Database, RateLimiter, Auth

ASSUME GatewayAssumption == Emails = Users

VARIABLES
    reading,    \* GetTransactions between its statements, for each connection
    shown,      \* history: who was shown which wallet
    changedBy   \* history: whose requests have changed a wallet's status

handlerState == << reading, shown, changedBy >>
gatewayVars == << dbVars, limiterVars, authVars, handlerState >>

\* User u has to do with wallet w.
Access(u, w) == [user |-> u, wallet |-> w]
NotReading == Access("", 0)

Staff == {"SYSTEM", "ADMIN"}

\* Every variable holds a value of the shape the code gives it.
GatewayTypeOK ==
    /\ DbTypeOK
    /\ count \in [Origins -> 0 .. Limit]
    /\ ttl \in [Origins -> 0 .. WindowSeconds]
    /\ tries \in [Connections -> 0 .. MaxRetries]
    /\ since \in [Origins -> [Ages -> Nat]]
    /\ asked \in [Origins -> [Ages -> Nat]]
    /\ lastRun \in [Connections -> 0 .. Uncounted]
    /\ users \in [Emails -> {NoUser} \cup [password : Passwords, role : Roles]]
    /\ tokens \subseteq [user : Emails, role : Roles]
    /\ registered \subseteq Registrations
    /\ reading \in [Connections -> {NotReading} \cup [user : Users, wallet : Wallets]]
    /\ shown \subseteq [user : Users, wallet : Wallets]
    /\ changedBy \subseteq [user : Users, wallet : Wallets]

GatewayInit ==
    /\ DbInit
    /\ LimiterInit
    /\ AuthInit
    /\ reading = [c \in Connections |-> NotReading]
    /\ shown = {}
    /\ changedBy = {}

-----------------------------------------------------------------------------
RetryLimiter(c) ==
    /\ Retry(c)
    /\ UNCHANGED << dbVars, authVars, handlerState >>

\* /health and /metrics; and every request that is refused behind the limiter:
\* a body that does not decode, a 401, 403, 404, 409 or 500, the last also if
\* the context has ended.
WithoutEffect(c) ==
    /\ Passes(c) \/ Canceled(c)
    /\ UNCHANGED << dbVars, authVars, handlerState >>

RateLimited(c) ==
    /\ TooManyRequests(c)
    /\ UNCHANGED << dbVars, authVars, handlerState >>

HandleRegister(c, r) ==
    /\ Passes(c)
    /\ Register(r) \/ RegisterReplyLost(r)
    /\ UNCHANGED << dbVars, handlerState >>

HandleLogin(c, e, password) ==
    /\ Passes(c)
    /\ Login(e, password)
    /\ UNCHANGED << dbVars, handlerState >>

-----------------------------------------------------------------------------
(* Handlers behind AuthMiddleware, for the claims t of a valid token. *)

\* The new wallet is the caller's, whose row the foreign key refers to.
HandleCreateWallet(c, t, w) ==
    /\ Passes(c)
    /\ Owner[w] = t.user
    /\ UserExists(t.user)
    /\ CreateWallet(w)
    /\ UNCHANGED << authVars, handlerState >>

\* GetWallet of the service: the row, for its owner or for the staff.
CanView(t, w) ==
    /\ status[w] # "ABSENT"
    /\ Owner[w] = t.user \/ t.role \in Staff

\* HandleGetWallet and HandleGetBalance.
HandleGetWallet(c, t, w) ==
    /\ Passes(c)
    /\ CanView(t, w)
    /\ shown' = shown \cup {Access(t.user, w)}
    /\ UNCHANGED << dbVars, authVars, reading, changedBy >>

GetWalletsByOwner(u) == {w \in Wallets : status[w] # "ABSENT" /\ Owner[w] = u}

HandleGetWallets(c, t) ==
    /\ Passes(c)
    /\ shown' = shown \cup {Access(t.user, w) : w \in GetWalletsByOwner(t.user)}
    /\ UNCHANGED << dbVars, authVars, reading, changedBy >>

\* The first statement reads the wallet and the second its account's entries.
HandleGetTransactions(c, t, w) ==
    /\ Passes(c)
    /\ CanView(t, w)
    /\ reading' = [reading EXCEPT ![c] = Access(t.user, w)]
    /\ UNCHANGED << dbVars, authVars, shown, changedBy >>

GetTransactions(c) ==
    /\ reading[c] # NotReading
    /\ shown' = shown \cup {reading[c]}
    /\ reading' = [reading EXCEPT ![c] = NotReading]
    /\ UNCHANGED << dbVars, limiterVars, authVars, changedBy >>

\* Mutant: the route is registered outside the group of administrative routes.
RequireRoleNot(t) == TRUE

RequireRole(t) == t.role \in Staff

\* HandleFreezeWallet and HandleUnfreezeWallet.
HandleSetStatus(c, t, w, newStatus) ==
    /\ Passes(c)
    /\ RequireRole(t)
    /\ UpdateWalletStatus(w, newStatus)
    /\ changedBy' = changedBy \cup {Access(t.user, w)}
    /\ UNCHANGED << authVars, reading, shown >>

-----------------------------------------------------------------------------
TimePasses ==
    /\ Tick
    /\ UNCHANGED << dbVars, authVars, handlerState >>

Authenticated(c, t) ==
    \/ HandleGetWallets(c, t)
    \/ \E w \in Wallets :
          \/ HandleCreateWallet(c, t, w)
          \/ HandleGetWallet(c, t, w)
          \/ HandleGetTransactions(c, t, w)
          \/ \E s \in {"FROZEN", "ACTIVE"} : HandleSetStatus(c, t, w, s)

\* A connection takes on a request, or goes on with the one in the limiter.
HandleRequest(c) ==
    /\ reading[c] = NotReading
    /\ \/ RetryLimiter(c)
       \/ WithoutEffect(c)
       \/ RateLimited(c)
       \/ \E r \in Registrations : HandleRegister(c, r)
       \/ \E e \in Emails, p \in Passwords : HandleLogin(c, e, p)
       \/ \E t \in tokens : Authenticated(c, t)

GatewayNext ==
    \/ \E c \in Connections : HandleRequest(c) \/ GetTransactions(c)
    \/ \E t \in tokens : TokenExpires(t) /\ UNCHANGED << dbVars, limiterVars, handlerState >>
    \/ TimePasses

GatewaySpec == GatewayInit /\ [][GatewayNext]_gatewayVars

\* Time passes.
GatewayFairSpec == GatewaySpec /\ WF_gatewayVars(TimePasses)

-----------------------------------------------------------------------------
(* Properties. *)

\* By the table users, not by what a token claims.
IsStaff(u) == users[u].role \in Staff

(* A wallet is shown to its owner and to the staff only, and only the staff
   freezes and unfreezes: from registration over login and token to the second
   statement of a handler whose token may have expired meanwhile.  The staff are
   those who have registered as such, which anybody may. *)
ActedWithinRole ==
    /\ \A access \in shown : Owner[access.wallet] = access.user \/ IsStaff(access.user)
    /\ \A access \in changedBy : IsStaff(access.user)
=============================================================================
