-------------------------------- MODULE Auth --------------------------------
(***************************************************************************)
(* internal/auth: registration and login over the table users, and the     *)
(* tokens they hand out.  A user is named by the e-mail address, which is  *)
(* unique.  A password stands for every string that bcrypt matches with    *)
(* its hash; a token for its claims, which the signature protects.         *)
(***************************************************************************)
CONSTANTS
    Emails,
    Passwords,
    RoleNames,      \* what a request may say its role is, "" if nothing
    Registrations,  \* the bodies of requests to register
    AuthFaults      \* "ambiguous" if the answer of the INSERT may be lost

ASSUME AuthAssumption ==
    /\ Registrations \subseteq [email : Emails, password : Passwords, role : RoleNames]
    /\ AuthFaults \subseteq {"ambiguous"}

VARIABLES
    users,      \* table users: password hash and role, or NoUser
    tokens,     \* the tokens handed out that have not expired
    registered  \* history: the registrations that were answered with a 201

authVars == << users, tokens, registered >>

NoUser == [password |-> "", role |-> ""]

\* What the column role may hold.  The code names six roles, and stores whatever
\* the request says.
Roles == (RoleNames \ {""}) \cup {"USER"}

AuthInit ==
    /\ users = [e \in Emails |-> NoUser]
    /\ tokens = {}
    /\ registered = {}

\* Mutant: no role by default.
RoleOfUnset(r) == r.role

\* A registration without a role is one for the role USER.
RoleOf(r) == IF r.role = "" THEN "USER" ELSE r.role

UserOf(r) == [password |-> r.password, role |-> RoleOf(r)]

\* GetUserByEmail finds a row.
UserExists(e) == users[e] # NoUser

\* The claims of GenerateToken.
Claims(e, user) == [user |-> e, role |-> user.role]

-----------------------------------------------------------------------------
\* Mutant: INSERT ... ON CONFLICT (email) DO UPDATE.
CreateUserUpsert(r) == users' = [users EXCEPT ![r.email] = UserOf(r)]

\* The INSERT, which the unique index on the e-mail address guards.
CreateUser(r) ==
    /\ ~UserExists(r.email)
    /\ users' = [users EXCEPT ![r.email] = UserOf(r)]

\* Mutant: the token is made from the request, whether the INSERT added a row
\* or not.
RegisterAnyway(r) ==
    /\ IF UserExists(r.email) THEN UNCHANGED users ELSE CreateUser(r)
    /\ tokens' = tokens \cup {Claims(r.email, UserOf(r))}
    /\ UNCHANGED registered

\* A 201 with a token for the new user.  For a user who exists the answer is a
\* 409, and nothing changes.
Register(r) ==
    /\ CreateUser(r)
    /\ tokens' = tokens \cup {Claims(r.email, UserOf(r))}
    /\ registered' = registered \cup {r}

\* The row is inserted and the answer is a 500, without a token.
RegisterReplyLost(r) ==
    /\ "ambiguous" \in AuthFaults
    /\ CreateUser(r)
    /\ UNCHANGED << tokens, registered >>

\* The token's claims come from the row.  A user who is not there and a wrong
\* password are a 401.
Login(e, password) ==
    /\ UserExists(e)
    /\ users[e].password = password
    /\ tokens' = tokens \cup {Claims(e, users[e])}
    /\ UNCHANGED << users, registered >>

\* Its 24 hours are over: ValidateToken refuses the token.
TokenExpires(t) ==
    /\ t \in tokens
    /\ tokens' = tokens \ {t}
    /\ UNCHANGED << users, registered >>

-----------------------------------------------------------------------------
(* Properties. *)

(* Who was told that the registration succeeded can log in with that password
   and has that role from then on, although others register the same address at
   the same time, or again because an answer was lost. *)
RegisteredForGood == \A r \in registered : users[r.email] = UserOf(r)

(* A token speaks for a user that exists, and with the role of the user's row,
   so the handlers may rely on its claims without reading the table. *)
TokensSpeakForUsers ==
    \A t \in tokens : UserExists(t.user) /\ users[t.user].role = t.role
=============================================================================
