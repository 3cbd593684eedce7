------------------------------- MODULE Auth -------------------------------
(***************************************************************************)
(* One account, its e-mailed links and its refresh sessions, under the     *)
(* endpoints of the auth module.  As in Resumes, a handler is a sequence   *)
(* of steps, one per call it awaits (MongoDB, Redis).                      *)
(*                                                                         *)
(* An account is one document of users.  Where the unique index on email   *)
(* exists, there is one for an address.  In production nothing creates it, *)
(* and two requests that both found the address free make two, each with   *)
(* links and sessions of its own: the module is about each of them, and    *)
(* its requests are those whose lookup by address finds that one.          *)
(***************************************************************************)
EXTENDS Naturals, FiniteSets

CONSTANTS
    Requests,       \* request slots: how many requests can be in flight
    MaxLinks,       \* bound: how many links are ever created
    MaxTokens,      \* bound: how many refresh tokens are ever issued
    MaxIds,         \* bound: how many of both together
    None,           \* no user, no link
    Faults,         \* the services whose calls may fail
    Crashes,        \* the process may die and be restarted
    Ops             \* the endpoints clients call

VARIABLES
    user,           \* the document of the account in collection users
    links,          \* collection auth_tokens, by id
    lastLink,       \* ids up to this one have been given to a link
    mailed,         \* the links whose raw token was sent to the user
    live,           \* the jtis that have a key refresh:<jti> in Redis
    index,          \* the set user_refresh:<user> in Redis
    valid,          \* the jtis whose JWT has been issued and has not expired
    lastToken,      \* jtis up to this one have been given to a token
    origin,         \* where each token comes from: not kept by the code
    cleared,        \* the password in force when a revocation was last carried
                    \* out to its end: not kept by the code
    pc,             \* the next step of each request
    mem             \* the local variables of each request

mongo == <<user, links, lastLink, mailed>>
redis == <<live, index, valid, lastToken, origin, cleared>>
vars == <<mongo, redis, pc, mem>>

----------------------------------------------------------------------------
(* The data *)

Links == 1..MaxLinks
Tokens == 1..MaxTokens

\* Passwords are numbered in the order in which they are stored; 0 is an
\* account without one, which was created through Google.
User == [password : Nat, verified : BOOLEAN, google : BOOLEAN]

LinkType == {"email_verify", "password_reset"}
Link == [type : LinkType, used : BOOLEAN, expired : BOOLEAN]

ASSUME ConstantsAssumption ==
    /\ MaxLinks \in Nat \ {0} /\ MaxTokens \in Nat \ {0}
    /\ None \notin User \cup Link

\* The password in force when the session began, and its first token.
Origin == [since : Nat, session : Tokens \cup {0}]
NoOrigin == [since |-> 0, session |-> 0]

Labels == {"idle", "create_user", "clear_links", "create_link", "send_mail",
           "mark_used", "verify_user", "set_password", "read_index",
           "delete_keys", "delete_index", "find_session", "rotate",
           "find_user", "revoke", "find_by_email", "link_google",
           "create_google", "issue"}

\* type and link: the link the handler works on; token: the refresh token the
\* request brings; origin: that of the session; jtis: the members read from
\* the index.
Mem == [type : LinkType, link : Links \cup {0}, token : Tokens \cup {0},
        origin : Origin, jtis : SUBSET Tokens]
NoMem == [type |-> "email_verify", link |-> 0, token |-> 0,
          origin |-> NoOrigin, jtis |-> {}]

At(r, label) == pc[r] = label

Goto(r, label, m) ==
    /\ pc' = [pc EXCEPT ![r] = label]
    /\ mem' = [mem EXCEPT ![r] = IF label = "idle" THEN NoMem ELSE m]

Finish(r) == Goto(r, "idle", NoMem)

Begin(r, op) == At(r, "idle") /\ op \in Ops

\* The bounds: a request that will need a link, or a token, has one left.
LinksTaken ==
    lastLink + Cardinality({q \in Requests :
        pc[q] \in {"create_user", "clear_links", "create_link"}})
TokensTaken ==
    lastToken + Cardinality({q \in Requests :
        pc[q] \in {"find_session", "rotate", "find_user", "find_by_email",
                   "link_google", "create_google", "issue"}})
LinkLeft == LinksTaken < MaxLinks /\ LinksTaken + TokensTaken < MaxIds
TokenLeft == TokensTaken < MaxTokens /\ LinksTaken + TokensTaken < MaxIds

\* A call to Redis at which request r is: it is carried out and the request
\* goes on, or it fails, before or after it was carried out.
Outcome(r, label, m, effect) ==
    \/ effect /\ Goto(r, label, m)
    \/ "redis" \in Faults /\ Finish(r) /\ UNCHANGED redis
    \/ "redis_late" \in Faults /\ effect /\ Finish(r)

----------------------------------------------------------------------------
(* Links: sendVerificationEmail, sendPasswordResetEmail, consumeToken      *)

\* A registered address is turned down.
BeginRegister(r) ==
    /\ Begin(r, "register")
    /\ \/ user = None /\ LinkLeft /\ Goto(r, "create_user", NoMem)
       \/ user # None /\ UNCHANGED <<pc, mem>>
    /\ UNCHANGED <<mongo, redis>>

\* When the address has been registered while the password was hashed, create
\* fails on the unique index, or without it makes another account; for this
\* one the request is over in both cases.
CreateUser(r) ==
    /\ At(r, "create_user")
    /\ \/ /\ user = None
          /\ user' = [password |-> 1, verified |-> FALSE, google |-> FALSE]
          /\ Goto(r, "clear_links", mem[r])
       \/ user # None /\ Finish(r) /\ UNCHANGED user
    /\ UNCHANGED <<links, lastLink, mailed, redis>>

BeginResend(r) ==
    /\ Begin(r, "resend") /\ LinkLeft
    /\ user # None /\ ~user.verified
    /\ Goto(r, "clear_links", NoMem)
    /\ UNCHANGED <<mongo, redis>>

BeginForgot(r) ==
    /\ Begin(r, "forgot") /\ LinkLeft
    /\ user # None /\ user.password # 0
    /\ Goto(r, "clear_links", [NoMem EXCEPT !.type = "password_reset"])
    /\ UNCHANGED <<mongo, redis>>

\* Mutant: only links that have expired are cleared.
Cleared_Expired(link, type) ==
    link # None /\ link.type = type /\ ~link.used /\ link.expired

Cleared(link, type) == link # None /\ link.type = type /\ ~link.used

ClearLinks(r) ==
    /\ At(r, "clear_links")
    /\ links' = [l \in Links |->
                    IF Cleared(links[l], mem[r].type) THEN None ELSE links[l]]
    /\ Goto(r, "create_link", mem[r])
    /\ UNCHANGED <<user, lastLink, mailed, redis>>

CreateLink(r) ==
    /\ At(r, "create_link")
    /\ lastLink < MaxLinks
    /\ lastLink' = lastLink + 1
    /\ links' = [links EXCEPT ![lastLink'] =
                    [type |-> mem[r].type, used |-> FALSE, expired |-> FALSE]]
    /\ Goto(r, "send_mail", [mem[r] EXCEPT !.link = lastLink'])
    /\ UNCHANGED <<user, mailed, redis>>

\* Resend reports an error in its answer, which nobody reads.
SendMail(r) ==
    /\ At(r, "send_mail")
    /\ \/ mailed' = mailed \cup {mem[r].link}
       \/ "mail" \in Faults /\ UNCHANGED mailed
    /\ Finish(r)
    /\ UNCHANGED <<user, links, lastLink, redis>>

Usable(l, type) ==
    links[l] # None /\ links[l].type = type /\ ~links[l].used /\ ~links[l].expired

\* The user follows a link, or a program fetches it for him.
BeginConsume(r) ==
    /\ Begin(r, "consume")
    /\ \E l \in mailed, type \in LinkType :
          /\ Usable(l, type)
          /\ Goto(r, "mark_used", [NoMem EXCEPT !.type = type, !.link = l])
    /\ UNCHANGED <<mongo, redis>>

\* save() fails when the document is gone.
MarkUsed(r) ==
    LET l == mem[r].link IN
    /\ At(r, "mark_used")
    /\ \/ /\ links[l] # None
          /\ links' = [links EXCEPT ![l].used = TRUE]
          /\ Goto(r, IF mem[r].type = "email_verify" THEN "verify_user"
                     ELSE "set_password", mem[r])
       \/ links[l] = None /\ Finish(r) /\ UNCHANGED links
    /\ UNCHANGED <<user, lastLink, mailed, redis>>

VerifyUser(r) ==
    /\ At(r, "verify_user")
    /\ user' = [user EXCEPT !.verified = TRUE]
    /\ Finish(r)
    /\ UNCHANGED <<links, lastLink, mailed, redis>>

\* The date of a link passes; later MongoDB removes it (expires: 0).
ExpireLink ==
    /\ \E l \in Links :
          /\ links[l] # None
          /\ links' = [links EXCEPT ![l] =
                          IF links[l].expired THEN None
                          ELSE [links[l] EXCEPT !.expired = TRUE]]
    /\ UNCHANGED <<user, lastLink, mailed, redis, pc, mem>>

----------------------------------------------------------------------------
(* resetPassword: the new hash, then revokeAllUserSessions                 *)

SetPassword(r) ==
    /\ At(r, "set_password")
    /\ user' = [user EXCEPT !.password = @ + 1]
    /\ Goto(r, "read_index", mem[r])
    /\ UNCHANGED <<links, lastLink, mailed, redis>>

\* smembers; no del when there is no key to delete.
ReadIndex(r) ==
    /\ At(r, "read_index")
    /\ Outcome(r, IF index = {} THEN "delete_index" ELSE "delete_keys",
               [mem[r] EXCEPT !.jtis = index], UNCHANGED redis)
    /\ UNCHANGED mongo

\* Mutant: the jtis are deleted without their key prefix.
DeleteKeys_NoPrefix(r) ==
    /\ At(r, "delete_keys")
    /\ Outcome(r, "delete_index", mem[r], UNCHANGED redis)
    /\ UNCHANGED mongo

DeleteKeys(r) ==
    /\ At(r, "delete_keys")
    /\ Outcome(r, "delete_index", mem[r],
               /\ live' = live \ mem[r].jtis
               /\ UNCHANGED <<index, valid, lastToken, origin, cleared>>)
    /\ UNCHANGED mongo

DeleteIndex(r) ==
    /\ At(r, "delete_index")
    /\ Outcome(r, "idle", NoMem,
               /\ index' = {}
               /\ cleared' = user.password
               /\ UNCHANGED <<live, valid, lastToken, origin>>)
    /\ UNCHANGED mongo

----------------------------------------------------------------------------
(* Sessions: login, refresh, logout, and the callback from Google          *)

\* Mutant: login does not ask whether the address is verified.
CanLogin_Unverified(u) == u # None /\ u.password # 0

CanLogin(u) == u # None /\ u.password # 0 /\ u.verified

\* A login with the right password: findOne and compare.
BeginLogin(r) ==
    /\ Begin(r, "login") /\ TokenLeft
    /\ CanLogin(user)
    /\ Goto(r, "issue", [NoMem EXCEPT !.origin.since = user.password])
    /\ UNCHANGED <<mongo, redis>>

\* Mutant: the token is not added to the index.
Issued_NotIndexed(j, o) ==
    /\ lastToken' = j
    /\ live' = live \cup {j}
    /\ valid' = valid \cup {j}
    /\ origin' = [origin EXCEPT ![j] = o]
    /\ UNCHANGED <<index, cleared>>

\* createRefreshToken, a transaction in Redis.
Issued(j, o) ==
    /\ lastToken' = j
    /\ live' = live \cup {j}
    /\ index' = index \cup {j}
    /\ valid' = valid \cup {j}
    /\ origin' = [origin EXCEPT ![j] = o]
    /\ UNCHANGED cleared

Issue(r) ==
    LET j == lastToken + 1
        o == mem[r].origin
        first == IF o.session = 0 THEN j ELSE o.session
    IN
    /\ At(r, "issue")
    /\ lastToken < MaxTokens
    /\ Outcome(r, "idle", NoMem, Issued(j, [o EXCEPT !.session = first]))
    /\ UNCHANGED mongo

BeginRefresh(r) ==
    /\ Begin(r, "refresh") /\ TokenLeft
    /\ \E j \in valid :
          Goto(r, "find_session", [NoMem EXCEPT !.token = j, !.origin = origin[j]])
    /\ UNCHANGED <<mongo, redis>>

FindSession(r) ==
    /\ At(r, "find_session")
    /\ \/ mem[r].token \in live /\ Goto(r, "rotate", mem[r])
       \/ mem[r].token \notin live /\ Finish(r)
       \/ {"redis", "redis_late"} \cap Faults # {} /\ Finish(r)
    /\ UNCHANGED <<mongo, redis>>

\* revokeRefreshTokenByJti, a transaction in Redis.
Revoked(j) ==
    /\ live' = live \ {j}
    /\ index' = index \ {j}
    /\ UNCHANGED <<valid, lastToken, origin, cleared>>

\* Mutant: the old token keeps its key until it expires.
Rotate_KeepsOld(r) ==
    /\ At(r, "rotate")
    /\ Goto(r, "find_user", mem[r])
    /\ UNCHANGED <<mongo, redis>>

Rotate(r) ==
    /\ At(r, "rotate")
    /\ Outcome(r, "find_user", mem[r], Revoked(mem[r].token))
    /\ UNCHANGED mongo

\* Users are never deleted.
FindUser(r) ==
    /\ At(r, "find_user")
    /\ Goto(r, "issue", mem[r])
    /\ UNCHANGED <<mongo, redis>>

\* A token whose JWT has expired is ignored.
BeginLogout(r) ==
    /\ Begin(r, "logout")
    /\ \E j \in valid : Goto(r, "revoke", [NoMem EXCEPT !.token = j])
    /\ UNCHANGED <<mongo, redis>>

\* An error is swallowed, and the logout answered as successful.
Revoke(r) ==
    /\ At(r, "revoke")
    /\ Outcome(r, "idle", NoMem, Revoked(mem[r].token))
    /\ UNCHANGED mongo

\* findOne({ googleId }), and then findOne({ email }).
BeginGoogle(r) ==
    /\ Begin(r, "google") /\ TokenLeft
    /\ IF user # None /\ user.google
       THEN Goto(r, "issue", [NoMem EXCEPT !.origin.since = user.password])
       ELSE Goto(r, "find_by_email", NoMem)
    /\ UNCHANGED <<mongo, redis>>

FindByEmail(r) ==
    /\ At(r, "find_by_email")
    /\ IF user = None THEN Goto(r, "create_google", NoMem)
       ELSE Goto(r, "link_google", [NoMem EXCEPT !.origin.since = user.password])
    /\ UNCHANGED <<mongo, redis>>

\* Mutant: the document is written as it was loaded.
Linked_Whole(u, loaded) ==
    [password |-> loaded, verified |-> TRUE, google |-> TRUE]

\* linkGoogleAccount: save() writes the assigned paths only.  The strategy
\* accepts no address that Google has not verified.
Linked(u, loaded) == [u EXCEPT !.verified = TRUE, !.google = TRUE]

LinkGoogle(r) ==
    /\ At(r, "link_google")
    /\ user' = Linked(user, mem[r].origin.since)
    /\ Goto(r, "issue", mem[r])
    /\ UNCHANGED <<links, lastLink, mailed, redis>>

\* As in CreateUser, when the address has been taken meanwhile.
CreateGoogle(r) ==
    /\ At(r, "create_google")
    /\ \/ /\ user = None
          /\ user' = [password |-> 0, verified |-> TRUE, google |-> TRUE]
          /\ Goto(r, "issue", mem[r])
       \/ user # None /\ Finish(r) /\ UNCHANGED user
    /\ UNCHANGED <<links, lastLink, mailed, redis>>

\* Mutant: the key is stored without a time to live.
ExpireToken_KeepsKey ==
    /\ \E j \in valid :
          /\ \A i \in valid : j <= i
          /\ valid' = valid \ {j}
    /\ index' = IF valid' = {} THEN {} ELSE index
    /\ UNCHANGED <<live, lastToken, origin, cleared, mongo, pc, mem>>

\* A refresh token and its key expire together, the oldest first; the jti stays
\* in the index, whose own time starts anew with each token.
ExpireToken ==
    /\ \E j \in valid :
          /\ \A i \in valid : j <= i
          /\ valid' = valid \ {j}
          /\ live' = live \ {j}
    /\ index' = IF valid' = {} THEN {} ELSE index
    /\ UNCHANGED <<lastToken, origin, cleared, mongo, pc, mem>>

----------------------------------------------------------------------------
(* Failures *)

MongoLabels == {"create_user", "clear_links", "create_link", "mark_used",
                "verify_user", "set_password", "find_user", "find_by_email",
                "link_google", "create_google"}

\* A MongoDB call fails: the request ends with a 500.
MongoError(r) ==
    /\ "mongo" \in Faults
    /\ pc[r] \in MongoLabels
    /\ Finish(r)
    /\ UNCHANGED <<mongo, redis>>

Crash ==
    /\ Crashes
    /\ \E r \in Requests : pc[r] # "idle"
    /\ pc' = [r \in Requests |-> "idle"]
    /\ mem' = [r \in Requests |-> NoMem]
    /\ UNCHANGED <<mongo, redis>>

----------------------------------------------------------------------------

Init ==
    /\ user = None
    /\ links = [l \in Links |-> None]
    /\ lastLink = 0
    /\ mailed = {}
    /\ live = {} /\ index = {} /\ valid = {}
    /\ lastToken = 0
    /\ origin = [j \in Tokens |-> NoOrigin]
    /\ cleared = 0
    /\ pc = [r \in Requests |-> "idle"]
    /\ mem = [r \in Requests |-> NoMem]

Request(r) ==
    \/ BeginRegister(r) \/ BeginResend(r) \/ BeginForgot(r) \/ BeginConsume(r)
    \/ BeginLogin(r) \/ BeginRefresh(r) \/ BeginLogout(r) \/ BeginGoogle(r)

Step(r) ==
    \/ CreateUser(r) \/ ClearLinks(r) \/ CreateLink(r) \/ SendMail(r)
    \/ MarkUsed(r) \/ VerifyUser(r) \/ SetPassword(r)
    \/ ReadIndex(r) \/ DeleteKeys(r) \/ DeleteIndex(r)
    \/ Issue(r) \/ FindSession(r) \/ Rotate(r) \/ FindUser(r) \/ Revoke(r)
    \/ FindByEmail(r) \/ LinkGoogle(r) \/ CreateGoogle(r)
    \/ MongoError(r)

Next ==
    \/ \E r \in Requests : Request(r) \/ Step(r)
    \/ ExpireLink \/ ExpireToken \/ Crash

Spec == Init /\ [][Next]_vars

----------------------------------------------------------------------------
(* Properties *)

\* Every variable has its type, and a key in Redis outlives no token.
TypeOK ==
    /\ user \in User \cup {None}
    /\ links \in [Links -> Link \cup {None}]
    /\ lastLink \in 0..MaxLinks
    /\ mailed \subseteq Links
    /\ live \subseteq valid /\ index \subseteq Tokens /\ valid \subseteq Tokens
    /\ lastToken \in 0..MaxTokens
    /\ origin \in [Tokens -> Origin]
    /\ cleared \in Nat
    /\ pc \in [Requests -> Labels]
    /\ mem \in [Requests -> Mem]

\* Every refresh token that is accepted is in the index of its user, so that
\* revokeAllUserSessions finds it, whatever call fails and wherever the
\* process is killed.
IndexCoversLive == live \subseteq index

\* Of the links of a type sent to a user, at most the last one works.
OneUsableLink ==
    \A type \in LinkType : Cardinality({l \in Links : Usable(l, type)}) <= 1

\* A session has one refresh token at a time: refreshing replaces it.
OneTokenPerSession ==
    \A i, j \in live : origin[i].session = origin[j].session => i = j

\* Once a password reset has revoked the sessions of the account, none that
\* began with an earlier password is accepted, then or later.
ResetRevokesAll == \A j \in live : origin[j].since >= cleared

\* A session exists only for an account whose address is verified.
SessionsNeedVerifiedAccount == live # {} => user # None /\ user.verified

\* The writers of a user (verification, reset, the link to Google) do not undo
\* each other's work, though one of them saves a document it loaded earlier.
AccountKeepsItsData ==
    [][user # None =>
          /\ user' # None
          /\ user.verified => user'.verified
          /\ user.google => user'.google
          /\ user'.password >= user.password]_vars

=============================================================================
