------------------------------ MODULE Browser ------------------------------
(***************************************************************************)
(* Auth with one of the user's browsers: its refresh cookie, which the     *)
(* controller sets, reads and clears, and the answers that reach it or do  *)
(* not.  Requests of other browsers, programs and link followers run       *)
(* beside it, as in Auth, but for restarts of the process.                 *)
(***************************************************************************)
EXTENDS Auth

\* All but cookie are histories, which no program keeps.
VARIABLES
    cookie,         \* the refresh token the browser sends; 0: none of this account
    mine,           \* the requests that the browser waits for
    given,          \* the refresh tokens issued on its requests
    revoked,        \* the refresh tokens that password resets have deleted
    ended,          \* the sessions it was told are logged out
    oneTab,         \* it has never sent a request while it waited for another
    calm            \* no call has failed and no answer was lost yet

history == <<revoked, ended, calm>>
bvars == <<vars, cookie, mine, given, oneTab, history>>

Calm == INSTANCE Auth WITH Faults <- {}, Crashes <- FALSE

\* The browser logs in, or sends its cookie.
Ask(r) ==
    /\ \/ BeginLogin(r) \/ BeginGoogle(r)
       \/ (BeginRefresh(r) \/ BeginLogout(r)) /\ mem'[r].token = cookie
    /\ mine' = mine \cup {r}
    /\ oneTab' = (oneTab /\ mine = {})
    /\ UNCHANGED <<cookie, given, history>>

\* Only this browser has the tokens it was given: the cookie is httpOnly.
OthersAsk(r) ==
    /\ Request(r)
    /\ mem'[r].token \notin given
    /\ UNCHANGED <<cookie, mine, given, oneTab, history>>

\* Mutant: a refresh answers with the access token only.
Answered_NoCookie(r) ==
    CASE At(r, "issue") /\ lastToken' # lastToken /\ mem[r].token = 0 -> lastToken'
      [] At(r, "revoke") -> 0
      [] OTHER -> cookie

\* The cookie once the answer to the last call of request r is there: login,
\* refresh and the callback from Google set it, logout clears it whether or not
\* it has revoked anything, an error leaves it.
Answered(r) ==
    CASE At(r, "issue") /\ lastToken' # lastToken -> lastToken'
      [] At(r, "revoke") -> 0
      [] OTHER -> cookie

\* A step of a request.  When it was the last of one of the browser's, the
\* answer arrives, or is an error or lost.  What no property asks for any more
\* is forgotten.
Serve(r) ==
    LET last == r \in mine /\ At(r, "idle")' IN
    /\ Step(r)
    /\ \/ /\ cookie' = IF last THEN Answered(r) ELSE cookie
          /\ calm' = (calm /\ Calm!Step(r))
       \/ last /\ calm' = FALSE /\ UNCHANGED cookie
    /\ mine' = IF last THEN mine \ {r} ELSE mine
    /\ given' = IF r \in mine /\ lastToken' # lastToken THEN given \cup {lastToken'} ELSE given
    /\ revoked' = CASE ~calm' -> {}
                   [] calm' /\ At(r, "delete_keys") -> revoked \cup mem[r].jtis
                   [] OTHER -> revoked
    /\ ended' = CASE ~(calm' /\ oneTab) -> {}
                 [] calm' /\ oneTab /\ last /\ At(r, "revoke") ->
                        ended \cup {origin[mem[r].token].session}
                 [] OTHER -> ended
    /\ UNCHANGED oneTab

\* The cookie may outlive its token: the one lives seven days, the other as long
\* as JWT_REFRESH_EXPIRES_IN says.
Expire ==
    /\ ExpireLink \/ ExpireToken
    /\ UNCHANGED <<cookie, mine, given, oneTab, history>>

\* Or the token may outlive it.  The maxAge passes, the user clears it, logs out
\* with a token that has expired, or logs in to another account.
Forget ==
    /\ cookie # 0
    /\ cookie' = 0
    /\ UNCHANGED <<vars, mine, given, oneTab, history>>

BInit ==
    /\ Init
    /\ cookie = 0 /\ mine = {} /\ given = {}
    /\ revoked = {} /\ ended = {}
    /\ oneTab = TRUE /\ calm = TRUE

BNext ==
    \/ \E r \in Requests : Ask(r) \/ OthersAsk(r) \/ Serve(r)
    \/ Expire \/ Forget

BSpec == BInit /\ [][BNext]_bvars

----------------------------------------------------------------------------
(* Properties *)

\* A browser that has lost no answer can refresh: its cookie, unless its token
\* has expired, is that of a live session, or the password was reset since.
\* Rotation never leaves it with a token that is already used up, though two
\* tabs refresh, log in and log out at the same time (AuthController.refresh,
\* TokenService).
CookieIsLive ==
    calm /\ mine = {} /\ cookie \in valid =>
        cookie \in live \cup revoked

\* A session that its only tab has logged out is over: none of its tokens is
\* accepted any more, neither that of the login nor one issued by a refresh
\* (AuthService.logout revokes the token of the cookie and no other).
LogoutEndsSession ==
    calm /\ oneTab => \A j \in live : origin[j].session \notin ended

=============================================================================
