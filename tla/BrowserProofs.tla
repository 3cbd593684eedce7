--------------------------- MODULE BrowserProofs ---------------------------
(***************************************************************************)
(* Theorems about Browser: for any number of requests, the browser's own   *)
(* and those of others, of sessions and of refreshes.                      *)
(***************************************************************************)
EXTENDS Browser, AuthProofs

----------------------------------------------------------------------------
(* The invariants *)

MineLabels == {"find_session", "rotate", "find_user", "issue", "revoke",
               "find_by_email", "link_google", "create_google"}
WithToken == {"find_session", "rotate", "find_user", "revoke"}
WithoutToken == {"find_by_email", "link_google", "create_google"}

\* What a request of the browser holds is a token that it was given, and the
\* session of that token.
MineInv(label, m) ==
    /\ label \in MineLabels
    /\ m.token \in given \cup {0}
    /\ label \in WithToken => m.token # 0
    /\ label \in WithoutToken => m.token = 0
    /\ m.token = 0 \/ label = "revoke" => m.origin.session = 0
    /\ m.token # 0 /\ label # "revoke" => m.origin.session = origin[m.token].session

\* What the requests of others hold is not.
OthersInv(m) ==
    /\ m.token \notin given
    /\ m.token \in Given \cup {0}
    /\ m.origin.session \in Given \cup {0}
    /\ \A i \in given : origin[i].session # m.origin.session

\* The tokens of a session of the browser were all given to it.
GivenInv ==
    /\ given \subseteq Given /\ live \subseteq valid /\ valid \subseteq Given
    /\ cookie \in given \cup {0}
    /\ \A j \in Given : origin[j].session \in Given
    /\ \A i \in given, j \in Given : origin[i].session = origin[j].session => j \in given
    /\ \A r \in Requests : IF r \in mine THEN MineInv(pc[r], mem[r]) ELSE OthersInv(mem[r])
    /\ mine \subseteq Requests
    /\ ended \subseteq {origin[i].session : i \in given}

\* When nothing has failed, a cookie that is used up is about to be replaced.
CookieInv ==
    calm /\ cookie \in valid \ (live \cup revoked) =>
        \E r \in mine : pc[r] \in {"find_user", "issue"} /\ mem[r].token = cookie

\* No other token of the session of j is accepted.
OnlyLive(j) == \A i \in live : origin[i].session = origin[j].session => i = j

Over(s) == \A i \in live : origin[i].session # s

\* The only request of the only tab has the only token of its session, or will
\* get it; it is about no session that is logged out.
TabRequestInv(label, m) ==
    /\ label \in {"find_session", "rotate", "revoke"} => OnlyLive(m.token)
    /\ label \in {"find_user", "issue"} => Over(m.origin.session)
    /\ label # "revoke" => m.origin.session \notin ended

TabInv ==
    calm /\ oneTab =>
        /\ \A r, q \in mine : r = q
        /\ \A r \in mine : TabRequestInv(pc[r], mem[r])
        /\ cookie # 0 => OnlyLive(cookie) /\ origin[cookie].session \notin ended
        /\ \A s \in ended : Over(s)

BrowserInv == AuthInv /\ GivenInv /\ CookieInv /\ TabInv

----------------------------------------------------------------------------
(* What the steps of Auth do to the tokens *)

TokensKept == UNCHANGED <<live, valid, lastToken, origin>>

\* createRefreshToken for a request with locals m.
TokenIssued(m) ==
    /\ lastToken < MaxTokens
    /\ lastToken' = lastToken + 1
    /\ live' = live \cup {lastToken'} /\ valid' = valid \cup {lastToken'}
    /\ \A j \in Given : origin'[j] = origin[j]
    /\ origin'[lastToken'].session =
          IF m.origin.session = 0 THEN lastToken' ELSE m.origin.session

TokensLost == live' \subseteq live /\ UNCHANGED <<valid, lastToken, origin>>

\* The locals that Browser is about stay, or there are none.
LocalsKept(r) ==
    \/ mem'[r].token = mem[r].token /\ mem'[r].origin.session = mem[r].origin.session
    \/ mem'[r].token = 0 /\ mem'[r].origin.session = 0

\* Where a request goes on.
After(label) ==
    CASE label = "find_session"  -> {"rotate", "idle"}
      [] label = "rotate"        -> {"find_user", "idle"}
      [] label = "find_user"     -> {"issue", "idle"}
      [] label = "find_by_email" -> {"link_google", "create_google", "idle"}
      [] label = "link_google"   -> {"issue", "idle"}
      [] label = "create_google" -> {"issue", "idle"}
      [] OTHER                   -> {"idle"}

\* A step of r.
StepEffect(r) ==
    /\ OthersStay(r)
    /\ LocalsKept(r)
    /\ pc[r] \in MineLabels => pc'[r] \in After(pc[r])
    /\ pc[r] \in WithToken /\ pc'[r] # "idle" => mem'[r] = mem[r]
    /\ pc'[r] = "idle" => mem'[r] = NoMem
    /\ pc[r] # "idle"
    /\ \/ TokensLost
       \/ pc[r] = "issue" /\ pc'[r] = "idle" /\ TokenIssued(mem[r])

\* A step from which r goes on at a label with locals m, or ends, and in which
\* no token is issued.
LEMMA GoesOn ==
    ASSUME AuthInv, NEW r \in Requests, NEW label \in Labels, NEW m \in Mem,
           Goto(r, label, m) \/ Finish(r),
           \/ m.token = mem[r].token /\ m.origin.session = mem[r].origin.session
           \/ m.token = 0 /\ m.origin.session = 0,
           pc[r] \in MineLabels => label \in After(pc[r]),
           pc[r] \in WithToken => m = mem[r],
           pc[r] # "idle", TokensLost
    PROVE  StepEffect(r)
<1>1. NoMem.token = 0 /\ NoMem.origin.session = 0
  BY DEF NoMem, NoOrigin
<1>2. /\ OthersStay(r)
      /\ \/ pc'[r] = label /\ mem'[r] = IF label = "idle" THEN NoMem ELSE m
         \/ pc'[r] = "idle" /\ mem'[r] = NoMem
  BY GotoType, FinishType DEF AuthInv, OthersStay
<1>3. pc[r] \in MineLabels => "idle" \in After(pc[r])
  BY DEF After
<1>4. LocalsKept(r)
  BY <1>1, <1>2 DEF LocalsKept
<1>5. QED
  BY <1>2, <1>3, <1>4 DEF StepEffect

LEMMA LinkEffects ==
    ASSUME AuthInv, NEW r \in Requests,
           \/ CreateUser(r) \/ ClearLinks(r) \/ CreateLink(r) \/ SendMail(r)
           \/ MarkUsed(r) \/ VerifyUser(r) \/ SetPassword(r)
    PROVE  StepEffect(r)
<1>0. TypeOK /\ mem[r] \in Mem
  BY MemType DEF AuthInv
<1>1. TokensLost
  BY DEF TokensLost, CreateUser, ClearLinks, CreateLink, SendMail, MarkUsed, VerifyUser,
     SetPassword, redis
<1>2. pc[r] \notin MineLabels /\ pc[r] \notin WithToken /\ pc[r] # "idle"
  BY DEF CreateUser, ClearLinks, CreateLink, SendMail, MarkUsed, VerifyUser, SetPassword, At,
     MineLabels, WithToken
<1>3. CASE CreateLink(r)
  <2>1. lastLink + 1 \in Links
    BY <1>0, <1>3, ConstantsAssumption DEF CreateLink, TypeOK, Links
  <2> DEFINE m == [mem[r] EXCEPT !.link = lastLink + 1]
  <2>2. m \in Mem /\ m.token = mem[r].token /\ m.origin = mem[r].origin
    BY <1>0, <2>1, MemType DEF Mem
  <2>3. Goto(r, "send_mail", m)
    BY <1>3 DEF CreateLink
  <2>4. "send_mail" \in Labels
    BY DEF Labels
  <2> HIDE DEF m
  <2>5. QED
    BY <1>1, <1>2, <2>2, <2>3, <2>4, GoesOn
<1>4. CASE ~CreateLink(r)
  <2>1. PICK label \in Labels : Goto(r, label, mem[r]) \/ Finish(r)
    BY <1>4 DEF CreateUser, ClearLinks, SendMail, MarkUsed, VerifyUser, SetPassword, Labels
  <2>2. QED
    BY <1>0, <1>1, <1>2, <2>1, GoesOn
<1>5. QED
  BY <1>3, <1>4

LEMMA RevocationEffects ==
    ASSUME AuthInv, NEW r \in Requests, ReadIndex(r) \/ DeleteKeys(r) \/ DeleteIndex(r)
    PROVE  StepEffect(r)
<1>0. TypeOK /\ mem[r] \in Mem /\ index \subseteq Tokens
  BY MemType DEF AuthInv, TypeOK
<1>1. TokensLost
  BY DEF TokensLost, ReadIndex, DeleteKeys, DeleteIndex, Outcome, redis
<1>2. pc[r] \notin MineLabels /\ pc[r] \notin WithToken /\ pc[r] # "idle"
  BY DEF ReadIndex, DeleteKeys, DeleteIndex, At, MineLabels, WithToken
<1> DEFINE m == [mem[r] EXCEPT !.jtis = index]
<1>3. m \in Mem /\ m.token = mem[r].token /\ m.origin = mem[r].origin
  BY <1>0, MemType DEF Mem
<1>4. {"delete_keys", "delete_index", "idle"} \subseteq Labels
  BY DEF Labels
<1>5. CASE ReadIndex(r)
  <2>1. Goto(r, "delete_index", m) \/ Goto(r, "delete_keys", m) \/ Finish(r)
    BY <1>5 DEF ReadIndex, Outcome
  <2> HIDE DEF m
  <2>2. QED
    BY <1>1, <1>2, <1>3, <1>4, <2>1, GoesOn
<1>6. CASE DeleteKeys(r) \/ DeleteIndex(r)
  <2>1. Goto(r, "delete_index", mem[r]) \/ Finish(r)
    BY <1>6 DEF DeleteKeys, DeleteIndex, Outcome, Finish
  <2>2. QED
    BY <1>0, <1>1, <1>2, <1>4, <2>1, GoesOn
<1>7. QED
  BY <1>5, <1>6

LEMMA SessionEffects ==
    ASSUME AuthInv, NEW r \in Requests,
           \/ FindSession(r) \/ Rotate(r) \/ FindUser(r) \/ Revoke(r)
           \/ LinkGoogle(r) \/ CreateGoogle(r) \/ MongoError(r)
    PROVE  StepEffect(r)
<1>0. TypeOK /\ mem[r] \in Mem
  BY MemType DEF AuthInv
<1>1. TokensLost
  BY DEF TokensLost, FindSession, Rotate, FindUser, Revoke, LinkGoogle, CreateGoogle, MongoError,
     Outcome, Revoked, redis
<1>2. pc[r] # "idle"
  BY DEF FindSession, Rotate, FindUser, Revoke, LinkGoogle, CreateGoogle, MongoError, At,
     MongoLabels
<1>3. Goto(r, "idle", mem[r]) \/ Finish(r) => StepEffect(r)
  BY <1>0, <1>1, <1>2, GoesOn DEF Labels, After
<1>4. \A label \in {"rotate", "find_user", "issue"} :
          pc[r] \in MineLabels /\ label \in After(pc[r]) /\ Goto(r, label, mem[r]) => StepEffect(r)
  BY <1>0, <1>1, <1>2, GoesOn DEF Labels
<1>5. CASE FindSession(r)
  BY <1>3, <1>4, <1>5 DEF FindSession, At, MineLabels, After
<1>6. CASE Rotate(r)
  BY <1>3, <1>4, <1>6 DEF Rotate, Outcome, At, MineLabels, After
<1>7. CASE FindUser(r)
  BY <1>3, <1>4, <1>7 DEF FindUser, At, MineLabels, After
<1>8. CASE Revoke(r)
  BY <1>3, <1>8 DEF Revoke, Outcome, Finish
<1>9. CASE LinkGoogle(r) \/ CreateGoogle(r)
  BY <1>3, <1>4, <1>9 DEF LinkGoogle, CreateGoogle, At, MineLabels, After
<1>10. CASE MongoError(r)
  BY <1>3, <1>10 DEF MongoError
<1>11. QED
  BY <1>5, <1>6, <1>7, <1>8, <1>9, <1>10

LEMMA FindByEmailEffect ==
    ASSUME AuthInv, NEW r \in Requests, FindByEmail(r)
    PROVE  StepEffect(r)
<1>0. TypeOK /\ NoMem \in Mem /\ NoMem.token = 0 /\ NoMem.origin.session = 0
  BY FreshTypes DEF AuthInv, NoMem, NoOrigin
<1>1. TokensLost /\ pc[r] = "find_by_email"
  BY DEF TokensLost, FindByEmail, redis, At
<1>2. CASE user = None
  <2>1. Goto(r, "create_google", NoMem)
    BY <1>2 DEF FindByEmail
  <2>2. QED
    BY <1>0, <1>1, <2>1, GoesOn DEF Labels, After, WithToken
<1>3. CASE user # None
  <2> DEFINE m == [NoMem EXCEPT !.origin.since = user.password]
  <2>1. m \in Mem /\ m.token = 0 /\ m.origin.session = 0
    <3>1. user.password \in Nat
      BY <1>0, <1>3 DEF TypeOK, User
    <3>2. QED
      BY <3>1, NewMemType DEF NoMem, NoOrigin
  <2>2. Goto(r, "link_google", m)
    BY <1>3 DEF FindByEmail
  <2> HIDE DEF m
  <2>3. QED
    BY <1>1, <2>1, <2>2, GoesOn DEF Labels, After, WithToken
<1>4. QED
  BY <1>2, <1>3

LEMMA IssueEffect ==
    ASSUME AuthInv, NEW r \in Requests, Issue(r)
    PROVE  StepEffect(r)
<1>0. TypeOK /\ lastToken \in Nat /\ lastToken < MaxTokens /\ lastToken + 1 \in Tokens
  BY ConstantsAssumption DEF AuthInv, TypeOK, Issue, Tokens
<1>1. pc[r] = "issue" /\ pc'[r] = "idle" /\ mem'[r] = NoMem /\ OthersStay(r)
  <2>1. Finish(r)
    BY DEF Issue, Outcome, Finish
  <2>2. QED
    BY <1>0, <2>1, FinishType DEF Issue, At, OthersStay
<1>2. TokensLost \/ TokenIssued(mem[r])
  <2>1. CASE UNCHANGED redis
    BY <2>1 DEF redis, TokensLost
  <2>2. CASE Issued(lastToken + 1, SessionOrigin(r))
    <3>1. origin' = [origin EXCEPT ![lastToken + 1] = SessionOrigin(r)]
      BY <2>2 DEF Issued
    <3>2. origin'[lastToken + 1] = SessionOrigin(r)
      BY <1>0, <3>1 DEF TypeOK
    <3>3. \A j \in Given : origin'[j] = origin[j]
      BY <1>0, <3>1 DEF TypeOK, Given, Tokens
    <3>4. QED
      BY <1>0, <2>2, <3>2, <3>3, SessionOriginType DEF TokenIssued, Issued
  <2>3. QED
    BY <2>1, <2>2 DEF Issue, Outcome, SessionOrigin
<1>3. QED
  BY <1>1, <1>2 DEF StepEffect, LocalsKept, After, NoMem, NoOrigin, WithToken

LEMMA StepEffects ==
    ASSUME AuthInv, NEW r \in Requests, Step(r)
    PROVE  StepEffect(r)
BY LinkEffects, RevocationEffects, SessionEffects, FindByEmailEffect, IssueEffect DEF Step

----------------------------------------------------------------------------
(* What a request begins with *)

NoToken(m) == m.token = 0 /\ m.origin.session = 0

BeginEffect(r) ==
    /\ pc[r] = "idle" /\ OthersStay(r) /\ TokensKept
    /\ \/ mem'[r] = mem[r]
       \/ NoToken(mem'[r])
       \/ /\ mem'[r].token \in valid
          /\ mem'[r].origin.session \in {0, origin[mem'[r].token].session}

LEMMA BeginsWith ==
    ASSUME AuthInv, NEW r \in Requests, NEW label \in Labels \ {"idle"}, NEW m \in Mem,
           Goto(r, label, m)
    PROVE  pc'[r] = label /\ mem'[r] = m /\ OthersStay(r)
BY GotoType DEF AuthInv, OthersStay

\* The requests about links.
LEMMA LinkBegins ==
    ASSUME AuthInv, NEW r \in Requests,
           BeginRegister(r) \/ BeginResend(r) \/ BeginForgot(r) \/ BeginConsume(r)
    PROVE  BeginEffect(r)
<1>0. TypeOK /\ NoMem \in Mem /\ NoToken(NoMem)
  BY FreshTypes DEF AuthInv, NoMem, NoOrigin, NoToken
<1>1. pc[r] = "idle" /\ TokensKept
  BY DEF BeginRegister, BeginResend, BeginForgot, BeginConsume, Begin, At, TokensKept, redis
<1>2. ASSUME NEW label \in Labels \ {"idle"}, NEW m \in Mem, NoToken(m), Goto(r, label, m)
      PROVE  BeginEffect(r)
  BY <1>1, <1>2, BeginsWith DEF BeginEffect
<1>3. {"create_user", "clear_links", "mark_used"} \subseteq Labels \ {"idle"}
  BY DEF Labels
<1>4. CASE BeginRegister(r)
  <2>1. CASE UNCHANGED <<pc, mem>>
    BY <1>1, <2>1 DEF BeginEffect, OthersStay
  <2>2. CASE Goto(r, "create_user", NoMem)
    BY <1>0, <1>2, <1>3, <2>2
  <2>3. QED
    BY <1>4, <2>1, <2>2 DEF BeginRegister
<1>5. CASE BeginResend(r)
  BY <1>0, <1>2, <1>3, <1>5 DEF BeginResend
<1>6. CASE BeginForgot(r)
  <2> DEFINE m == [NoMem EXCEPT !.type = "password_reset"]
  <2>1. m \in Mem /\ NoToken(m) /\ Goto(r, "clear_links", m)
    BY <1>6, NewMemType DEF BeginForgot, LinkType, NoToken, NoMem, NoOrigin
  <2> HIDE DEF m
  <2>2. QED
    BY <1>2, <1>3, <2>1
<1>7. CASE BeginConsume(r)
  <2>1. PICK l \in mailed, type \in LinkType :
            Goto(r, "mark_used", [NoMem EXCEPT !.type = type, !.link = l])
    BY <1>7 DEF BeginConsume
  <2> DEFINE m == [NoMem EXCEPT !.type = type, !.link = l]
  <2>2. m \in Mem /\ NoToken(m)
    BY <1>0, NewMemType DEF TypeOK, NoToken, NoMem, NoOrigin
  <2>3. Goto(r, "mark_used", m)
    BY <2>1
  <2> HIDE DEF m
  <2>4. QED
    BY <1>2, <1>3, <2>2, <2>3
<1>8. QED
  BY <1>4, <1>5, <1>6, <1>7

LEMMA LoginBegins ==
    ASSUME AuthInv, NEW r \in Requests, BeginLogin(r) \/ BeginGoogle(r)
    PROVE  BeginEffect(r) /\ pc'[r] \in {"issue", "find_by_email"} /\ NoToken(mem'[r])
<1>0. TypeOK /\ NoMem \in Mem /\ NoToken(NoMem)
  BY FreshTypes DEF AuthInv, NoMem, NoOrigin, NoToken
<1>1. pc[r] = "idle" /\ TokensKept
  BY DEF BeginLogin, BeginGoogle, Begin, At, TokensKept, redis
<1>2. PICK label \in {"issue", "find_by_email"}, m \in Mem : NoToken(m) /\ Goto(r, label, m)
  <2>1. CASE user # None
    <3> DEFINE m == [NoMem EXCEPT !.origin.since = user.password]
    <3>1. user.password \in Nat
      BY <1>0, <2>1 DEF TypeOK, User
    <3>2. m \in Mem /\ NoToken(m)
      BY <3>1, NewMemType DEF NoToken, NoMem, NoOrigin
    <3>3. Goto(r, "issue", m) \/ Goto(r, "find_by_email", NoMem)
      BY <2>1 DEF BeginLogin, BeginGoogle
    <3> HIDE DEF m
    <3>4. QED
      BY <1>0, <3>2, <3>3
  <2>2. CASE user = None
    BY <1>0, <2>2 DEF BeginLogin, BeginGoogle, CanLogin
  <2>3. QED
    BY <2>1, <2>2
<1>3. QED
  BY <1>1, <1>2, BeginsWith DEF BeginEffect, Labels

LEMMA TokenBegins ==
    ASSUME AuthInv, NEW r \in Requests, BeginRefresh(r) \/ BeginLogout(r)
    PROVE  /\ BeginEffect(r) /\ mem'[r].token \in valid
           /\ \/ pc'[r] = "find_session"
                 /\ mem'[r].origin.session = origin[mem'[r].token].session
              \/ pc'[r] = "revoke" /\ mem'[r].origin.session = 0
<1>0. TypeOK /\ valid \subseteq Tokens /\ NoMem.origin.session = 0
  BY DEF AuthInv, TypeOK, NoMem, NoOrigin
<1>1. pc[r] = "idle" /\ TokensKept
  BY DEF BeginRefresh, BeginLogout, Begin, At, TokensKept, redis
<1>2. CASE BeginRefresh(r)
  <2>1. PICK j \in valid :
            Goto(r, "find_session", [NoMem EXCEPT !.token = j, !.origin = origin[j]])
    BY <1>2 DEF BeginRefresh
  <2> DEFINE m == [NoMem EXCEPT !.token = j, !.origin = origin[j]]
  <2>2. m \in Mem /\ m.token = j /\ m.origin = origin[j]
    BY <1>0, NewMemType DEF TypeOK, NoMem
  <2>3. Goto(r, "find_session", m)
    BY <2>1
  <2> HIDE DEF m
  <2>4. pc'[r] = "find_session" /\ mem'[r] = m /\ OthersStay(r)
    BY <2>2, <2>3, BeginsWith DEF Labels
  <2>5. QED
    BY <1>1, <2>2, <2>4 DEF BeginEffect
<1>3. CASE BeginLogout(r)
  <2>1. PICK j \in valid : Goto(r, "revoke", [NoMem EXCEPT !.token = j])
    BY <1>3 DEF BeginLogout
  <2> DEFINE m == [NoMem EXCEPT !.token = j]
  <2>2. m \in Mem /\ m.token = j /\ m.origin.session = 0
    BY <1>0, NewMemType DEF NoMem, NoOrigin
  <2>3. Goto(r, "revoke", m)
    BY <2>1
  <2> HIDE DEF m
  <2>4. pc'[r] = "revoke" /\ mem'[r] = m /\ OthersStay(r)
    BY <2>2, <2>3, BeginsWith DEF Labels
  <2>5. QED
    BY <1>1, <2>2, <2>4 DEF BeginEffect
<1>4. QED
  BY <1>2, <1>3

LEMMA RequestBegins ==
    ASSUME AuthInv, NEW r \in Requests, Request(r)
    PROVE  BeginEffect(r)
BY LinkBegins, LoginBegins, TokenBegins DEF Request

----------------------------------------------------------------------------
(* BrowserInv is inductive *)

\* The browser's own tokens: what a step of a request leaves true when it
\* issues none.
LEMMA ServeLosesGiven ==
    ASSUME AuthInv, GivenInv, NEW r \in Requests, Serve(r), TokensLost
    PROVE  GivenInv'
<1>0. StepEffect(r) /\ lastToken \in Nat /\ Given' = Given
  BY StepEffects DEF Serve, AuthInv, TypeOK, TokensLost, Given
<1>1. /\ given' = given
      /\ mine' = IF r \in mine /\ pc'[r] = "idle" THEN mine \ {r} ELSE mine
      /\ cookie' \in {cookie, 0}
  BY DEF Serve, TokensLost, Answered, At
<1>2. ended' \subseteq {origin[i].session : i \in given}
  <2>1. ended' \subseteq ended
        \/ /\ r \in mine /\ pc[r] = "revoke"
           /\ ended' = ended \cup {origin[mem[r].token].session}
    BY DEF Serve, At
  <2>2. r \in mine /\ pc[r] = "revoke" => mem[r].token \in given
    BY DEF GivenInv, MineInv, WithToken
  <2>3. QED
    BY <2>1, <2>2 DEF GivenInv
<1>3. ASSUME NEW q \in Requests
      PROVE  IF q \in mine' THEN MineInv(pc[q], mem[q])' ELSE OthersInv(mem[q])'
  <2>0. IF q \in mine THEN MineInv(pc[q], mem[q]) ELSE OthersInv(mem[q])
    BY DEF GivenInv
  <2>1. CASE q # r
    BY <1>0, <1>1, <2>0, <2>1 DEF StepEffect, OthersStay, MineInv, OthersInv, TokensLost
  <2>2. CASE q = r /\ r \in mine'
    <3>1. MineInv(pc[r], mem[r]) /\ pc'[r] \in After(pc[r]) /\ pc'[r] # "idle" /\ LocalsKept(r)
      BY <1>0, <1>1, <2>0, <2>2 DEF StepEffect, MineInv
    <3>2. pc[r] \in WithToken => mem'[r] = mem[r]
      BY <1>0, <3>1 DEF StepEffect
    <3>3. 0 \notin given
      BY DEF GivenInv, Given
    <3>4. QED
      BY <1>1, <2>2, <3>1, <3>2, <3>3
         DEF MineInv, After, LocalsKept, MineLabels, WithToken, WithoutToken, TokensLost
  <2>3. CASE q = r /\ r \notin mine' /\ r \in mine
    <3>1. mem'[r] = NoMem
      BY <1>0, <1>1, <2>3 DEF StepEffect
    <3>2. NoMem.token = 0 /\ NoMem.origin.session = 0
      BY DEF NoMem, NoOrigin
    <3>3. 0 \notin Given /\ given \subseteq Given /\ \A i \in Given : origin[i].session \in Given
      <4>1. 0 \notin Given
        BY <1>0 DEF Given
      <4>2. QED
        BY <4>1 DEF GivenInv
    <3>4. OthersInv(NoMem)'
      BY <1>0, <1>1, <3>2, <3>3 DEF OthersInv, TokensLost
    <3>5. QED
      BY <2>3, <3>1, <3>4 DEF OthersInv
  <2>4. CASE q = r /\ r \notin mine' /\ r \notin mine
    <3>1. OthersInv(mem[r]) /\ LocalsKept(r)
      BY <1>0, <2>0, <2>4 DEF StepEffect
    <3>2. QED
      BY <1>0, <1>1, <2>4, <3>1 DEF OthersInv, LocalsKept, GivenInv, Given, TokensLost
  <2>5. QED
    BY <2>1, <2>2, <2>3, <2>4
<1>4. QED
  BY <1>0, <1>1, <1>2, <1>3 DEF GivenInv, TokensLost

\* The same for the step that issues one.
LEMMA ServeIssuesGiven ==
    ASSUME AuthInv, GivenInv, NEW r \in Requests, Serve(r),
           pc[r] = "issue", pc'[r] = "idle", mem'[r] = NoMem, TokenIssued(mem[r]), OthersStay(r)
    PROVE  GivenInv'
<1> DEFINE j == lastToken'
           s == mem[r].origin.session
<1>0. /\ lastToken \in Nat /\ j = lastToken + 1 /\ j \notin Given /\ Given' = Given \cup {j} /\ j # 0
      /\ 0 \notin Given
  BY DEF AuthInv, TypeOK, TokenIssued, Given
<1>1. /\ given' = IF r \in mine THEN given \cup {j} ELSE given
      /\ mine' = mine \ {r}
      /\ cookie' \in IF r \in mine THEN {cookie, j} ELSE {cookie}
      /\ ended' \subseteq ended
  BY <1>0 DEF Serve, Answered, At
<1>2. /\ \A i \in Given : origin'[i] = origin[i]
      /\ origin'[j].session = IF s = 0 THEN j ELSE s
      /\ live' = live \cup {j} /\ valid' = valid \cup {j}
  BY DEF TokenIssued
<1>3. /\ given \subseteq Given
      /\ \A i \in Given : origin[i].session \in Given
      /\ \A i \in given, k \in Given : origin[i].session = origin[k].session => k \in given
  BY DEF GivenInv
<1>4. IF r \in mine THEN s = 0 \/ \E i \in given : s = origin[i].session
      ELSE s \in Given \cup {0} /\ \A i \in given : s # origin[i].session
  BY DEF GivenInv, MineInv, OthersInv
<1> HIDE DEF j, s
<1>5. /\ \A i \in Given' : origin'[i].session \in Given'
      /\ \A i \in given', k \in Given' :
            origin'[i].session = origin'[k].session => k \in given'
  BY <1>0, <1>1, <1>2, <1>3, <1>4
<1>6. ASSUME NEW q \in Requests
      PROVE  IF q \in mine' THEN MineInv(pc[q], mem[q])' ELSE OthersInv(mem[q])'
  <2>0. IF q \in mine THEN MineInv(pc[q], mem[q]) ELSE OthersInv(mem[q])
    BY DEF GivenInv
  <2>1. CASE q # r /\ q \in mine
    <3>1. MineInv(pc[q], mem[q]) /\ q \in mine' /\ pc'[q] = pc[q] /\ mem'[q] = mem[q]
      BY <1>1, <2>0, <2>1 DEF OthersStay
    <3>2. QED
      BY <1>1, <1>2, <1>3, <3>1 DEF MineInv
  <2>2. CASE q # r /\ q \notin mine
    <3>1. OthersInv(mem[q]) /\ q \notin mine' /\ mem'[q] = mem[q]
      BY <1>1, <2>0, <2>2 DEF OthersStay
    <3>2. QED
      BY <1>0, <1>1, <1>2, <1>3, <1>4, <3>1 DEF OthersInv
  <2>3. CASE q = r
    <3>1. mem'[q].token = 0 /\ mem'[q].origin.session = 0 /\ q \notin mine'
      BY <1>1, <2>3 DEF NoMem, NoOrigin
    <3>2. \A i \in given' : origin'[i].session # 0
      BY <1>0, <1>1, <1>3, <1>5
    <3>3. QED
      BY <1>0, <1>1, <1>3, <3>1, <3>2 DEF OthersInv
  <2>4. QED
    BY <2>1, <2>2, <2>3
<1>7. ended' \subseteq {origin'[i].session : i \in given'}
  BY <1>1, <1>2, <1>3 DEF GivenInv
<1>8. QED
  BY <1>0, <1>1, <1>2, <1>3, <1>5, <1>6, <1>7 DEF GivenInv

LEMMA ServeKeepsGiven ==
    ASSUME AuthInv, GivenInv, NEW r \in Requests, Serve(r)
    PROVE  GivenInv'
<1>1. StepEffect(r)
  BY StepEffects DEF Serve
<1>2. QED
  BY <1>1, ServeLosesGiven, ServeIssuesGiven DEF StepEffect

\* What r asks for with a token that the browser has, or without one.
LEMMA AskEffect ==
    ASSUME AuthInv, GivenInv, NEW r \in Requests, Ask(r)
    PROVE  /\ pc[r] = "idle" /\ OthersStay(r) /\ TokensKept
           /\ \/ pc'[r] \in {"issue", "find_by_email"} /\ NoToken(mem'[r])
              \/ /\ mem'[r].token = cookie /\ cookie # 0
                 /\ \/ pc'[r] = "find_session" /\ mem'[r].origin.session = origin[cookie].session
                    \/ pc'[r] = "revoke" /\ mem'[r].origin.session = 0
<1>1. CASE BeginLogin(r) \/ BeginGoogle(r)
  BY <1>1, LoginBegins DEF BeginEffect
<1>2. CASE (BeginRefresh(r) \/ BeginLogout(r)) /\ mem'[r].token = cookie
  <2>1. 0 \notin valid
    BY DEF GivenInv, Given
  <2>2. QED
    BY <1>2, <2>1, TokenBegins DEF BeginEffect
<1>3. QED
  BY <1>1, <1>2 DEF Ask

LEMMA AskKeepsGiven ==
    ASSUME AuthInv, GivenInv, NEW r \in Requests, Ask(r)
    PROVE  GivenInv'
<1>0. /\ UNCHANGED <<cookie, given, live, valid, lastToken, origin, ended>>
      /\ Given' = Given /\ mine' = mine \cup {r} /\ OthersStay(r) /\ 0 \notin given
  BY AskEffect DEF Ask, TokensKept, history, Given, GivenInv
<1>1. MineInv(pc[r], mem[r])'
  BY <1>0, AskEffect
     DEF MineInv, MineLabels, WithToken, WithoutToken, NoToken, GivenInv
<1>2. ASSUME NEW q \in Requests \ {r}
      PROVE  IF q \in mine' THEN MineInv(pc[q], mem[q])' ELSE OthersInv(mem[q])'
  BY <1>0 DEF GivenInv, OthersStay, MineInv, OthersInv
<1>3. QED
  BY <1>0, <1>1, <1>2 DEF GivenInv

LEMMA OthersAskKeepsGiven ==
    ASSUME AuthInv, GivenInv, NEW r \in Requests, OthersAsk(r)
    PROVE  GivenInv'
<1>0. /\ UNCHANGED <<cookie, given, live, valid, lastToken, origin, ended, mine>>
      /\ Given' = Given /\ BeginEffect(r) /\ OthersStay(r) /\ 0 \notin Given
  BY RequestBegins DEF OthersAsk, BeginEffect, TokensKept, history, Given
<1>1. r \notin mine /\ OthersInv(mem[r])
  BY <1>0 DEF BeginEffect, GivenInv, MineInv, MineLabels
<1>2. OthersInv(mem[r])'
  <2>1. mem'[r].token \notin given
    BY DEF OthersAsk
  <2>2. mem'[r] = mem[r] \/ NoToken(mem'[r])
        \/ /\ mem'[r].token \in Given
           /\ mem'[r].origin.session \in {0, origin[mem'[r].token].session}
    BY <1>0 DEF BeginEffect, GivenInv
  <2>3. QED
    BY <1>0, <1>1, <2>1, <2>2 DEF OthersInv, NoToken, GivenInv
<1>3. ASSUME NEW q \in Requests \ {r}
      PROVE  IF q \in mine' THEN MineInv(pc[q], mem[q])' ELSE OthersInv(mem[q])'
  BY <1>0 DEF GivenInv, OthersStay, MineInv, OthersInv
<1>4. QED
  BY <1>0, <1>1, <1>2, <1>3 DEF GivenInv

LEMMA ExpireEffect ==
    ASSUME GivenInv, Expire
    PROVE  /\ UNCHANGED <<mine, given, oneTab, revoked, ended, calm, lastToken, origin, pc, mem>>
           /\ valid' \subseteq valid /\ live' = live \cap valid'
           /\ cookie' = cookie
<1>1. UNCHANGED <<mine, given, oneTab, revoked, ended, calm, lastToken, origin, pc, mem>>
  BY DEF Expire, ExpireLink, ExpireToken, redis, history
<1>2. valid' \subseteq valid /\ live' = live \cap valid'
  BY DEF Expire, ExpireLink, ExpireToken, redis, GivenInv
<1>3. QED
  BY <1>1, <1>2 DEF Expire

LEMMA ExpireKeepsGiven ==
    ASSUME GivenInv, Expire
    PROVE  GivenInv'
BY ExpireEffect DEF GivenInv, Given, MineInv, OthersInv

\* What a step of r does when no call fails.
CalmEffect(r) ==
    CASE pc[r] = "rotate"      -> live' = live \ {mem[r].token} /\ pc'[r] = "find_user"
      [] pc[r] = "find_user"   -> live' = live /\ pc'[r] = "issue"
      [] pc[r] = "issue"       -> lastToken' # lastToken /\ pc'[r] = "idle"
      [] pc[r] = "revoke"      -> live' = live \ {mem[r].token} /\ pc'[r] = "idle"
      [] pc[r] = "delete_keys" -> live' = live \ mem[r].jtis
      [] OTHER                 -> live' = live

LEMMA CalmEffects ==
    ASSUME AuthInv, NEW r \in Requests, Calm!Step(r)
    PROVE  CalmEffect(r)
<1>0. pc \in [Requests -> Labels] /\ lastToken \in Nat
  BY DEF AuthInv, TypeOK
<1>1. CASE Calm!Rotate(r)
  BY <1>0, <1>1 DEF CalmEffect, Calm!Rotate, Calm!At, Calm!Outcome, Calm!Revoked, Calm!Goto
<1>2. CASE Calm!FindUser(r)
  BY <1>0, <1>2 DEF CalmEffect, Calm!FindUser, Calm!At, Calm!Goto, Calm!redis
<1>3. CASE Calm!Issue(r)
  BY <1>0, <1>3 DEF CalmEffect, Calm!Issue, Calm!At, Calm!Outcome, Calm!Issued, Calm!Goto
<1>4. CASE Calm!Revoke(r)
  BY <1>0, <1>4 DEF CalmEffect, Calm!Revoke, Calm!At, Calm!Outcome, Calm!Revoked, Calm!Goto
<1>5. CASE Calm!DeleteKeys(r)
  BY <1>0, <1>5 DEF CalmEffect, Calm!DeleteKeys, Calm!At, Calm!Outcome
<1>6. CASE \/ Calm!CreateUser(r) \/ Calm!ClearLinks(r) \/ Calm!CreateLink(r) \/ Calm!SendMail(r)
           \/ Calm!MarkUsed(r) \/ Calm!VerifyUser(r) \/ Calm!SetPassword(r)
  BY <1>6 DEF CalmEffect, Calm!CreateUser, Calm!ClearLinks, Calm!CreateLink, Calm!SendMail,
     Calm!MarkUsed, Calm!VerifyUser, Calm!SetPassword, Calm!At, Calm!redis
<1>7. CASE \/ Calm!ReadIndex(r) \/ Calm!DeleteIndex(r) \/ Calm!FindSession(r)
           \/ Calm!FindByEmail(r) \/ Calm!LinkGoogle(r) \/ Calm!CreateGoogle(r)
  BY <1>7 DEF CalmEffect, Calm!ReadIndex, Calm!DeleteIndex, Calm!FindSession, Calm!FindByEmail,
     Calm!LinkGoogle, Calm!CreateGoogle, Calm!At, Calm!redis, Calm!Outcome
<1>8. ~Calm!MongoError(r)
  BY DEF Calm!MongoError
<1>9. QED
  BY <1>1, <1>2, <1>3, <1>4, <1>5, <1>6, <1>7, <1>8 DEF Calm!Step

\* A step after which nothing has failed yet: its answer has set the cookie.
LEMMA CalmServe ==
    ASSUME AuthInv, NEW r \in Requests, Serve(r), calm'
    PROVE  /\ calm /\ StepEffect(r) /\ CalmEffect(r)
           /\ mine' = IF pc'[r] = "idle" THEN mine \ {r} ELSE mine
           /\ cookie' = IF r \in mine /\ pc[r] = "issue" THEN lastToken'
                        ELSE IF r \in mine /\ pc[r] = "revoke" THEN 0 ELSE cookie
           /\ pc[r] = "issue" => TokenIssued(mem[r])
<1>1. calm /\ Calm!Step(r) /\ cookie' = IF r \in mine /\ pc'[r] = "idle" THEN Answered(r) ELSE cookie
  BY DEF Serve, At
<1>2. StepEffect(r) /\ CalmEffect(r)
  BY <1>1, StepEffects, CalmEffects DEF Serve
<1>3. pc[r] = "issue" => TokenIssued(mem[r]) /\ lastToken' # lastToken /\ pc'[r] = "idle"
  BY <1>2 DEF StepEffect, CalmEffect, TokensLost
<1>4. pc[r] = "revoke" => pc'[r] = "idle"
  BY <1>2 DEF CalmEffect
<1>5. pc[r] # "issue" => lastToken' = lastToken
  BY <1>2 DEF StepEffect, TokensLost
<1>6. mine' = IF pc'[r] = "idle" THEN mine \ {r} ELSE mine
  BY DEF Serve, At
<1>7. cookie' = IF r \in mine /\ pc[r] = "issue" THEN lastToken'
                ELSE IF r \in mine /\ pc[r] = "revoke" THEN 0 ELSE cookie
  BY <1>1, <1>3, <1>4, <1>5 DEF Answered, At
<1>8. QED
  BY <1>1, <1>2, <1>3, <1>6, <1>7

\* A cookie that is used up has been sent by a request that will replace it.
LEMMA ServeKeepsCookie ==
    ASSUME AuthInv, GivenInv, CookieInv, NEW r \in Requests, Serve(r)
    PROVE  CookieInv'
<1> SUFFICES ASSUME calm', cookie' \in valid' \ (live' \cup revoked')
             PROVE  \E q \in mine' : pc'[q] \in {"find_user", "issue"} /\ mem'[q].token = cookie'
  BY DEF CookieInv
<1>0. /\ calm /\ StepEffect(r) /\ CalmEffect(r)
      /\ mine' = IF pc'[r] = "idle" THEN mine \ {r} ELSE mine
      /\ pc[r] = "issue" => TokenIssued(mem[r])
  BY CalmServe
<1>1. cookie' = cookie /\ cookie \in valid /\ ~(r \in mine /\ pc[r] \in {"issue", "revoke"})
  <2>1. cookie' \in valid
    BY <1>0 DEF StepEffect, TokensLost, TokenIssued
  <2>2. cookie' # 0
    BY <2>1 DEF GivenInv, Given, AuthInv, TypeOK
  <2>3. r \in mine /\ pc[r] = "issue" => cookie' = lastToken' /\ lastToken' \in live'
    BY <1>0, CalmServe DEF TokenIssued
  <2>4. QED
    BY <2>1, <2>2, <2>3, CalmServe
<1>2. cookie \notin revoked /\ (pc[r] = "delete_keys" => cookie \notin mem[r].jtis)
  BY <1>1 DEF Serve, At
<1>3. cookie \in given
  BY <1>1 DEF GivenInv, Given, AuthInv, TypeOK
<1>4. CASE cookie \in live
  <2>1. pc[r] \in {"rotate", "revoke"} /\ mem[r].token = cookie
    BY <1>0, <1>1, <1>2, <1>4 DEF CalmEffect, TokenIssued
  <2>2. r \in mine
    BY <1>3, <2>1 DEF GivenInv, OthersInv
  <2>3. pc[r] = "rotate" /\ pc'[r] = "find_user" /\ mem'[r] = mem[r]
    BY <1>0, <1>1, <2>1, <2>2 DEF CalmEffect, StepEffect, WithToken
  <2>4. QED
    BY <1>0, <1>1, <2>1, <2>2, <2>3
<1>5. CASE cookie \notin live
  <2>1. PICK q \in mine : pc[q] \in {"find_user", "issue"} /\ mem[q].token = cookie
    BY <1>0, <1>1, <1>2, <1>5 DEF CookieInv
  <2>2. q \in Requests
    BY DEF GivenInv
  <2>3. CASE q # r
    BY <1>0, <1>1, <2>1, <2>2, <2>3 DEF StepEffect, OthersStay
  <2>4. CASE q = r
    BY <1>0, <1>1, <2>1, <2>4 DEF StepEffect, CalmEffect, WithToken
  <2>5. QED
    BY <2>3, <2>4
<1>6. QED
  BY <1>4, <1>5

LEMMA BeginsKeepCookie ==
    ASSUME AuthInv, GivenInv, CookieInv, NEW r \in Requests, Ask(r) \/ OthersAsk(r)
    PROVE  CookieInv'
<1>1. /\ UNCHANGED <<cookie, live, valid, revoked, calm>> /\ mine \subseteq mine'
      /\ pc[r] = "idle" /\ OthersStay(r) /\ mine \subseteq Requests
  BY AskEffect, RequestBegins
     DEF Ask, OthersAsk, BeginEffect, TokensKept, history, GivenInv
<1>2. r \notin mine
  BY <1>1 DEF GivenInv, MineInv, MineLabels
<1>3. QED
  BY <1>1, <1>2 DEF CookieInv, OthersStay

LEMMA ExpireKeepsCookie ==
    ASSUME GivenInv, CookieInv, Expire
    PROVE  CookieInv'
<1>1. /\ UNCHANGED <<cookie, mine, revoked, calm, pc, mem>>
      /\ valid' \subseteq valid /\ live' = live \cap valid'
  BY ExpireEffect
<1>2. cookie \in valid' \ (live' \cup revoked) => cookie \in valid \ (live \cup revoked)
  BY <1>1
<1>3. QED
  BY <1>1, <1>2 DEF CookieInv

\* A browser without a cookie relies on less.
LEMMA ForgetKeepsBrowser ==
    ASSUME AuthInv, GivenInv, CookieInv, TabInv, Forget
    PROVE  GivenInv' /\ CookieInv' /\ TabInv'
<1>1. /\ UNCHANGED <<mine, given, oneTab, revoked, ended, calm>> /\ cookie' = 0
      /\ UNCHANGED <<live, valid, lastToken, origin, pc, mem>>
  BY DEF Forget, vars, redis, history
<1>2. GivenInv'
  BY <1>1 DEF GivenInv, Given, MineInv, OthersInv
<1>3. 0 \notin valid
  BY DEF GivenInv, Given, AuthInv, TypeOK
<1>4. CookieInv'
  BY <1>1, <1>3 DEF CookieInv
<1>5. TabInv'
  BY <1>1 DEF TabInv, TabRequestInv, OnlyLive, Over
<1>6. QED
  BY <1>2, <1>4, <1>5

\* The sessions of the only tab: a step in which no token is issued.
LEMMA ServeLosesTab ==
    ASSUME AuthInv, GivenInv, GivenInv', TabInv, NEW r \in Requests, Serve(r), pc[r] # "issue"
    PROVE  TabInv'
<1> SUFFICES ASSUME calm', oneTab'
             PROVE  /\ \A p, q \in mine' : p = q
                    /\ \A q \in mine' : TabRequestInv(pc[q], mem[q])'
                    /\ cookie' # 0 => OnlyLive(cookie)' /\ origin'[cookie'].session \notin ended'
                    /\ \A s \in ended' : Over(s)'
  BY DEF TabInv
<1>0. /\ calm /\ oneTab /\ StepEffect(r) /\ CalmEffect(r) /\ TokensLost
      /\ mine' = IF pc'[r] = "idle" THEN mine \ {r} ELSE mine
      /\ cookie' = IF r \in mine /\ pc[r] = "revoke" THEN 0 ELSE cookie
      /\ mine \subseteq Requests
  BY CalmServe DEF Serve, StepEffect, GivenInv
<1>1. /\ \A p, q \in mine : p = q
      /\ \A q \in mine : TabRequestInv(pc[q], mem[q])
      /\ cookie # 0 => OnlyLive(cookie) /\ origin[cookie].session \notin ended
      /\ \A s \in ended : Over(s)
  BY <1>0 DEF TabInv
<1>2. /\ \A i : OnlyLive(i) => OnlyLive(i)'
      /\ \A s : Over(s) => Over(s)'
  BY <1>0 DEF OnlyLive, Over, TokensLost
<1>3. CASE r \in mine /\ pc[r] = "revoke"
  <2>1. mine' = {} /\ cookie' = 0 /\ live' = live \ {mem[r].token}
    BY <1>0, <1>1, <1>3 DEF CalmEffect
  <2>2. ended' = ended \cup {origin[mem[r].token].session}
    BY <1>0, <1>3, <2>1 DEF Serve, At
  <2>3. \A i \in live' : origin'[i].session # origin[mem[r].token].session
    <3>1. OnlyLive(mem[r].token)
      BY <1>1, <1>3 DEF TabRequestInv
    <3>2. QED
      BY <1>0, <2>1, <3>1 DEF OnlyLive, TokensLost
  <2>4. \A s \in ended' : Over(s)'
    BY <1>1, <1>2, <2>2, <2>3 DEF Over
  <2>5. QED
    BY <2>1, <2>4
<1>4. CASE ~(r \in mine /\ pc[r] = "revoke")
  <2>1. ended' = ended /\ cookie' = cookie
    BY <1>0, <1>4 DEF Serve, At
  <2>2. ASSUME NEW q \in mine' PROVE TabRequestInv(pc[q], mem[q])'
    <3>1. q \in mine /\ q \in Requests /\ TabRequestInv(pc[q], mem[q]) /\ MineInv(pc[q], mem[q])
      BY <1>0, <1>1 DEF GivenInv
    <3>2. CASE q # r
      <4>1. pc'[q] = pc[q] /\ mem'[q] = mem[q]
        BY <1>0, <3>1, <3>2 DEF StepEffect, OthersStay
      <4>2. QED
        BY <1>2, <2>1, <3>1, <4>1 DEF TabRequestInv
    <3>3. CASE q = r
      <4>1. MineInv(pc[r], mem[r])' /\ pc'[r] # "idle" /\ pc'[r] \in After(pc[r])
        <5>1. MineInv(pc[r], mem[r])'
          BY <3>1, <3>3 DEF GivenInv
        <5>2. QED
          BY <1>0, <3>1, <3>3, <5>1 DEF StepEffect, MineInv
      <4>2. CASE pc[r] \in WithToken
        <5>1. mem'[r] = mem[r]
          BY <1>0, <4>1, <4>2 DEF StepEffect
        <5>2. ASSUME pc[r] = "rotate" PROVE Over(mem[r].origin.session)'
          <6>1. OnlyLive(mem[r].token) /\ mem[r].origin.session = origin[mem[r].token].session
            BY <3>1, <3>3, <5>2 DEF TabRequestInv, MineInv, WithToken
          <6>2. live' = live \ {mem[r].token} /\ origin' = origin
            BY <1>0, <5>2 DEF CalmEffect, TokensLost
          <6>3. QED
            BY <5>1, <6>1, <6>2 DEF OnlyLive, Over
        <5>3. QED
          BY <1>2, <2>1, <3>1, <3>3, <4>1, <4>2, <5>1, <5>2 DEF TabRequestInv, After, WithToken
      <4>3. CASE pc[r] \notin WithToken
        <5>1. mem'[r].origin.session = 0 /\ pc'[r] \notin {"find_session", "rotate", "revoke"}
          <6>1. mem[r].token = 0 /\ mem[r].origin.session = 0
            BY <3>1, <3>3, <4>3 DEF MineInv, MineLabels, WithToken, WithoutToken
          <6>2. mem'[r].origin.session = 0
            BY <1>0, <6>1 DEF StepEffect, LocalsKept
          <6>3. QED
            BY <4>1, <4>3, <6>2 DEF After, WithToken
        <5>2. Over(0)' /\ 0 \notin ended'
          <6>1. 0 \notin Given'
            BY <1>0 DEF Given, TokensLost, AuthInv, TypeOK
          <6>2. QED
            BY <6>1 DEF GivenInv, Over
        <5>3. QED
          BY <3>3, <5>1, <5>2 DEF TabRequestInv
      <4>4. QED
        BY <4>2, <4>3
    <3>4. QED
      BY <3>2, <3>3
  <2>3. cookie' # 0 => OnlyLive(cookie)' /\ origin'[cookie'].session \notin ended'
    BY <1>0, <1>1, <2>1 DEF OnlyLive, TokensLost
  <2>4. QED
    BY <1>0, <1>1, <1>2, <2>1, <2>2, <2>3
<1>5. QED
  BY <1>3, <1>4

\* The step that issues one: for the session of the request, which had none.
LEMMA ServeIssuesTab ==
    ASSUME AuthInv, GivenInv, GivenInv', TabInv, NEW r \in Requests, Serve(r), pc[r] = "issue"
    PROVE  TabInv'
<1> SUFFICES ASSUME calm', oneTab'
             PROVE  /\ \A p, q \in mine' : p = q
                    /\ \A q \in mine' : TabRequestInv(pc[q], mem[q])'
                    /\ cookie' # 0 => OnlyLive(cookie)' /\ origin'[cookie'].session \notin ended'
                    /\ \A s \in ended' : Over(s)'
  BY DEF TabInv
<1> DEFINE j == lastToken'
           s == mem[r].origin.session
<1>0. /\ calm /\ oneTab /\ StepEffect(r) /\ TokenIssued(mem[r])
      /\ mine' = mine \ {r} /\ ended' = ended
      /\ cookie' = IF r \in mine THEN j ELSE cookie
      /\ mine \subseteq Requests /\ OthersStay(r)
  <2>1. calm /\ StepEffect(r) /\ CalmEffect(r) /\ TokenIssued(mem[r])
    BY CalmServe
  <2>2. pc'[r] = "idle"
    BY <2>1 DEF CalmEffect
  <2>3. /\ cookie' = IF r \in mine THEN j ELSE cookie
        /\ mine' = mine \ {r}
    BY <2>2, CalmServe
  <2>4. QED
    BY <2>1, <2>3 DEF Serve, At, GivenInv, StepEffect
<1>1. /\ \A p, q \in mine : p = q
      /\ \A q \in mine : TabRequestInv(pc[q], mem[q])
      /\ cookie # 0 => OnlyLive(cookie) /\ origin[cookie].session \notin ended
      /\ \A t \in ended : Over(t)
  BY <1>0 DEF TabInv
<1>2. /\ lastToken \in Nat /\ j = lastToken + 1 /\ j \notin Given /\ j # 0 /\ 0 \notin Given
      /\ \A i \in Given : origin'[i] = origin[i]
      /\ origin'[j].session = IF s = 0 THEN j ELSE s
      /\ live' = live \cup {j}
  BY <1>0 DEF TokenIssued, AuthInv, TypeOK, Given
<1>3. /\ live \subseteq Given /\ given \subseteq Given /\ cookie \in given \cup {0}
      /\ \A i \in Given : origin[i].session \in Given
      /\ ended \subseteq {origin[i].session : i \in given}
  BY DEF GivenInv
<1>4. \A t \in ended : t \in Given
  BY <1>3
<1> HIDE DEF j, s
<1>5. CASE r \in mine
  <2>1. mine' = {} /\ cookie' = j
    BY <1>0, <1>1, <1>5
  <2>2. Over(s) /\ s \notin ended
    BY <1>1, <1>5 DEF TabRequestInv, s
  <2>3. \A i \in live' : origin'[i].session = origin'[j].session => i = j
    BY <1>2, <1>3, <2>2 DEF Over
  <2>4. origin'[j].session \notin ended
    BY <1>2, <1>4, <2>2
  <2>5. \A t \in ended, i \in live' : origin'[i].session # t
    BY <1>1, <1>2, <1>3, <2>4 DEF Over
  <2>6. QED
    BY <1>0, <2>1, <2>3, <2>4, <2>5 DEF OnlyLive, Over
<1>6. CASE r \notin mine
  <2>1. mine' = mine /\ cookie' = cookie
    BY <1>0, <1>6
  <2>2. \A i \in given : origin[i].session # s
    BY <1>6 DEF GivenInv, OthersInv, s
  <2>3. \A k \in given : origin'[j].session # origin[k].session
    BY <1>2, <1>3, <2>2
  <2>4. \A k \in given : OnlyLive(k) =>
            \A i \in live' : origin'[i].session = origin'[k].session => i = k
    BY <1>2, <1>3, <2>3 DEF OnlyLive
  <2>5. \A t : (t = 0 \/ \E k \in given : t = origin[k].session) /\ Over(t) =>
            \A i \in live' : origin'[i].session # t
    <3>1. origin'[j].session # 0
      BY <1>2
    <3>2. QED
      BY <1>2, <1>3, <2>3, <3>1 DEF Over
  <2>6. ASSUME NEW q \in mine PROVE TabRequestInv(pc[q], mem[q])'
    <3>1. q \in Requests /\ pc'[q] = pc[q] /\ mem'[q] = mem[q]
      BY <1>0, <1>6 DEF OthersStay
    <3>2. TabRequestInv(pc[q], mem[q]) /\ MineInv(pc[q], mem[q])
      BY <1>1, <3>1 DEF GivenInv
    <3>3. pc[q] \in {"find_session", "rotate", "revoke"} => OnlyLive(mem[q].token)'
      <4>1. pc[q] \in {"find_session", "rotate", "revoke"} =>
                mem[q].token \in given /\ OnlyLive(mem[q].token)
        BY <3>2 DEF TabRequestInv, MineInv, WithToken
      <4>2. QED
        BY <2>4, <3>1, <4>1 DEF OnlyLive
    <3>4. pc[q] \in {"find_user", "issue"} => Over(mem[q].origin.session)'
      <4>1. pc[q] \in {"find_user", "issue"} =>
                /\ Over(mem[q].origin.session)
                /\ \/ mem[q].origin.session = 0
                   \/ \E k \in given : mem[q].origin.session = origin[k].session
        BY <3>2 DEF TabRequestInv, MineInv
      <4>2. QED
        BY <2>5, <3>1, <4>1 DEF Over
    <3>5. QED
      BY <1>0, <3>1, <3>2, <3>3, <3>4 DEF TabRequestInv
  <2>7. cookie' # 0 => OnlyLive(cookie)' /\ origin'[cookie'].session \notin ended'
    <3>1. cookie # 0 => cookie \in given /\ OnlyLive(cookie) /\ origin'[cookie] = origin[cookie]
      BY <1>1, <1>2, <1>3
    <3>2. QED
      BY <1>0, <1>1, <2>1, <2>4, <3>1 DEF OnlyLive
  <2>8. \A t \in ended' : Over(t)'
    BY <1>0, <1>1, <1>3, <2>5 DEF Over
  <2>9. QED
    BY <1>1, <2>1, <2>6, <2>7, <2>8
<1>7. QED
  BY <1>5, <1>6

LEMMA ServeKeepsTab ==
    ASSUME AuthInv, GivenInv, GivenInv', TabInv, NEW r \in Requests, Serve(r)
    PROVE  TabInv'
BY ServeLosesTab, ServeIssuesTab

LEMMA AskKeepsTab ==
    ASSUME AuthInv, GivenInv, TabInv, NEW r \in Requests, Ask(r)
    PROVE  TabInv'
<1> SUFFICES ASSUME calm', oneTab'
             PROVE  /\ \A p, q \in mine' : p = q
                    /\ \A q \in mine' : TabRequestInv(pc[q], mem[q])'
                    /\ cookie' # 0 => OnlyLive(cookie)' /\ origin'[cookie'].session \notin ended'
                    /\ \A s \in ended' : Over(s)'
  BY DEF TabInv
<1>1. /\ calm /\ oneTab /\ mine' = {r}
      /\ UNCHANGED <<cookie, live, origin, ended>>
  BY AskEffect DEF Ask, history, TokensKept
<1>2. /\ cookie # 0 => OnlyLive(cookie) /\ origin[cookie].session \notin ended
      /\ \A s \in ended : Over(s)
  BY <1>1 DEF TabInv
<1>3. (\A s : Over(s) => Over(s)') /\ (\A i : OnlyLive(i) => OnlyLive(i)')
  BY <1>1 DEF Over, OnlyLive
<1>4. TabRequestInv(pc[r], mem[r])'
  <2>1. CASE pc'[r] \in {"issue", "find_by_email"} /\ NoToken(mem'[r])
    <3>1. 0 \notin Given
      BY DEF Given, AuthInv, TypeOK
    <3>2. (\A i \in live : origin[i].session # 0) /\ 0 \notin ended
      BY <3>1 DEF GivenInv
    <3>3. QED
      BY <1>1, <2>1, <3>1, <3>2 DEF TabRequestInv, Over, NoToken
  <2>2. CASE /\ mem'[r].token = cookie /\ cookie # 0
             /\ pc'[r] = "find_session" /\ mem'[r].origin.session = origin[cookie].session
    BY <1>1, <1>2, <2>2 DEF TabRequestInv, OnlyLive
  <2>3. CASE mem'[r].token = cookie /\ cookie # 0 /\ pc'[r] = "revoke"
    BY <1>1, <1>2, <2>3 DEF TabRequestInv, OnlyLive
  <2>4. QED
    BY <2>1, <2>2, <2>3, AskEffect
<1>5. QED
  BY <1>1, <1>2, <1>3, <1>4 DEF OnlyLive

LEMMA OthersAskKeepsTab ==
    ASSUME AuthInv, GivenInv, TabInv, NEW r \in Requests, OthersAsk(r)
    PROVE  TabInv'
<1>1. /\ UNCHANGED <<cookie, live, origin, ended, calm, oneTab, mine>>
      /\ pc[r] = "idle" /\ OthersStay(r) /\ mine \subseteq Requests
  BY RequestBegins DEF OthersAsk, BeginEffect, TokensKept, history, GivenInv
<1>2. r \notin mine
  BY <1>1 DEF GivenInv, MineInv, MineLabels
<1>3. \A q \in mine : pc'[q] = pc[q] /\ mem'[q] = mem[q]
  BY <1>1, <1>2 DEF OthersStay
<1>4. QED
  BY <1>1, <1>3 DEF TabInv, TabRequestInv, OnlyLive, Over

LEMMA ExpireKeepsTab ==
    ASSUME GivenInv, TabInv, Expire
    PROVE  TabInv'
<1>1. /\ UNCHANGED <<mine, oneTab, ended, calm, origin, pc, mem>>
      /\ live' \subseteq live /\ cookie' = cookie
  BY ExpireEffect
<1>2. QED
  BY <1>1 DEF TabInv, TabRequestInv, OnlyLive, Over

LEMMA InitBrowserInv == BInit => BrowserInv
<1> SUFFICES ASSUME BInit PROVE BrowserInv
  OBVIOUS
<1>1. AuthInv
  BY InitAuthInv DEF BInit
<1>2. /\ live = {} /\ valid = {} /\ lastToken = 0 /\ Given = {}
      /\ \A r \in Requests : mem[r] = NoMem
      /\ cookie = 0 /\ mine = {} /\ given = {} /\ ended = {}
  BY DEF BInit, Init, Given
<1>3. GivenInv
  BY <1>2 DEF GivenInv, OthersInv, NoMem, NoOrigin
<1>4. CookieInv /\ TabInv
  BY <1>2 DEF CookieInv, TabInv
<1>5. QED
  BY <1>1, <1>3, <1>4 DEF BrowserInv

\* A step of Browser is one of Auth.
LEMMA StepOfAuth == [BNext]_bvars => [Next]_vars
BY DEF BNext, Ask, OthersAsk, Serve, Expire, Forget, Next, Request, bvars

LEMMA NextKeepsBrowserInv == BrowserInv /\ [BNext]_bvars => BrowserInv'
<1> SUFFICES ASSUME BrowserInv, [BNext]_bvars PROVE BrowserInv'
  OBVIOUS
<1>0. AuthInv /\ GivenInv /\ CookieInv /\ TabInv
  BY DEF BrowserInv
<1>1. AuthInv'
  BY <1>0, StepOfAuth, NextKeepsAuthInv
<1>2. ASSUME NEW r \in Requests, Ask(r) PROVE BrowserInv'
  BY <1>0, <1>1, <1>2, AskKeepsGiven, BeginsKeepCookie, AskKeepsTab DEF BrowserInv
<1>3. ASSUME NEW r \in Requests, OthersAsk(r) PROVE BrowserInv'
  BY <1>0, <1>1, <1>3, OthersAskKeepsGiven, BeginsKeepCookie, OthersAskKeepsTab DEF BrowserInv
<1>4. ASSUME NEW r \in Requests, Serve(r) PROVE BrowserInv'
  <2>1. GivenInv'
    BY <1>0, <1>4, ServeKeepsGiven
  <2>2. CookieInv' /\ TabInv'
    BY <1>0, <1>4, <2>1, ServeKeepsCookie, ServeKeepsTab
  <2>3. QED
    BY <1>1, <2>1, <2>2 DEF BrowserInv
<1>5. CASE Expire
  BY <1>0, <1>1, <1>5, ExpireKeepsGiven, ExpireKeepsCookie, ExpireKeepsTab DEF BrowserInv
<1>6. CASE Forget
  BY <1>0, <1>1, <1>6, ForgetKeepsBrowser DEF BrowserInv
<1>7. CASE UNCHANGED bvars
  BY <1>0, <1>1, <1>7
     DEF BrowserInv, GivenInv, CookieInv, TabInv, TabRequestInv, OnlyLive, Over, MineInv, OthersInv,
         Given, bvars, vars, redis, history
<1>8. QED
  BY <1>2, <1>3, <1>4, <1>5, <1>6, <1>7 DEF BNext

LEMMA BrowserInvHolds == BSpec => []BrowserInv
BY InitBrowserInv, NextKeepsBrowserInv, PTL DEF BSpec

----------------------------------------------------------------------------
(* Theorems *)

\* The endpoints do with a browser what they do without: a browser only chooses
\* among the requests of Auth, and what holds of every behaviour of Auth holds
\* of these (auth.controller.ts:103-197).
THEOREM BrowserIsAuth == BSpec => Spec
<1>1. BInit => Init
  BY DEF BInit
<1>2. QED
  BY <1>1, StepOfAuth, PTL DEF BSpec, Spec

\* So no session is left or issued for an unverified address, and no writer of
\* the account undoes the work of another.
THEOREM BrowserKeepsAccount == BSpec => []SessionsNeedVerifiedAccount /\ AccountKeepsItsData
BY BrowserIsAuth, SessionsAreOfVerified, AccountOnlyGains, PTL

\* A browser that has lost no answer can refresh, with any number of its tabs
\* logging in, refreshing and logging out at the same time and of requests of
\* others beside them, unless its token has expired or the password was reset
\* (auth.controller.ts:103-197, token.service.ts:33-110).
THEOREM CookieCanBeUsed == BSpec => []CookieIsLive
<1>1. BrowserInv => CookieIsLive
  BY DEF BrowserInv, CookieInv, CookieIsLive
<1>2. QED
  BY <1>1, BrowserInvHolds, PTL

\* Logging out ends the session of the only tab of a browser, however often it
\* was refreshed and whatever others do, when no call fails and no answer is
\* lost (auth.service.ts:205-209, token.service.ts:52-59).
THEOREM LogoutIsComplete == BSpec => []LogoutEndsSession
<1>1. BrowserInv => LogoutEndsSession
  BY DEF BrowserInv, TabInv, Over, LogoutEndsSession
<1>2. QED
  BY <1>1, BrowserInvHolds, PTL

=============================================================================
