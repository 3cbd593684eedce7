----------------------------- MODULE AuthProofs -----------------------------
(***************************************************************************)
(* Theorems about Auth, for any number of requests, links and tokens, with *)
(* any services failing and with crashes.                                  *)
(***************************************************************************)
EXTENDS Auth, TLAPS, FiniteSetTheorems

\* The steps before the account is known to exist, and those of a session.
Accountless == {"idle", "create_user", "find_by_email", "create_google"}
InSession == {"find_session", "rotate", "find_user", "issue"}

Verified == user # None /\ user.verified

\* What a request that is at a label with locals m relies on.
RequestInv(label, m) ==
    /\ label \notin Accountless => user # None
    /\ label \in {"send_mail", "mark_used"} => m.link \in Links
    /\ label \in InSession => Verified

\* Links are sent to an account, and tokens issued to a verified one.
AccountInv ==
    /\ mailed # {} => user # None
    /\ user # None /\ user.google => user.verified
    /\ live \cup valid # {} => Verified
    /\ \A r \in Requests : RequestInv(pc[r], mem[r])

AuthInv == TypeOK /\ AccountInv

----------------------------------------------------------------------------
(* Lemmas on the operators the actions are built from *)

LEMMA FreshTypes ==
    /\ NoOrigin \in Origin /\ NoMem \in Mem
    /\ 0 \notin Links
    /\ None \notin User /\ None \notin Link
BY ConstantsAssumption DEF NoOrigin, Origin, NoMem, Mem, LinkType, Links, Tokens

\* What the next-state relation of a request leaves in pc and mem.
LEMMA GotoType ==
    ASSUME TypeOK, NEW r \in Requests, NEW label \in Labels, NEW m \in Mem,
           Goto(r, label, m)
    PROVE  /\ pc' \in [Requests -> Labels] /\ mem' \in [Requests -> Mem]
           /\ pc'[r] = label /\ mem'[r] = IF label = "idle" THEN NoMem ELSE m
           /\ \A q \in Requests \ {r} : pc'[q] = pc[q] /\ mem'[q] = mem[q]
BY FreshTypes DEF TypeOK, Goto

LEMMA FinishType ==
    ASSUME TypeOK, NEW r \in Requests, Finish(r)
    PROVE  /\ pc' \in [Requests -> Labels] /\ mem' \in [Requests -> Mem]
           /\ pc'[r] = "idle" /\ mem'[r] = NoMem
           /\ \A q \in Requests \ {r} : pc'[q] = pc[q] /\ mem'[q] = mem[q]
BY FreshTypes DEF TypeOK, Finish, Goto, Labels

\* The locals of a request have their types, also once one is assigned.
LEMMA MemType ==
    ASSUME TypeOK, NEW r \in Requests
    PROVE  /\ mem[r] \in Mem
           /\ mem[r].origin \in Origin
           /\ \A l \in Links : [mem[r] EXCEPT !.link = l] \in Mem
           /\ \A J \in SUBSET Tokens : [mem[r] EXCEPT !.jtis = J] \in Mem
BY DEF TypeOK, Mem

LEMMA NewMemType ==
    /\ \A t \in LinkType : [NoMem EXCEPT !.type = t] \in Mem
    /\ \A t \in LinkType, l \in Links :
          /\ [NoMem EXCEPT !.type = t, !.link = l] \in Mem
          /\ [NoMem EXCEPT !.type = t, !.link = l].link = l
    /\ \A n \in Nat : [NoMem EXCEPT !.origin.since = n] \in Mem
    /\ \A j \in Tokens : [NoMem EXCEPT !.token = j] \in Mem
    /\ \A j \in Tokens, o \in Origin : [NoMem EXCEPT !.token = j, !.origin = o] \in Mem
BY FreshTypes DEF Mem, NoMem, Origin, NoOrigin

----------------------------------------------------------------------------
(* AuthInv is inductive *)

LEMMA InitAuthInv == Init => AuthInv
BY FreshTypes, ConstantsAssumption
   DEF Init, AuthInv, TypeOK, AccountInv, RequestInv, Verified, Accountless, InSession,
       Labels, Links, Tokens

\* An account that exists goes on existing, and stays verified.
AccountKept == (user # None => user' # None) /\ (Verified => Verified')

\* A step of request r, as far as what the other requests rely on goes.
LEMMA RequestsKept ==
    ASSUME AuthInv, AccountKept, NEW r \in Requests, NEW label \in Labels, NEW m \in Mem,
           Goto(r, label, m) \/ Finish(r),
           label \notin Accountless => user' # None,
           label \in {"send_mail", "mark_used"} => m.link \in Links,
           label \in InSession => Verified'
    PROVE  /\ pc' \in [Requests -> Labels] /\ mem' \in [Requests -> Mem]
           /\ \A q \in Requests : RequestInv(pc[q], mem[q])'
<1>1. ASSUME NEW q \in Requests \ {r}, pc'[q] = pc[q], mem'[q] = mem[q]
      PROVE  RequestInv(pc[q], mem[q])'
  BY <1>1 DEF AuthInv, AccountInv, RequestInv, AccountKept, Verified
<1>2. CASE Goto(r, label, m)
  <2>1. RequestInv(pc[r], mem[r])'
    BY <1>2, GotoType DEF AuthInv, RequestInv, Accountless, InSession, Verified
  <2>2. QED
    BY <1>1, <1>2, <2>1, GotoType DEF AuthInv
<1>3. CASE Finish(r)
  <2>1. RequestInv(pc[r], mem[r])'
    BY <1>3, FinishType DEF AuthInv, RequestInv, Accountless, InSession
  <2>2. QED
    BY <1>1, <1>3, <2>1, FinishType DEF AuthInv
<1>4. QED
  BY <1>2, <1>3

\* A step of request r that leaves both stores alone.
LEMMA LocalStep ==
    ASSUME AuthInv, NEW r \in Requests, NEW label \in Labels, NEW m \in Mem,
           Goto(r, label, m) \/ Finish(r), UNCHANGED <<mongo, redis>>,
           label \notin Accountless => user # None,
           label \in {"send_mail", "mark_used"} => m.link \in Links,
           label \in InSession => Verified
    PROVE  AuthInv'
<1>1. AccountKept /\ UNCHANGED user
  BY DEF AccountKept, Verified, mongo
<1>2. /\ pc' \in [Requests -> Labels] /\ mem' \in [Requests -> Mem]
      /\ \A q \in Requests : RequestInv(pc[q], mem[q])'
  BY <1>1, RequestsKept DEF Verified
<1>3. QED
  BY <1>2 DEF AuthInv, TypeOK, AccountInv, Verified, mongo, redis

LEMMA RequestKeepsAuthInv ==
    ASSUME AuthInv, NEW r \in Requests, Request(r)
    PROVE  AuthInv'
<1>0. TypeOK /\ AccountInv
  BY DEF AuthInv
<1>1. CASE BeginRegister(r)
  <2>1. CASE Goto(r, "create_user", NoMem)
    BY <1>1, <2>1, FreshTypes, LocalStep DEF BeginRegister, Accountless, InSession, Labels
  <2>2. CASE UNCHANGED <<pc, mem>>
    BY <1>1, <2>2 DEF BeginRegister, AuthInv, TypeOK, AccountInv, RequestInv, Verified,
                      mongo, redis
  <2>3. QED
    BY <1>1, <2>1, <2>2 DEF BeginRegister
<1>2. CASE BeginResend(r)
  BY <1>2, FreshTypes, LocalStep DEF BeginResend, InSession, Labels
<1>3. CASE BeginForgot(r)
  <2>1. [NoMem EXCEPT !.type = "password_reset"] \in Mem
    BY NewMemType DEF LinkType
  <2>2. QED
    BY <1>3, <2>1, LocalStep DEF BeginForgot, InSession, Labels
<1>4. CASE BeginConsume(r)
  <2>1. PICK l \in mailed, type \in LinkType :
            Goto(r, "mark_used", [NoMem EXCEPT !.type = type, !.link = l])
    BY <1>4 DEF BeginConsume
  <2>2. l \in Links /\ user # None
    BY <1>0, <1>4 DEF TypeOK, AccountInv
  <2>3. QED
    BY <1>4, <2>1, <2>2, NewMemType, LocalStep DEF BeginConsume, InSession, Labels
<1>5. CASE BeginLogin(r)
  <2>1. Verified /\ user.password \in Nat
    BY <1>0, <1>5 DEF BeginLogin, CanLogin, TypeOK, User, Verified
  <2>2. QED
    BY <1>5, <2>1, NewMemType, LocalStep DEF BeginLogin, Verified, Labels
<1>6. CASE BeginRefresh(r)
  <2>1. PICK j \in valid :
            Goto(r, "find_session", [NoMem EXCEPT !.token = j, !.origin = origin[j]])
    BY <1>6 DEF BeginRefresh
  <2>2. j \in Tokens /\ origin[j] \in Origin /\ Verified
    BY <1>0 DEF TypeOK, AccountInv
  <2>3. QED
    BY <1>6, <2>1, <2>2, NewMemType, LocalStep DEF BeginRefresh, Verified, Labels
<1>7. CASE BeginLogout(r)
  <2>1. PICK j \in valid : Goto(r, "revoke", [NoMem EXCEPT !.token = j])
    BY <1>7 DEF BeginLogout
  <2>2. j \in Tokens /\ Verified
    BY <1>0 DEF TypeOK, AccountInv
  <2>3. QED
    BY <1>7, <2>1, <2>2, NewMemType, LocalStep DEF BeginLogout, Verified, InSession, Labels
<1>8. CASE BeginGoogle(r)
  <2>1. CASE user # None /\ user.google
    <3>1. Verified /\ user.password \in Nat
      BY <1>0, <2>1 DEF AccountInv, Verified, TypeOK, User
    <3>2. QED
      BY <1>8, <2>1, <3>1, NewMemType, LocalStep DEF BeginGoogle, Verified, Labels
  <2>2. CASE ~(user # None /\ user.google)
    BY <1>8, <2>2, FreshTypes, LocalStep DEF BeginGoogle, Accountless, InSession, Labels
  <2>3. QED
    BY <2>1, <2>2
<1>9. QED
  BY <1>1, <1>2, <1>3, <1>4, <1>5, <1>6, <1>7, <1>8 DEF Request

\* What the requests rely on, at a label of r and in general.
LEMMA AtLabel ==
    ASSUME AuthInv, NEW r \in Requests
    PROVE  /\ pc[r] \notin Accountless => user # None /\ user \in User
           /\ pc[r] \in {"send_mail", "mark_used"} => mem[r].link \in Links
           /\ pc[r] \in InSession => Verified
BY DEF AuthInv, TypeOK, AccountInv, RequestInv

LEMMA LinkStepsKeepAuthInv ==
    ASSUME AuthInv, NEW r \in Requests,
           CreateUser(r) \/ ClearLinks(r) \/ CreateLink(r) \/ SendMail(r) \/ MarkUsed(r)
    PROVE  AuthInv'
<1>0. TypeOK /\ AccountInv /\ mem[r] \in Mem
  BY MemType DEF AuthInv
<1>1. CASE CreateUser(r)
  <2>1. CASE user = None /\ user' = [password |-> 1, verified |-> FALSE, google |-> FALSE]
    <3>1. user' \in User /\ ~user'.google
      BY <2>1 DEF User
    <3>2. user' # None /\ AccountKept /\ ~Verified
      BY <2>1, <3>1, FreshTypes DEF AccountKept, Verified
    <3>3. Goto(r, "clear_links", mem[r])
      BY <1>1, <2>1 DEF CreateUser
    <3>4. /\ pc' \in [Requests -> Labels] /\ mem' \in [Requests -> Mem]
          /\ \A q \in Requests : RequestInv(pc[q], mem[q])'
      BY <1>0, <3>1, <3>2, <3>3, RequestsKept DEF Labels, InSession
    <3>5. QED
      BY <1>0, <1>1, <3>1, <3>2, <3>4
         DEF CreateUser, AuthInv, TypeOK, AccountInv, redis
  <2>2. CASE user # None /\ Finish(r) /\ UNCHANGED user
    BY <1>0, <1>1, <2>2, LocalStep DEF CreateUser, Accountless, InSession, Labels, mongo
  <2>3. QED
    BY <1>1, <2>1, <2>2 DEF CreateUser
<1>2. CASE ClearLinks(r)
  <2>1. user # None
    BY <1>2, AtLabel DEF ClearLinks, At, Accountless
  <2>2. /\ pc' \in [Requests -> Labels] /\ mem' \in [Requests -> Mem]
        /\ \A q \in Requests : RequestInv(pc[q], mem[q])'
    BY <1>0, <1>2, <2>1, RequestsKept DEF ClearLinks, AccountKept, Verified, Labels, InSession
  <2>3. links' \in [Links -> Link \cup {None}]
    BY <1>0, <1>2 DEF ClearLinks, TypeOK
  <2>4. QED
    BY <1>0, <1>2, <2>2, <2>3 DEF ClearLinks, AuthInv, TypeOK, AccountInv, Verified, redis
<1>3. CASE CreateLink(r)
  <2> DEFINE m == [mem[r] EXCEPT !.link = lastLink']
             link == [type |-> mem[r].type, used |-> FALSE, expired |-> FALSE]
  <2>1. user # None
    BY <1>3, AtLabel DEF CreateLink, At, Accountless
  <2>2. lastLink' \in Links /\ lastLink' \in 0..MaxLinks /\ lastLink' = lastLink + 1
    BY <1>0, <1>3, ConstantsAssumption DEF CreateLink, TypeOK, Links
  <2>3. m \in Mem /\ m.link = lastLink'
    BY <1>0, <2>2 DEF Mem
  <2>4. link \in Link
    BY <1>0 DEF Mem, Link
  <2>5. links' = [links EXCEPT ![lastLink'] = link]
    BY <1>3 DEF CreateLink
  <2>6. Goto(r, "send_mail", m)
    BY <1>3 DEF CreateLink
  <2> HIDE DEF m, link
  <2>7. /\ pc' \in [Requests -> Labels] /\ mem' \in [Requests -> Mem]
        /\ \A q \in Requests : RequestInv(pc[q], mem[q])'
    BY <1>3, <2>1, <2>2, <2>3, <2>6, RequestsKept
       DEF CreateLink, AccountKept, Verified, Labels, InSession
  <2>8. links' \in [Links -> Link \cup {None}]
    BY <1>0, <2>4, <2>5 DEF TypeOK
  <2>9. QED
    BY <1>0, <1>3, <2>1, <2>2, <2>7, <2>8
       DEF CreateLink, AuthInv, TypeOK, AccountInv, Verified, redis
<1>4. CASE SendMail(r)
  <2>1. /\ pc' \in [Requests -> Labels] /\ mem' \in [Requests -> Mem]
        /\ \A q \in Requests : RequestInv(pc[q], mem[q])'
    BY <1>4, FreshTypes, RequestsKept
       DEF SendMail, AccountKept, Verified, Labels, Accountless, InSession
  <2>2. mem[r].link \in Links /\ user # None
    BY <1>4, AtLabel DEF SendMail, At, Accountless
  <2>3. QED
    BY <1>0, <1>4, <2>1, <2>2 DEF SendMail, AuthInv, TypeOK, AccountInv, Verified, redis
<1>5. CASE MarkUsed(r)
  <2> DEFINE l == mem[r].link
             label == IF mem[r].type = "email_verify" THEN "verify_user" ELSE "set_password"
  <2>1. l \in Links /\ user # None
    BY <1>5, AtLabel DEF MarkUsed, At, Accountless
  <2>2. /\ pc' \in [Requests -> Labels] /\ mem' \in [Requests -> Mem]
        /\ \A q \in Requests : RequestInv(pc[q], mem[q])'
    <3>1. Goto(r, label, mem[r]) \/ Finish(r)
      BY <1>5 DEF MarkUsed
    <3>2. label \in Labels \ {"send_mail", "mark_used"} /\ label \notin InSession
      BY DEF Labels, InSession
    <3>3. UNCHANGED user
      BY <1>5 DEF MarkUsed
    <3> HIDE DEF label
    <3>4. QED
      BY <1>0, <2>1, <3>1, <3>2, <3>3, RequestsKept DEF AccountKept, Verified
  <2>3. links' \in [Links -> Link \cup {None}]
    <3>1. CASE links[l] # None /\ links' = [links EXCEPT ![l].used = TRUE]
      <4>1. [links[l] EXCEPT !.used = TRUE] \in Link
        BY <1>0, <2>1, <3>1 DEF TypeOK, Link
      <4>2. QED
        BY <1>0, <2>1, <3>1, <4>1 DEF TypeOK
    <3>2. QED
      BY <1>0, <1>5, <3>1 DEF MarkUsed, TypeOK
  <2>4. QED
    BY <1>0, <1>5, <2>2, <2>3 DEF MarkUsed, AuthInv, TypeOK, AccountInv, Verified, redis
<1>6. QED
  BY <1>1, <1>2, <1>3, <1>4, <1>5

\* The steps that write the account: the two tokens of the user, and Google.
LEMMA AccountStepsKeepAuthInv ==
    ASSUME AuthInv, NEW r \in Requests,
           VerifyUser(r) \/ SetPassword(r) \/ LinkGoogle(r) \/ CreateGoogle(r)
    PROVE  AuthInv'
<1>0. TypeOK /\ AccountInv /\ mem[r] \in Mem
  BY MemType DEF AuthInv
<1>1. /\ user' \in User \cup {None} /\ AccountKept
      /\ user' # None /\ user'.google => user'.verified
      /\ LinkGoogle(r) => Verified'
      /\ CreateGoogle(r) => Finish(r) \/ Verified'
      /\ ~CreateGoogle(r) => user # None /\ user' # None
  <2>1. CASE VerifyUser(r) \/ SetPassword(r) \/ LinkGoogle(r)
    <3>1. user \in User /\ user # None
      BY <2>1, AtLabel DEF VerifyUser, SetPassword, LinkGoogle, At, Accountless
    <3>2. user' \in User /\ (user'.google => user'.verified) /\ (user.verified => user'.verified)
      <4>1. user.google => user.verified
        BY <1>0, <3>1 DEF AccountInv
      <4>2. CASE VerifyUser(r)
        BY <3>1, <4>2 DEF VerifyUser, User
      <4>3. CASE SetPassword(r)
        BY <3>1, <4>1, <4>3 DEF SetPassword, User
      <4>4. CASE LinkGoogle(r)
        BY <3>1, <4>4 DEF LinkGoogle, Linked, User
      <4>5. QED
        BY <2>1, <4>2, <4>3, <4>4
    <3>3. LinkGoogle(r) => user'.verified
      BY <3>1 DEF LinkGoogle, Linked, User
    <3>4. ~CreateGoogle(r)
      BY <2>1 DEF VerifyUser, SetPassword, LinkGoogle, CreateGoogle, At
    <3>5. QED
      BY <2>1, <3>1, <3>2, <3>3, <3>4, FreshTypes DEF AccountKept, Verified
  <2>2. CASE CreateGoogle(r)
    <3>1. CASE user = None /\ user' = [password |-> 0, verified |-> TRUE, google |-> TRUE]
      <4>1. user' \in User /\ user'.verified
        BY <3>1 DEF User
      <4>2. QED
        BY <2>2, <3>1, <4>1, FreshTypes DEF AccountKept, Verified, CreateGoogle, LinkGoogle, At
    <3>2. CASE Finish(r) /\ UNCHANGED user
      BY <1>0, <2>2, <3>2 DEF AccountKept, Verified, CreateGoogle, LinkGoogle, At, TypeOK, AccountInv
    <3>3. QED
      BY <2>2, <3>1, <3>2 DEF CreateGoogle
  <2>3. QED
    BY <2>1, <2>2
<1>2. /\ pc' \in [Requests -> Labels] /\ mem' \in [Requests -> Mem]
      /\ \A q \in Requests : RequestInv(pc[q], mem[q])'
  <2>1. CASE VerifyUser(r)
    BY <1>0, <1>1, <2>1, RequestsKept DEF VerifyUser, Labels, Accountless, InSession
  <2>2. CASE SetPassword(r)
    BY <1>0, <1>1, <2>2, RequestsKept DEF SetPassword, CreateGoogle, At, Labels, InSession
  <2>3. CASE LinkGoogle(r)
    BY <1>0, <1>1, <2>3, RequestsKept DEF LinkGoogle, Labels, Verified
  <2>4. CASE CreateGoogle(r)
    <3>1. CASE Verified' /\ Goto(r, "issue", mem[r])
      BY <1>0, <1>1, <3>1, RequestsKept DEF Labels, Verified
    <3>2. CASE Finish(r)
      BY <1>0, <1>1, <3>2, RequestsKept DEF Labels, Accountless, InSession
    <3>3. QED
      BY <1>1, <2>4, <3>1, <3>2 DEF CreateGoogle
  <2>5. QED
    BY <2>1, <2>2, <2>3, <2>4
<1>3. UNCHANGED <<links, lastLink, mailed, redis>>
  BY DEF VerifyUser, SetPassword, LinkGoogle, CreateGoogle
<1>4. QED
  BY <1>0, <1>1, <1>2, <1>3 DEF AuthInv, TypeOK, AccountInv, AccountKept, redis

\* A step that leaves the account alone, and Redis in a state of its type.
RedisType ==
    /\ live \subseteq valid /\ index \subseteq Tokens /\ valid \subseteq Tokens
    /\ lastToken \in 0..MaxTokens
    /\ origin \in [Tokens -> Origin]
    /\ cleared \in Nat

LEMMA RedisStep ==
    ASSUME AuthInv, NEW r \in Requests, NEW label \in Labels, NEW m \in Mem,
           Goto(r, label, m) \/ Finish(r), UNCHANGED mongo,
           RedisType', live' \cup valid' # {} => Verified,
           label \notin Accountless => user # None,
           label \notin {"send_mail", "mark_used"},
           label \in InSession => Verified
    PROVE  AuthInv'
<1>1. AccountKept /\ UNCHANGED user
  BY DEF AccountKept, Verified, mongo
<1>2. /\ pc' \in [Requests -> Labels] /\ mem' \in [Requests -> Mem]
      /\ \A q \in Requests : RequestInv(pc[q], mem[q])'
  BY <1>1, RequestsKept DEF Verified
<1>3. QED
  BY <1>2 DEF AuthInv, TypeOK, RedisType, AccountInv, Verified, mongo

\* A call to Redis that is carried out or not.
LEMMA OutcomeStep ==
    ASSUME NEW r \in Requests, NEW label, NEW m, NEW effect, Outcome(r, label, m, effect)
    PROVE  /\ Goto(r, label, m) \/ Finish(r)
           /\ effect \/ UNCHANGED redis
BY DEF Outcome

\* createRefreshToken gives out the next token, which has the origin o.
LEMMA IssuedType ==
    ASSUME AuthInv, NEW o \in Origin, lastToken < MaxTokens, Issued(lastToken + 1, o)
    PROVE  RedisType'
<1>1. lastToken + 1 \in Tokens /\ lastToken + 1 \in 0..MaxTokens
  BY ConstantsAssumption DEF AuthInv, TypeOK, Tokens
<1>2. QED
  BY <1>1 DEF AuthInv, TypeOK, RedisType, Issued

SessionOrigin(r) ==
    [mem[r].origin EXCEPT !.session =
        IF mem[r].origin.session = 0 THEN lastToken + 1 ELSE mem[r].origin.session]

LEMMA SessionOriginType ==
    ASSUME TypeOK, NEW r \in Requests, lastToken < MaxTokens
    PROVE  /\ SessionOrigin(r) \in Origin
           /\ SessionOrigin(r).since = mem[r].origin.since
           /\ SessionOrigin(r).session =
                 IF mem[r].origin.session = 0 THEN lastToken + 1 ELSE mem[r].origin.session
<1>1. lastToken + 1 \in Tokens
  BY ConstantsAssumption DEF TypeOK, Tokens
<1>2. QED
  BY <1>1, MemType DEF SessionOrigin, Origin

\* The steps that call Redis or only look something up.
LEMMA SessionStepsKeepAuthInv ==
    ASSUME AuthInv, NEW r \in Requests,
           \/ ReadIndex(r) \/ DeleteKeys(r) \/ DeleteIndex(r) \/ Issue(r)
           \/ FindSession(r) \/ Rotate(r) \/ FindUser(r) \/ Revoke(r) \/ FindByEmail(r)
    PROVE  AuthInv'
<1>0. TypeOK /\ AccountInv /\ mem[r] \in Mem /\ RedisType
  BY MemType DEF AuthInv, TypeOK, RedisType
<1>1. CASE ReadIndex(r)
  <2> DEFINE label == IF index = {} THEN "delete_index" ELSE "delete_keys"
             m == [mem[r] EXCEPT !.jtis = index]
  <2>1. user # None
    BY <1>1, AtLabel DEF ReadIndex, At, Accountless
  <2>2. label \in Labels \ InSession /\ label \notin {"send_mail", "mark_used"}
    BY DEF Labels, InSession
  <2>3. m \in Mem
    BY <1>0, MemType DEF RedisType
  <2>4. Goto(r, label, m) \/ Finish(r)
    BY <1>1 DEF ReadIndex, Outcome
  <2>5. UNCHANGED redis /\ UNCHANGED mongo
    BY <1>1 DEF ReadIndex, Outcome
  <2> HIDE DEF label, m
  <2>6. QED
    BY <1>0, <2>1, <2>2, <2>3, <2>4, <2>5, LocalStep
<1>2. CASE DeleteKeys(r)
  <2>1. user # None
    BY <1>2, AtLabel DEF DeleteKeys, At, Accountless
  <2>2. Goto(r, "delete_index", mem[r]) \/ Finish(r)
    BY <1>2 DEF DeleteKeys, Outcome
  <2>3. live' \subseteq live /\ UNCHANGED <<index, valid, lastToken, origin, cleared>>
        /\ UNCHANGED mongo
    BY <1>2 DEF DeleteKeys, Outcome, redis
  <2>4. QED
    BY <1>0, <2>1, <2>2, <2>3, RedisStep DEF RedisType, AccountInv, Labels, InSession
<1>3. CASE DeleteIndex(r)
  <2>1. Goto(r, "idle", NoMem) \/ Finish(r)
    BY <1>3 DEF DeleteIndex, Outcome
  <2>2. index' \subseteq index /\ UNCHANGED <<live, valid, lastToken, origin>> /\ UNCHANGED mongo
    BY <1>3 DEF DeleteIndex, Outcome, redis
  <2>4. cleared' \in Nat
    <3>1. user \in User /\ user.password \in Nat
      BY <1>3, AtLabel DEF DeleteIndex, At, Accountless, User
    <3>2. QED
      BY <1>0, <1>3, <3>1 DEF DeleteIndex, Outcome, redis, RedisType
  <2>3. QED
    BY <1>0, <2>1, <2>2, <2>4, FreshTypes, RedisStep
       DEF RedisType, AccountInv, Labels, Accountless, InSession
<1>4. CASE Revoke(r)
  <2>1. Goto(r, "idle", NoMem) \/ Finish(r)
    BY <1>4 DEF Revoke, Outcome
  <2>2. live' \subseteq live /\ index' \subseteq index /\ UNCHANGED <<valid, lastToken, origin, cleared>>
        /\ UNCHANGED mongo
    BY <1>4 DEF Revoke, Revoked, Outcome, redis
  <2>3. QED
    BY <1>0, <2>1, <2>2, FreshTypes, RedisStep
       DEF RedisType, AccountInv, Labels, Accountless, InSession
<1>5. CASE Rotate(r)
  <2>1. Verified
    BY <1>5, AtLabel DEF Rotate, At, InSession
  <2>2. Goto(r, "find_user", mem[r]) \/ Finish(r)
    BY <1>5 DEF Rotate, Outcome
  <2>3. live' \subseteq live /\ index' \subseteq index /\ UNCHANGED <<valid, lastToken, origin, cleared>>
        /\ UNCHANGED mongo
    BY <1>5 DEF Rotate, Revoked, Outcome, redis
  <2>4. QED
    BY <1>0, <2>1, <2>2, <2>3, RedisStep DEF RedisType, Verified, Labels
<1>6. CASE Issue(r)
  <2>1. Verified
    BY <1>6, AtLabel DEF Issue, At, InSession
  <2>2. Goto(r, "idle", NoMem) \/ Finish(r)
    BY <1>6 DEF Issue, Outcome
  <2>3. lastToken < MaxTokens /\ (Issued(lastToken + 1, SessionOrigin(r)) \/ UNCHANGED redis)
        /\ UNCHANGED mongo
    BY <1>6 DEF Issue, Outcome, SessionOrigin
  <2>4. RedisType'
    BY <1>0, <2>3, SessionOriginType, IssuedType DEF RedisType, redis
  <2>5. QED
    BY <2>1, <2>2, <2>3, <2>4, FreshTypes, RedisStep DEF Labels, Accountless, InSession
<1>7. CASE FindSession(r)
  BY <1>0, <1>7, AtLabel, LocalStep DEF FindSession, At, InSession, Verified, Labels
<1>8. CASE FindUser(r)
  BY <1>0, <1>8, AtLabel, LocalStep DEF FindUser, At, InSession, Verified, Labels
<1>9. CASE FindByEmail(r)
  <2>1. CASE user = None
    BY <1>9, <2>1, FreshTypes, LocalStep DEF FindByEmail, Labels, Accountless, InSession
  <2>2. CASE user # None
    <3>1. user.password \in Nat
      BY <1>0, <2>2 DEF TypeOK, User
    <3>2. QED
      BY <1>9, <2>2, <3>1, NewMemType, LocalStep DEF FindByEmail, Labels, InSession
  <2>3. QED
    BY <2>1, <2>2
<1>10. QED
  BY <1>1, <1>2, <1>3, <1>4, <1>5, <1>6, <1>7, <1>8, <1>9

LEMMA NextKeepsAuthInv == AuthInv /\ [Next]_vars => AuthInv'
<1> SUFFICES ASSUME AuthInv, [Next]_vars PROVE AuthInv'
  OBVIOUS
<1>0. TypeOK /\ AccountInv
  BY DEF AuthInv
<1>1. ASSUME NEW r \in Requests, Request(r) PROVE AuthInv'
  BY <1>1, RequestKeepsAuthInv
<1>2. ASSUME NEW r \in Requests, Step(r) PROVE AuthInv'
  <2>1. CASE MongoError(r)
    BY <2>1, FreshTypes, LocalStep DEF MongoError, Labels, Accountless, InSession
  <2>2. QED
    BY <1>2, <2>1, LinkStepsKeepAuthInv, AccountStepsKeepAuthInv, SessionStepsKeepAuthInv
       DEF Step
<1>3. CASE ExpireLink
  <2>1. links' \in [Links -> Link \cup {None}]
    <3>1. PICK l \in Links :
              /\ links[l] # None
              /\ links' = [links EXCEPT ![l] = IF links[l].expired THEN None
                                               ELSE [links[l] EXCEPT !.expired = TRUE]]
      BY <1>3 DEF ExpireLink
    <3>2. [links[l] EXCEPT !.expired = TRUE] \in Link
      BY <1>0, <3>1 DEF TypeOK, Link
    <3>3. QED
      BY <1>0, <3>1, <3>2 DEF TypeOK
  <2>2. QED
    BY <1>0, <1>3, <2>1
       DEF ExpireLink, AuthInv, TypeOK, AccountInv, RequestInv, Verified, redis
<1>4. CASE ExpireToken
  BY <1>0, <1>4 DEF ExpireToken, AuthInv, TypeOK, AccountInv, RequestInv, Verified, mongo
<1>5. CASE Crash
  BY <1>0, <1>5, FreshTypes
     DEF Crash, AuthInv, TypeOK, AccountInv, RequestInv, Verified, mongo, redis, Labels,
         Accountless, InSession
<1>6. CASE UNCHANGED vars
  BY <1>0, <1>6
     DEF vars, AuthInv, TypeOK, AccountInv, RequestInv, Verified, mongo, redis
<1>7. QED
  BY <1>1, <1>2, <1>3, <1>4, <1>5, <1>6 DEF Next

LEMMA AuthInvHolds == Spec => []AuthInv
BY InitAuthInv, NextKeepsAuthInv, PTL DEF Spec

\* Every variable has its type, in every behaviour.
THEOREM TypeCorrect == Spec => []TypeOK
<1>1. AuthInv => TypeOK
  BY DEF AuthInv
<1>2. QED
  BY <1>1, AuthInvHolds, PTL

\* No session is issued, and none is left, for an account whose address is not
\* verified, however login, refresh, Google, verification and reset overlap.
THEOREM SessionsAreOfVerified == Spec => []SessionsNeedVerifiedAccount
<1>1. AuthInv => SessionsNeedVerifiedAccount
  BY DEF AuthInv, AccountInv, Verified, SessionsNeedVerifiedAccount
<1>2. QED
  BY <1>1, AuthInvHolds, PTL

----------------------------------------------------------------------------
(* The writers of the account *)

\* The writers of the account only add to it: none of them, not even the one
\* that saves a document it loaded earlier, takes back what another has done.
THEOREM AccountOnlyGains == Spec => AccountKeepsItsData
<1> DEFINE Gains == user # None =>
                        /\ user' # None
                        /\ user.verified => user'.verified
                        /\ user.google => user'.google
                        /\ user'.password >= user.password
<1>1. AuthInv /\ [Next]_vars => Gains
  <2> SUFFICES ASSUME AuthInv, [Next]_vars, user # None PROVE Gains
    OBVIOUS
  <2>1. user \in User
    BY DEF AuthInv, TypeOK
  <2>2. CASE UNCHANGED user
    BY <2>1, <2>2 DEF User
  <2>3. ASSUME NEW r \in Requests, VerifyUser(r) \/ SetPassword(r) \/ LinkGoogle(r)
        PROVE  Gains
    <3>1. user' \in User
      <4>1. CASE VerifyUser(r)
        BY <2>1, <4>1 DEF VerifyUser, User
      <4>2. CASE SetPassword(r)
        BY <2>1, <4>2 DEF SetPassword, User
      <4>3. CASE LinkGoogle(r)
        BY <2>1, <4>3 DEF LinkGoogle, Linked, User
      <4>4. QED
        BY <2>3, <4>1, <4>2, <4>3
    <3>2. user' # None
      BY <3>1, FreshTypes
    <3>3. CASE VerifyUser(r)
      BY <2>1, <3>2, <3>3 DEF VerifyUser, User
    <3>4. CASE SetPassword(r)
      BY <2>1, <3>2, <3>4 DEF SetPassword, User
    <3>5. CASE LinkGoogle(r)
      BY <2>1, <3>2, <3>5 DEF LinkGoogle, Linked, User
    <3>6. QED
      BY <2>3, <3>3, <3>4, <3>5
  <2>4. ASSUME NEW r \in Requests, Request(r) PROVE UNCHANGED user
    BY <2>4 DEF Request, BeginRegister, BeginResend, BeginForgot, BeginConsume, BeginLogin,
                BeginRefresh, BeginLogout, BeginGoogle, mongo
  <2>5. ASSUME NEW r \in Requests, Step(r),
               ~VerifyUser(r), ~SetPassword(r), ~LinkGoogle(r)
        PROVE  UNCHANGED user
    BY <2>5 DEF Step, CreateUser, ClearLinks, CreateLink, SendMail, MarkUsed, ReadIndex,
                DeleteKeys, DeleteIndex, Issue, FindSession, Rotate, FindUser, Revoke,
                FindByEmail, CreateGoogle, MongoError, mongo
  <2>6. CASE ExpireLink \/ ExpireToken \/ Crash \/ UNCHANGED vars
    BY <2>2, <2>6 DEF ExpireLink, ExpireToken, Crash, vars, mongo
  <2>7. QED
    BY <2>2, <2>3, <2>4, <2>5, <2>6 DEF Next
<1>2. AuthInv /\ [Next]_vars => [Gains]_vars
  BY <1>1
<1>3. QED
  BY <1>2, AuthInvHolds, PTL DEF Spec, AccountKeepsItsData

----------------------------------------------------------------------------
(* Revocation.  A session escapes a reset when its token is stored while   *)
(* the reset is between reading the index and deleting it, or when a       *)
(* request that holds it goes on after the reset; in no other way.         *)

Given == 1..lastToken

\* Steps that store no token.
NoneStored ==
    live' \subseteq live /\ valid' \subseteq valid /\ UNCHANGED <<lastToken, origin>>

OthersStay(r) == \A q \in Requests \ {r} : pc'[q] = pc[q] /\ mem'[q] = mem[q]

Revoking == {"delete_keys", "delete_index"}

\* The first overlap: a token stored within a revocation.
Apart == lastToken' # lastToken => \A r \in Requests : pc[r] \notin Revoking
StoredApart == [][Apart]_vars

\* What is left for a revocation to do at each of its steps.
RevocationInv ==
    /\ IndexCoversLive
    /\ live \subseteq valid
    /\ \A r \in Requests :
          /\ pc[r] = "delete_keys" => live \subseteq mem[r].jtis
          /\ pc[r] = "delete_index" => live = {}

\* A step of r after which no key is new and none is out of reach.
LEMMA RevocationKept ==
    ASSUME AuthInv, RevocationInv, NEW r \in Requests, NEW label \in Labels, NEW m \in Mem,
           Goto(r, label, m) \/ Finish(r),
           live' \subseteq live, live' \subseteq index', live' \subseteq valid',
           label = "delete_keys" => live' \subseteq m.jtis,
           label = "delete_index" => live' = {}
    PROVE  RevocationInv'
<1>1. CASE Goto(r, label, m)
  BY <1>1, GotoType DEF AuthInv, RevocationInv, IndexCoversLive
<1>2. CASE Finish(r)
  BY <1>2, FinishType DEF AuthInv, RevocationInv, IndexCoversLive
<1>3. QED
  BY <1>1, <1>2

\* The steps that neither call Redis nor lead into a revocation.
LEMMA QuietSteps ==
    ASSUME AuthInv, NEW r \in Requests,
           \/ Request(r) \/ CreateUser(r) \/ ClearLinks(r) \/ CreateLink(r) \/ SendMail(r)
           \/ MarkUsed(r) \/ VerifyUser(r) \/ SetPassword(r) \/ FindSession(r)
           \/ FindUser(r) \/ FindByEmail(r) \/ LinkGoogle(r) \/ CreateGoogle(r) \/ MongoError(r)
    PROVE  /\ UNCHANGED redis
           /\ pc'[r] \notin Revoking \/ UNCHANGED <<pc, mem>>
           /\ \A q \in Requests \ {r} : pc'[q] = pc[q] /\ mem'[q] = mem[q]
<1>1. UNCHANGED redis
  BY DEF Request, BeginRegister, BeginResend, BeginForgot, BeginConsume, BeginLogin,
         BeginRefresh, BeginLogout, BeginGoogle, CreateUser, ClearLinks, CreateLink, SendMail,
         MarkUsed, VerifyUser, SetPassword, FindSession, FindUser, FindByEmail, LinkGoogle,
         CreateGoogle, MongoError
<1>2. /\ pc'[r] \notin Revoking \/ UNCHANGED <<pc, mem>>
      /\ \A q \in Requests \ {r} : pc'[q] = pc[q] /\ mem'[q] = mem[q]
  <2>1. CASE Request(r)
    BY <2>1 DEF Request, BeginRegister, BeginResend, BeginForgot, BeginConsume, BeginLogin,
                BeginRefresh, BeginLogout, BeginGoogle, Goto, Revoking, AuthInv, TypeOK
  <2>2. CASE \/ CreateUser(r) \/ ClearLinks(r) \/ CreateLink(r) \/ SendMail(r)
             \/ MarkUsed(r) \/ VerifyUser(r) \/ SetPassword(r)
    BY <2>2 DEF CreateUser, ClearLinks, CreateLink, SendMail, MarkUsed, VerifyUser,
                SetPassword, Finish, Goto, Revoking, AuthInv, TypeOK
  <2>3. CASE \/ FindSession(r) \/ FindUser(r) \/ FindByEmail(r) \/ LinkGoogle(r)
             \/ CreateGoogle(r) \/ MongoError(r)
    BY <2>3 DEF FindSession, FindUser, FindByEmail, LinkGoogle, CreateGoogle, MongoError,
                Finish, Goto, Revoking, AuthInv, TypeOK
  <2>4. QED
    BY <2>1, <2>2, <2>3
<1>3. QED
  BY <1>1, <1>2

\* A call to Redis by r, whose effect takes keys away or stores none.
LEMMA RedisStepsKeepRevocation ==
    ASSUME AuthInv, RevocationInv, NEW r \in Requests,
           \/ ReadIndex(r) \/ DeleteKeys(r) \/ DeleteIndex(r) \/ Rotate(r) \/ Revoke(r)
    PROVE  RevocationInv' /\ live' \subseteq live
<1>0. /\ mem[r] \in Mem /\ NoMem \in Mem
      /\ live \subseteq index /\ live \subseteq valid /\ index \subseteq Tokens
  BY MemType, FreshTypes DEF AuthInv, TypeOK, RevocationInv, IndexCoversLive
<1>1. CASE ReadIndex(r)
  <2> DEFINE label == IF index = {} THEN "delete_index" ELSE "delete_keys"
             m == [mem[r] EXCEPT !.jtis = index]
  <2>1. label \in Labels /\ m \in Mem /\ m.jtis = index
    BY <1>0 DEF Labels, Mem
  <2>2. Goto(r, label, m) \/ Finish(r)
    BY <1>1 DEF ReadIndex, Outcome
  <2>3. UNCHANGED redis
    BY <1>1 DEF ReadIndex, Outcome
  <2>4. label = "delete_index" => index = {}
    OBVIOUS
  <2> HIDE DEF label, m
  <2>5. QED
    BY <1>0, <2>1, <2>2, <2>3, <2>4, RevocationKept DEF redis
<1>2. CASE DeleteKeys(r)
  <2>1. CASE UNCHANGED redis /\ Finish(r)
    BY <1>0, <2>1, RevocationKept DEF redis, Labels
  <2>2. CASE /\ live' = live \ mem[r].jtis
             /\ UNCHANGED <<index, valid, lastToken, origin, cleared>>
             /\ Goto(r, "delete_index", mem[r]) \/ Finish(r)
    <3>1. live' = {}
      BY <1>2, <2>2 DEF DeleteKeys, At, RevocationInv
    <3>2. QED
      BY <1>0, <2>2, <3>1, RevocationKept DEF Labels
  <2>3. QED
    BY <1>2, <2>1, <2>2 DEF DeleteKeys, Outcome
<1>3. CASE DeleteIndex(r)
  <2>1. live = {}
    BY <1>3 DEF DeleteIndex, At, RevocationInv
  <2>2. UNCHANGED live /\ (Goto(r, "idle", NoMem) \/ Finish(r))
    BY <1>3 DEF DeleteIndex, Outcome, redis
  <2>3. QED
    BY <1>0, <2>1, <2>2, RevocationKept DEF Labels
<1>4. CASE Rotate(r)
  <2>1. /\ Goto(r, "find_user", mem[r]) \/ Finish(r)
        /\ live' \subseteq live /\ live' \subseteq index' /\ live' \subseteq valid'
    BY <1>0, <1>4 DEF Rotate, Outcome, Revoked, redis
  <2>2. QED
    BY <1>0, <2>1, RevocationKept DEF Labels
<1>5. CASE Revoke(r)
  <2>1. /\ Goto(r, "idle", NoMem) \/ Finish(r)
        /\ live' \subseteq live /\ live' \subseteq index' /\ live' \subseteq valid'
    BY <1>0, <1>5 DEF Revoke, Outcome, Revoked, redis
  <2>2. QED
    BY <1>0, <2>1, RevocationKept DEF Labels
<1>6. QED
  BY <1>1, <1>2, <1>3, <1>4, <1>5

LEMMA IssueKeepsRevocation ==
    ASSUME AuthInv, RevocationInv, Apart, NEW r \in Requests, Issue(r)
    PROVE  RevocationInv' /\ (live' \subseteq live \/ lastToken' # lastToken)
<1>0. NoMem \in Mem /\ lastToken \in Nat
  BY FreshTypes DEF AuthInv, TypeOK
<1>1. Goto(r, "idle", NoMem) \/ Finish(r)
  BY DEF Issue, Outcome
<1>2. CASE UNCHANGED redis
  BY <1>0, <1>1, <1>2, RevocationKept DEF RevocationInv, IndexCoversLive, redis, Labels
<1>3. CASE Issued(lastToken + 1, SessionOrigin(r))
  <2>1. \A q \in Requests : pc[q] \notin Revoking
    BY <1>0, <1>3 DEF Apart, Issued
  <2>2. \A q \in Requests : pc'[q] \notin Revoking
    BY <1>0, <1>1, <2>1, GotoType, FinishType DEF AuthInv, Labels, Revoking
  <2>3. QED
    BY <1>0, <1>3, <2>2 DEF Issued, RevocationInv, IndexCoversLive, Revoking
<1>4. QED
  BY <1>2, <1>3 DEF Issue, Outcome, SessionOrigin

LEMMA NextKeepsRevocation ==
    ASSUME AuthInv, RevocationInv, [Next]_vars, Apart
    PROVE  RevocationInv' /\ (live' \subseteq live \/ lastToken' # lastToken)
<1>1. ASSUME NEW r \in Requests, Request(r) \/ Step(r)
      PROVE  RevocationInv' /\ (live' \subseteq live \/ lastToken' # lastToken)
  <2>1. CASE \/ ReadIndex(r) \/ DeleteKeys(r) \/ DeleteIndex(r) \/ Rotate(r) \/ Revoke(r)
    BY <2>1, RedisStepsKeepRevocation
  <2>2. CASE Issue(r)
    BY <2>2, IssueKeepsRevocation
  <2>3. CASE /\ UNCHANGED redis
             /\ pc'[r] \notin Revoking \/ UNCHANGED <<pc, mem>>
             /\ \A q \in Requests \ {r} : pc'[q] = pc[q] /\ mem'[q] = mem[q]
    BY <2>3 DEF RevocationInv, IndexCoversLive, Revoking, redis
  <2>4. QED
    BY <1>1, <2>1, <2>2, <2>3, QuietSteps DEF Step
<1>2. CASE ExpireToken
  BY <1>2 DEF ExpireToken, RevocationInv, IndexCoversLive
<1>3. CASE ExpireLink \/ Crash \/ UNCHANGED vars
  BY <1>3 DEF ExpireLink, Crash, vars, redis, RevocationInv, IndexCoversLive
<1>4. QED
  BY <1>1, <1>2, <1>3 DEF Next

LEMMA RevocationInvHolds == Spec /\ StoredApart => []RevocationInv
<1>1. Init => RevocationInv
  BY DEF Init, RevocationInv, IndexCoversLive
<1>2. AuthInv /\ RevocationInv /\ [Next]_vars /\ [Apart]_vars => RevocationInv'
  <2>1. CASE UNCHANGED vars
    BY <2>1 DEF vars, redis, RevocationInv, IndexCoversLive
  <2>2. QED
    BY <2>1, NextKeepsRevocation
<1>3. QED
  BY <1>1, <1>2, AuthInvHolds, PTL DEF Spec, StoredApart

\* As long as no token is stored within a revocation, every token that is
\* accepted is in the index of its user, whatever calls fail or are carried out
\* without an answer, and wherever the process is killed.
THEOREM RevocationFindsAll == Spec /\ StoredApart => []IndexCoversLive
<1>1. RevocationInv => IndexCoversLive
  BY DEF RevocationInv
<1>2. QED
  BY <1>1, RevocationInvHolds, PTL

\* The second: a request that found its session or account before a reset, and
\* has its token still to store when the reset has revoked the others.
Carrying == {"rotate", "find_user", "link_google", "issue"}
Carried ==
    cleared' # cleared =>
        \A r \in Requests : pc[r] \in Carrying => mem[r].origin.since >= cleared'
CarriedApart == [][Carried]_vars

\* A request that holds a session holds one of a password that is not revoked.
ClearedRequestInv(label, m) ==
    /\ label \in Carrying => m.origin.since >= cleared
    /\ label = "find_session" => m.token \in Given /\ m.origin = origin[m.token]

ClearedInv ==
    /\ ResetRevokesAll
    /\ valid \subseteq Given
    /\ cleared # 0 => user # None /\ cleared <= user.password
    /\ \A r \in Requests : ClearedRequestInv(pc[r], mem[r])

\* The password in force is never one that was revoked before.
PasswordKept ==
    user # None => user' # None /\ user'.password \in Nat /\ user'.password >= user.password

LEMMA PasswordsGrow ==
    ASSUME AuthInv, NEW r \in Requests, Request(r) \/ Step(r)
    PROVE  PasswordKept
<1>1. user # None => user \in User
  BY DEF AuthInv, TypeOK
<1>2. CASE UNCHANGED user
  BY <1>1, <1>2 DEF PasswordKept, User
<1>3. CASE VerifyUser(r) \/ SetPassword(r) \/ LinkGoogle(r)
  <2>1. user \in User
    BY <1>1, <1>3, AtLabel DEF VerifyUser, SetPassword, LinkGoogle, At, Accountless
  <2>2. user' \in User
    <3>1. CASE VerifyUser(r)
      BY <2>1, <3>1 DEF VerifyUser, User
    <3>2. CASE SetPassword(r)
      BY <2>1, <3>2 DEF SetPassword, User
    <3>3. CASE LinkGoogle(r)
      BY <2>1, <3>3 DEF LinkGoogle, Linked, User
    <3>4. QED
      BY <1>3, <3>1, <3>2, <3>3
  <2>3. user'.password \in {user.password, user.password + 1}
    BY <1>3, <2>1 DEF VerifyUser, SetPassword, LinkGoogle, Linked, User
  <2>4. user.password \in Nat
    BY <2>1 DEF User
  <2>5. QED
    BY <2>2, <2>3, <2>4, FreshTypes DEF PasswordKept
<1>4. CASE CreateUser(r) \/ CreateGoogle(r)
  BY <1>2, <1>4 DEF CreateUser, CreateGoogle, PasswordKept
<1>5. CASE Request(r)
  BY <1>2, <1>5 DEF Request, BeginRegister, BeginResend, BeginForgot, BeginConsume, BeginLogin,
                    BeginRefresh, BeginLogout, BeginGoogle, mongo
<1>6. QED
  BY <1>2, <1>3, <1>4, <1>5
     DEF Step, ClearLinks, CreateLink, SendMail, MarkUsed, ReadIndex, DeleteKeys, DeleteIndex,
         Issue, FindSession, Rotate, FindUser, Revoke, FindByEmail, MongoError, mongo

\* A step of r that stores no token and ends no revocation.
LEMMA ClearedKept ==
    ASSUME AuthInv, ClearedInv, NEW r \in Requests, PasswordKept, NoneStored, OthersStay(r),
           UNCHANGED cleared, ClearedRequestInv(pc[r], mem[r])'
    PROVE  ClearedInv'
<1>1. ASSUME NEW q \in Requests PROVE ClearedRequestInv(pc[q], mem[q])'
  BY DEF ClearedInv, ClearedRequestInv, OthersStay, NoneStored, Given
<1>2. cleared' # 0 => user' # None /\ cleared' <= user'.password
  <2>1. user # None => user \in User /\ user.password \in Nat
    BY DEF AuthInv, TypeOK, User
  <2>2. QED
    BY <2>1 DEF ClearedInv, PasswordKept, AuthInv, TypeOK
<1>3. QED
  BY <1>1, <1>2 DEF ClearedInv, ResetRevokesAll, NoneStored, Given

\* The steps that lead nowhere near the storing of a token.
LEMMA UncarriedSteps ==
    ASSUME AuthInv, ClearedInv, NEW r \in Requests, PasswordKept,
           \/ BeginRegister(r) \/ BeginResend(r) \/ BeginForgot(r) \/ BeginConsume(r)
           \/ BeginLogout(r) \/ CreateUser(r) \/ ClearLinks(r) \/ CreateLink(r) \/ SendMail(r)
           \/ MarkUsed(r) \/ VerifyUser(r) \/ SetPassword(r) \/ MongoError(r)
           \/ ReadIndex(r) \/ DeleteKeys(r) \/ Revoke(r)
    PROVE  ClearedInv'
<1>1. NoneStored /\ UNCHANGED cleared
  <2>1. CASE ReadIndex(r) \/ DeleteKeys(r) \/ Revoke(r)
    BY <2>1 DEF ReadIndex, DeleteKeys, Revoke, Revoked, Outcome, redis, NoneStored
  <2>2. CASE UNCHANGED redis
    BY <2>2 DEF redis, NoneStored
  <2>3. QED
    BY <2>1, <2>2 DEF BeginRegister, BeginResend, BeginForgot, BeginConsume, BeginLogout,
       CreateUser, ClearLinks, CreateLink, SendMail, MarkUsed, VerifyUser, SetPassword, MongoError
<1>2. /\ OthersStay(r)
      /\ pc'[r] \notin Carrying \cup {"find_session"} \/ UNCHANGED <<pc, mem>>
  BY DEF BeginRegister, BeginResend, BeginForgot, BeginConsume, BeginLogout, CreateUser,
     ClearLinks, CreateLink, SendMail, MarkUsed, VerifyUser, SetPassword, MongoError, ReadIndex,
     DeleteKeys, Revoke, Outcome, Finish, Goto, OthersStay, Carrying, AuthInv, TypeOK
<1>3. ClearedRequestInv(pc[r], mem[r])'
  BY <1>1, <1>2 DEF ClearedInv, ClearedRequestInv, NoneStored, Given
<1>4. QED
  BY <1>1, <1>2, <1>3, ClearedKept

\* A request that begins at the password in force.
LEMMA AtPassword ==
    ASSUME AuthInv, ClearedInv, user # None
    PROVE  /\ [NoMem EXCEPT !.origin.since = user.password] \in Mem
           /\ [NoMem EXCEPT !.origin.since = user.password].origin.since >= cleared
<1>1. user.password \in Nat /\ cleared \in Nat /\ cleared <= user.password
  BY DEF AuthInv, TypeOK, User, ClearedInv
<1>2. QED
  BY <1>1, NewMemType DEF NoMem, NoOrigin

\* The steps of a session that store nothing.
LEMMA CarryingSteps ==
    ASSUME AuthInv, ClearedInv, NEW r \in Requests, PasswordKept,
           \/ BeginLogin(r) \/ BeginRefresh(r) \/ BeginGoogle(r) \/ FindSession(r)
           \/ Rotate(r) \/ FindUser(r) \/ FindByEmail(r) \/ LinkGoogle(r) \/ CreateGoogle(r)
    PROVE  ClearedInv'
<1> DEFINE started == [NoMem EXCEPT !.origin.since = user.password]
<1>0. /\ TypeOK /\ ResetRevokesAll /\ valid \subseteq Given
      /\ ClearedRequestInv(pc[r], mem[r])
      /\ mem[r] \in Mem /\ mem[r].origin \in Origin /\ NoMem \in Mem
  BY MemType, FreshTypes DEF AuthInv, ClearedInv
<1>1. NoneStored /\ UNCHANGED cleared
  BY DEF BeginLogin, BeginRefresh, BeginGoogle, FindSession, Rotate, Revoked, Outcome, FindUser,
     FindByEmail, LinkGoogle, CreateGoogle, redis, NoneStored
<1>2. SUFFICES ClearedRequestInv(pc[r], mem[r])' /\ OthersStay(r)
  BY <1>1, ClearedKept
<1>3. ASSUME NEW label \in Labels, NEW m \in Mem, Goto(r, label, m),
             label \in Carrying => m.origin.since >= cleared,
             label = "find_session" => m.token \in Given /\ m.origin = origin[m.token]
      PROVE  ClearedRequestInv(pc[r], mem[r])' /\ OthersStay(r)
  <2>1. /\ pc'[r] = label /\ mem'[r] = IF label = "idle" THEN NoMem ELSE m
        /\ OthersStay(r)
    BY <1>0, <1>3, GotoType DEF OthersStay
  <2>2. QED
    BY <1>1, <1>3, <2>1 DEF ClearedRequestInv, Carrying, NoneStored, Given
<1>4. ASSUME Finish(r) PROVE ClearedRequestInv(pc[r], mem[r])' /\ OthersStay(r)
  BY <1>0, <1>4, FinishType DEF ClearedRequestInv, Carrying, OthersStay
<1>5. CASE BeginLogin(r)
  <2>1. started \in Mem /\ started.origin.since >= cleared
    BY <1>5, AtPassword DEF BeginLogin, CanLogin
  <2>2. Goto(r, "issue", started)
    BY <1>5 DEF BeginLogin
  <2> HIDE DEF started
  <2>3. QED
    BY <1>3, <2>1, <2>2 DEF Labels
<1>6. CASE BeginRefresh(r)
  <2>1. PICK j \in valid :
            Goto(r, "find_session", [NoMem EXCEPT !.token = j, !.origin = origin[j]])
    BY <1>6 DEF BeginRefresh
  <2> DEFINE m == [NoMem EXCEPT !.token = j, !.origin = origin[j]]
  <2>2. j \in Tokens /\ origin[j] \in Origin
    BY <1>0 DEF TypeOK
  <2>3. m \in Mem /\ m.token = j /\ m.origin = origin[j]
    BY <2>2, NewMemType DEF NoMem
  <2>4. Goto(r, "find_session", m)
    BY <2>1
  <2> HIDE DEF m
  <2>5. QED
    BY <1>0, <1>3, <2>3, <2>4 DEF Labels, Carrying
<1>7. CASE BeginGoogle(r)
  <2>1. CASE user # None /\ user.google
    <3>1. started \in Mem /\ started.origin.since >= cleared
      BY <2>1, AtPassword
    <3>2. Goto(r, "issue", started)
      BY <1>7, <2>1 DEF BeginGoogle
    <3> HIDE DEF started
    <3>3. QED
      BY <1>3, <3>1, <3>2 DEF Labels
  <2>2. CASE ~(user # None /\ user.google)
    BY <1>0, <1>3, <1>7, <2>2 DEF BeginGoogle, Labels, Carrying
  <2>3. QED
    BY <2>1, <2>2
<1>8. CASE FindSession(r)
  <2>1. CASE mem[r].token \in live /\ Goto(r, "rotate", mem[r])
    <3>1. mem[r].origin.since >= cleared
      BY <1>0, <1>8, <2>1 DEF FindSession, At, ClearedRequestInv, ResetRevokesAll
    <3>2. QED
      BY <1>0, <1>3, <2>1, <3>1 DEF Labels
  <2>2. QED
    BY <1>4, <1>8, <2>1 DEF FindSession
<1>9. CASE Rotate(r)
  BY <1>0, <1>3, <1>4, <1>9 DEF Rotate, Outcome, At, ClearedRequestInv, Labels, Carrying
<1>10. CASE FindUser(r)
  BY <1>0, <1>3, <1>10 DEF FindUser, At, ClearedRequestInv, Labels, Carrying
<1>11. CASE FindByEmail(r)
  <2>1. CASE user = None
    BY <1>0, <1>3, <1>11, <2>1 DEF FindByEmail, Labels, Carrying
  <2>2. CASE user # None
    <3>1. started \in Mem /\ started.origin.since >= cleared
      BY <2>2, AtPassword
    <3>2. Goto(r, "link_google", started)
      BY <1>11, <2>2 DEF FindByEmail
    <3> HIDE DEF started
    <3>3. QED
      BY <1>3, <3>1, <3>2 DEF Labels
  <2>3. QED
    BY <2>1, <2>2
<1>12. CASE LinkGoogle(r)
  BY <1>0, <1>3, <1>12 DEF LinkGoogle, At, ClearedRequestInv, Labels, Carrying
<1>13. CASE CreateGoogle(r)
  <2>1. CASE user = None /\ Goto(r, "issue", mem[r])
    <3>1. cleared = 0 /\ mem[r].origin.since \in Nat
      BY <1>0, <2>1 DEF ClearedInv, Origin
    <3>2. QED
      BY <1>0, <1>3, <2>1, <3>1 DEF Labels
  <2>2. QED
    BY <1>4, <1>13, <2>1 DEF CreateGoogle
<1>14. QED
  BY <1>5, <1>6, <1>7, <1>8, <1>9, <1>10, <1>11, <1>12, <1>13

\* The end of a revocation, which no token is left to see.
LEMMA DeleteIndexClears ==
    ASSUME AuthInv, RevocationInv, ClearedInv, Carried, NEW r \in Requests, PasswordKept,
           DeleteIndex(r)
    PROVE  ClearedInv'
<1>0. TypeOK /\ OthersStay(r) /\ pc'[r] = "idle" /\ UNCHANGED user
  BY DEF DeleteIndex, Outcome, Finish, Goto, OthersStay, AuthInv, TypeOK, mongo
<1>1. NoneStored /\ live = {} /\ live' = {}
  BY DEF DeleteIndex, Outcome, redis, NoneStored, RevocationInv, At
<1>2. CASE UNCHANGED cleared
  <2>1. ClearedRequestInv(pc[r], mem[r])'
    BY <1>0 DEF ClearedRequestInv, Carrying
  <2>2. QED
    BY <1>0, <1>1, <1>2, <2>1, ClearedKept
<1>3. CASE cleared' # cleared
  <2>1. cleared' = user.password /\ user # None /\ user.password \in Nat
    <3>1. user # None /\ user \in User
      BY AtLabel DEF DeleteIndex, At, Accountless
    <3>2. QED
      BY <1>3, <3>1 DEF DeleteIndex, Outcome, redis, User
  <2>2. ASSUME NEW q \in Requests PROVE ClearedRequestInv(pc[q], mem[q])'
    BY <1>0, <1>1, <1>3
       DEF Carried, ClearedInv, ClearedRequestInv, OthersStay, NoneStored, Given, Carrying
  <2>3. QED
    BY <1>0, <1>1, <2>1, <2>2 DEF ClearedInv, ResetRevokesAll, NoneStored, Given
<1>4. QED
  BY <1>2, <1>3

\* The token that is stored is of a password that is not revoked.
LEMMA IssueKeepsCleared ==
    ASSUME AuthInv, ClearedInv, NEW r \in Requests, PasswordKept, Issue(r)
    PROVE  ClearedInv'
<1> DEFINE j == lastToken + 1
<1>0. /\ TypeOK /\ lastToken \in Nat /\ lastToken < MaxTokens /\ UNCHANGED user
      /\ pc'[r] = "idle" /\ OthersStay(r)
      /\ mem[r].origin.since >= cleared
  BY DEF Issue, Outcome, Finish, Goto, OthersStay, At, AuthInv, TypeOK, ClearedInv,
         ClearedRequestInv, Carrying, mongo
<1>1. CASE UNCHANGED redis
  <2>1. ClearedRequestInv(pc[r], mem[r])' /\ NoneStored /\ UNCHANGED cleared
    BY <1>0, <1>1 DEF ClearedRequestInv, Carrying, NoneStored, redis
  <2>2. QED
    BY <1>0, <2>1, ClearedKept
<1>2. CASE Issued(j, SessionOrigin(r))
  <2>1. /\ lastToken' = j /\ live' = live \cup {j} /\ valid' = valid \cup {j}
        /\ j \in Tokens /\ j \notin Given /\ Given' = Given \cup {j}
        /\ origin'[j] = SessionOrigin(r) /\ SessionOrigin(r).since >= cleared
        /\ \A i \in Given : origin'[i] = origin[i]
        /\ cleared' = cleared
    <3>1. j \in Tokens /\ Given \subseteq Tokens
      BY <1>0, ConstantsAssumption DEF Tokens, Given
    <3>2. QED
      BY <1>0, <1>2, <3>1, SessionOriginType DEF Issued, TypeOK, Given
  <2> HIDE DEF j
  <2>2. ASSUME NEW q \in Requests PROVE ClearedRequestInv(pc[q], mem[q])'
    BY <1>0, <2>1 DEF ClearedInv, ClearedRequestInv, OthersStay, Carrying
  <2>3. live \subseteq Given
    BY <1>0 DEF ClearedInv, TypeOK
  <2>4. ResetRevokesAll' /\ valid' \subseteq Given'
    BY <2>1, <2>3 DEF ClearedInv, ResetRevokesAll
  <2>5. QED
    BY <1>0, <2>1, <2>2, <2>4 DEF ClearedInv
<1>3. QED
  BY <1>1, <1>2 DEF Issue, Outcome, SessionOrigin

LEMMA NextKeepsCleared ==
    ASSUME AuthInv, RevocationInv, ClearedInv, [Next]_vars, Carried
    PROVE  ClearedInv'
<1>1. ASSUME NEW r \in Requests, Request(r) \/ Step(r) PROVE ClearedInv'
  BY <1>1, PasswordsGrow, UncarriedSteps, CarryingSteps, DeleteIndexClears, IssueKeepsCleared
     DEF Request, Step
<1>2. CASE ExpireToken
  BY <1>2 DEF ExpireToken, mongo, ClearedInv, ResetRevokesAll, ClearedRequestInv, Given
<1>3. CASE Crash
  BY <1>3 DEF Crash, mongo, redis, ClearedInv, ResetRevokesAll, ClearedRequestInv, Given, Carrying
<1>4. CASE ExpireLink \/ UNCHANGED vars
  BY <1>4 DEF ExpireLink, vars, mongo, redis, ClearedInv, ResetRevokesAll, ClearedRequestInv,
              Given
<1>5. QED
  BY <1>1, <1>2, <1>3, <1>4 DEF Next

\* As long as no token is stored within a revocation, and none after one for a
\* request that found its session or account before it, a reset ends every
\* session that began with an earlier password, for good, whatever calls fail
\* and wherever the process is killed; so these two overlaps, one of which the
\* run auth_reset finds, are the only ways to escape it
\* (auth.service.ts:124-134, token.service.ts:61-110).
THEOREM ResetIsComplete == Spec /\ StoredApart /\ CarriedApart => []ResetRevokesAll
<1>1. Init => ClearedInv
  BY DEF Init, ClearedInv, ResetRevokesAll, ClearedRequestInv, Carrying
<1>2. AuthInv /\ RevocationInv /\ ClearedInv /\ [Next]_vars /\ [Carried]_vars => ClearedInv'
  <2>1. CASE UNCHANGED vars
    BY <2>1 DEF vars, mongo, redis, ClearedInv, ResetRevokesAll, ClearedRequestInv, Given
  <2>2. QED
    BY <2>1, NextKeepsCleared
<1>3. ClearedInv => ResetRevokesAll
  BY DEF ClearedInv
<1>4. QED
  BY <1>1, <1>2, <1>3, AuthInvHolds, RevocationInvHolds, PTL DEF Spec, CarriedApart

----------------------------------------------------------------------------
(* One token per session *)

\* The client's part of the protocol: it does not send the same token in two
\* refreshes at a time (src/docs/AUTH-LEARNING.md:365).
SingleFlight ==
    \A q, r \in Requests :
        At(q, "rotate") /\ At(r, "rotate") /\ mem[q].token = mem[r].token => q = r

\* A request that holds a session has taken its token away, or is about to.
Holding == {"rotate", "find_user", "issue"}
SessionLabels == Holding \cup {"find_session", "link_google", "create_google"}

\* What a request that is at a label with locals m relies on.
SessionRequestInv(label, m) ==
    /\ label \in {"find_session", "rotate"} =>
          m.token \in Given /\ m.origin.session = origin[m.token].session
    /\ label \in {"find_session", "rotate", "find_user"} => m.origin.session \in Given
    /\ label = "issue" => m.origin.session \in Given \cup {0}
    /\ label \in {"link_google", "create_google"} => m.origin.session = 0
    /\ label = "rotate" =>
          \A j \in live : origin[j].session = m.origin.session => j = m.token
    /\ label \in {"find_user", "issue"} =>
          \A j \in live : origin[j].session # m.origin.session

HeldOnce ==
    \A q, r \in Requests :
        /\ pc[q] \in Holding /\ pc[r] \in Holding
        /\ mem[q].origin.session = mem[r].origin.session /\ mem[r].origin.session # 0
        => q = r

SessionInv ==
    /\ OneTokenPerSession
    /\ live \subseteq valid /\ valid \subseteq Given
    /\ \A j \in Given : origin[j].session \in Given
    /\ \A r \in Requests : SessionRequestInv(pc[r], mem[r])
    /\ HeldOnce

\* Such a step of r keeps what the others rely on; what is left is r's own part.
LEMMA SessionKept ==
    ASSUME AuthInv, SessionInv, NEW r \in Requests, NoneStored, OthersStay(r),
           live' \subseteq valid',
           SessionRequestInv(pc[r], mem[r])',
           \A q \in Requests \ {r} :
               /\ pc[q] \in Holding /\ pc'[r] \in Holding
               /\ mem[q].origin.session = mem'[r].origin.session
               => mem[q].origin.session = 0
    PROVE  SessionInv'
<1>1. ASSUME NEW q \in Requests \ {r} PROVE SessionRequestInv(pc[q], mem[q])'
  <2>1. SessionRequestInv(pc[q], mem[q])
    BY DEF SessionInv
  <2>2. QED
    BY <2>1 DEF NoneStored, OthersStay, SessionRequestInv, Given
<1>2. HeldOnce'
  BY DEF SessionInv, HeldOnce, OthersStay
<1>3. OneTokenPerSession' /\ valid' \subseteq Given'
      /\ \A j \in Given' : origin'[j].session \in Given'
  BY DEF NoneStored, SessionInv, OneTokenPerSession, Given
<1>4. QED
  BY <1>1, <1>2, <1>3 DEF SessionInv

\* The steps outside of sessions.
LEMMA OutsideSteps ==
    ASSUME AuthInv, SessionInv, NEW r \in Requests,
           \/ BeginRegister(r) \/ BeginResend(r) \/ BeginForgot(r) \/ BeginConsume(r)
           \/ BeginLogout(r) \/ CreateUser(r) \/ ClearLinks(r) \/ CreateLink(r) \/ SendMail(r)
           \/ MarkUsed(r) \/ VerifyUser(r) \/ SetPassword(r) \/ MongoError(r)
           \/ ReadIndex(r) \/ DeleteKeys(r) \/ DeleteIndex(r) \/ Revoke(r)
    PROVE  SessionInv'
<1>0. live \subseteq valid
  BY DEF SessionInv
<1>1. NoneStored /\ live' \subseteq valid'
  <2>1. CASE ReadIndex(r) \/ DeleteKeys(r) \/ DeleteIndex(r) \/ Revoke(r)
    BY <1>0, <2>1 DEF ReadIndex, DeleteKeys, DeleteIndex, Revoke, Revoked, Outcome, redis,
                      NoneStored
  <2>2. CASE UNCHANGED redis
    BY <1>0, <2>2 DEF redis, NoneStored
  <2>3. QED
    BY <2>1, <2>2
       DEF BeginRegister, BeginResend, BeginForgot, BeginConsume, BeginLogout, CreateUser,
           ClearLinks, CreateLink, SendMail, MarkUsed, VerifyUser, SetPassword, MongoError
<1>2. OthersStay(r) /\ (pc'[r] \notin SessionLabels \/ UNCHANGED <<pc, mem>>)
  <2>1. CASE \/ BeginRegister(r) \/ BeginResend(r) \/ BeginForgot(r) \/ BeginConsume(r)
             \/ BeginLogout(r) \/ CreateUser(r)
    BY <2>1 DEF BeginRegister, BeginResend, BeginForgot, BeginConsume, BeginLogout, CreateUser,
                Finish, Goto, OthersStay, SessionLabels, Holding, AuthInv, TypeOK
  <2>2. CASE \/ ClearLinks(r) \/ CreateLink(r) \/ SendMail(r)
             \/ MarkUsed(r) \/ VerifyUser(r) \/ SetPassword(r)
    BY <2>2 DEF ClearLinks, CreateLink, SendMail, MarkUsed, VerifyUser, SetPassword,
                Finish, Goto, OthersStay, SessionLabels, Holding, AuthInv, TypeOK
  <2>3. CASE MongoError(r) \/ ReadIndex(r) \/ DeleteKeys(r) \/ DeleteIndex(r) \/ Revoke(r)
    BY <2>3 DEF ReadIndex, DeleteKeys, DeleteIndex, Revoke, Outcome, MongoError,
                Finish, Goto, OthersStay, SessionLabels, Holding, AuthInv, TypeOK
  <2>4. QED
    BY <2>1, <2>2, <2>3
<1>3. CASE pc'[r] \notin SessionLabels
  BY <1>1, <1>2, <1>3, SessionKept DEF SessionRequestInv, SessionLabels, Holding
<1>4. CASE UNCHANGED <<pc, mem>>
  <2>1. SessionRequestInv(pc[r], mem[r])
    BY DEF SessionInv
  <2>2. SessionRequestInv(pc[r], mem[r])'
    BY <1>1, <1>4, <2>1 DEF NoneStored, SessionRequestInv, Given
  <2>3. QED
    BY <1>1, <1>2, <1>4, <2>2, SessionKept DEF SessionInv, HeldOnce
<1>5. QED
  BY <1>2, <1>3, <1>4

\* What a request that goes on at a label with the present locals m will rely on.
Ready(label, m) == \A n \in Mem : n = m => SessionRequestInv(label, n)'

\* A step of r, from which r goes on at a label with locals m.
LEMMA SessionGoto ==
    ASSUME AuthInv, SessionInv, NEW r \in Requests, NEW label \in Labels \ {"idle"}, NEW m \in Mem,
           NoneStored, live' \subseteq valid',
           Goto(r, label, m),
           Ready(label, m),
           \A q \in Requests \ {r} :
               /\ pc[q] \in Holding /\ label \in Holding
               /\ mem[q].origin.session = m.origin.session
               => mem[q].origin.session = 0
    PROVE  SessionInv'
<1>1. pc'[r] = label /\ mem'[r] = m /\ OthersStay(r)
  BY GotoType DEF AuthInv, OthersStay
<1>2. SessionRequestInv(pc[r], mem[r])'
  BY <1>1 DEF Ready, SessionRequestInv, Given
<1>3. QED
  BY <1>1, <1>2, SessionKept

\* A step with which r ends.
LEMMA SessionFinish ==
    ASSUME AuthInv, SessionInv, NEW r \in Requests, NoneStored, live' \subseteq valid', Finish(r)
    PROVE  SessionInv'
<1>1. pc'[r] = "idle" /\ OthersStay(r)
  BY FinishType DEF AuthInv, OthersStay
<1>2. QED
  BY <1>1, SessionKept DEF SessionRequestInv, Holding

LEMMA GoingOn ==
    {"find_session", "rotate", "find_user", "find_by_email", "link_google", "create_google", "issue"}
        \subseteq Labels \ {"idle"}
BY DEF Labels

\* The steps of a session in which no token is stored.
LEMMA InsideSteps ==
    ASSUME AuthInv, SessionInv, SingleFlight', NEW r \in Requests,
           \/ BeginLogin(r) \/ BeginRefresh(r) \/ BeginGoogle(r) \/ FindByEmail(r)
           \/ LinkGoogle(r) \/ CreateGoogle(r) \/ FindSession(r) \/ Rotate(r) \/ FindUser(r)
    PROVE  SessionInv'
<1>0. /\ TypeOK /\ live \subseteq valid /\ valid \subseteq Given /\ Given \subseteq Nat
      /\ SessionRequestInv(pc[r], mem[r]) /\ mem[r] \in Mem
      /\ \A j \in Given : j # 0 /\ origin[j].session \in Given
  BY MemType DEF AuthInv, SessionInv, Given, TypeOK
<1>1. CASE BeginLogin(r)
  <2> DEFINE m == [NoMem EXCEPT !.origin.since = user.password]
  <2>1. m \in Mem /\ m.origin.session = 0
    <3>1. user.password \in Nat
      BY <1>0, <1>1 DEF BeginLogin, CanLogin, TypeOK, User
    <3>2. QED
      BY <3>1, NewMemType DEF NoMem, NoOrigin
  <2>2. Goto(r, "issue", m)
    BY <1>1 DEF BeginLogin
  <2>3. NoneStored /\ live' \subseteq valid'
    BY <1>0, <1>1 DEF BeginLogin, redis, NoneStored
  <2> HIDE DEF m
  <2>4. Ready("issue", m)
    BY <1>0, <2>1, <2>3 DEF Ready, SessionRequestInv, NoneStored, Given
  <2>5. QED
    BY <1>0, <2>1, <2>2, <2>3, <2>4, GoingOn, SessionGoto
<1>2. CASE BeginRefresh(r)
  <2>1. PICK j \in valid :
            Goto(r, "find_session", [NoMem EXCEPT !.token = j, !.origin = origin[j]])
    BY <1>2 DEF BeginRefresh
  <2> DEFINE m == [NoMem EXCEPT !.token = j, !.origin = origin[j]]
  <2>2. m \in Mem /\ m.origin = origin[j] /\ m.token = j
    BY <1>0, NewMemType DEF NoMem, TypeOK
  <2>3. NoneStored /\ live' \subseteq valid'
    BY <1>0, <1>2 DEF BeginRefresh, redis, NoneStored
  <2> HIDE DEF m
  <2>4. Ready("find_session", m)
    BY <1>0, <2>2, <2>3 DEF Ready, SessionRequestInv, NoneStored, Given
  <2>5. QED
    BY <2>1, <2>2, <2>3, <2>4, GoingOn, SessionGoto DEF Holding, m
<1>3. CASE BeginGoogle(r)
  <2>1. NoneStored /\ live' \subseteq valid'
    BY <1>0, <1>3 DEF BeginGoogle, redis, NoneStored
  <2>2. CASE user # None /\ user.google
    <3> DEFINE m == [NoMem EXCEPT !.origin.since = user.password]
    <3>1. m \in Mem /\ m.origin.session = 0
      <4>1. user.password \in Nat
        BY <1>0, <2>2 DEF TypeOK, User
      <4>2. QED
        BY <4>1, NewMemType DEF NoMem, NoOrigin
    <3>2. Goto(r, "issue", m)
      BY <1>3, <2>2 DEF BeginGoogle
    <3> HIDE DEF m
    <3>3. Ready("issue", m)
      BY <1>0, <2>1, <3>1 DEF Ready, SessionRequestInv, NoneStored, Given
    <3>4. QED
      BY <2>1, <3>1, <3>2, <3>3, GoingOn, SessionGoto
  <2>3. CASE ~(user # None /\ user.google)
    BY <1>3, <2>1, <2>3, FreshTypes, GoingOn, SessionGoto
       DEF BeginGoogle, Holding, Ready, SessionRequestInv
  <2>4. QED
    BY <2>2, <2>3
<1>4. CASE FindByEmail(r)
  <2>1. NoneStored /\ live' \subseteq valid'
    BY <1>0, <1>4 DEF FindByEmail, redis, NoneStored
  <2>2. CASE user = None
    <3>1. Ready("create_google", NoMem)
      BY DEF Ready, SessionRequestInv, NoMem, NoOrigin
    <3>2. QED
      BY <1>4, <2>1, <2>2, <3>1, FreshTypes, GoingOn, SessionGoto DEF FindByEmail, Holding
  <2>3. CASE user # None
    <3> DEFINE m == [NoMem EXCEPT !.origin.since = user.password]
    <3>1. m \in Mem /\ m.origin.session = 0
      <4>1. user.password \in Nat
        BY <1>0, <2>3 DEF TypeOK, User
      <4>2. QED
        BY <4>1, NewMemType DEF NoMem, NoOrigin
    <3>2. Goto(r, "link_google", m)
      BY <1>4, <2>3 DEF FindByEmail
    <3> HIDE DEF m
    <3>3. Ready("link_google", m)
      BY <3>1 DEF Ready, SessionRequestInv
    <3>4. QED
      BY <2>1, <3>1, <3>2, <3>3, GoingOn, SessionGoto DEF Holding
  <2>4. QED
    BY <2>2, <2>3
<1>5. CASE LinkGoogle(r) \/ CreateGoogle(r)
  <2>1. mem[r].origin.session = 0
    BY <1>0, <1>5 DEF LinkGoogle, CreateGoogle, At, SessionRequestInv
  <2>2. NoneStored /\ live' \subseteq valid'
    BY <1>0, <1>5 DEF LinkGoogle, CreateGoogle, redis, NoneStored
  <2>3. Ready("issue", mem[r])
    BY <1>0, <2>1, <2>2 DEF Ready, SessionRequestInv, NoneStored, Given
  <2>4. Goto(r, "issue", mem[r]) \/ Finish(r)
    BY <1>5 DEF LinkGoogle, CreateGoogle
  <2>5. QED
    BY <1>0, <2>1, <2>2, <2>3, <2>4, GoingOn, SessionGoto, SessionFinish
<1>6. CASE FindSession(r)
  <2>1. NoneStored /\ live' \subseteq valid' /\ live' = live
    BY <1>0, <1>6 DEF FindSession, redis, NoneStored
  <2>2. CASE mem[r].token \in live /\ Goto(r, "rotate", mem[r])
    <3>1. /\ mem[r].token \in Given
          /\ mem[r].origin.session = origin[mem[r].token].session
          /\ mem[r].origin.session \in Given
      BY <1>0, <1>6 DEF FindSession, At, SessionRequestInv
    <3>2. \A j \in live : origin[j].session = mem[r].origin.session => j = mem[r].token
      BY <2>2, <3>1 DEF SessionInv, OneTokenPerSession
    <3>3. Ready("rotate", mem[r])
      BY <2>1, <3>1, <3>2 DEF Ready, SessionRequestInv, NoneStored, Given
    <3>4. ASSUME NEW q \in Requests \ {r}, pc[q] \in Holding,
                 mem[q].origin.session = mem[r].origin.session
          PROVE  FALSE
      <4>1. SessionRequestInv(pc[q], mem[q])
        BY DEF SessionInv
      <4>2. pc[q] = "rotate" /\ mem[q].token = mem[r].token
        BY <2>2, <3>1, <3>4, <4>1 DEF SessionRequestInv, Holding
      <4>3. /\ pc'[q] = "rotate" /\ mem'[q] = mem[q]
            /\ pc'[r] = "rotate" /\ mem'[r] = mem[r]
        BY <1>0, <2>2, <4>2, GotoType DEF Labels
      <4>4. QED
        BY <4>2, <4>3 DEF SingleFlight, At
    <3>5. QED
      BY <1>0, <2>1, <2>2, <3>3, <3>4, GoingOn, SessionGoto
  <2>3. CASE Finish(r)
    BY <2>1, <2>3, SessionFinish
  <2>4. QED
    BY <1>6, <2>2, <2>3 DEF FindSession
<1>7. CASE Rotate(r)
  <2>1. NoneStored /\ live' \subseteq valid'
    BY <1>0, <1>7 DEF Rotate, Revoked, Outcome, redis, NoneStored
  <2>2. CASE Finish(r)
    BY <2>1, <2>2, SessionFinish
  <2>3. CASE Revoked(mem[r].token) /\ Goto(r, "find_user", mem[r])
    <3>1. Ready("find_user", mem[r])
      BY <1>0, <1>7, <2>1, <2>3 DEF Ready, Rotate, At, Revoked, SessionRequestInv, NoneStored, Given
    <3>2. ASSUME NEW q \in Requests \ {r}, pc[q] \in Holding,
                 mem[q].origin.session = mem[r].origin.session
          PROVE  mem[q].origin.session = 0
      BY <1>7, <3>2 DEF Rotate, At, SessionInv, HeldOnce, Holding
    <3>3. QED
      BY <1>0, <2>1, <2>3, <3>1, <3>2, GoingOn, SessionGoto
  <2>4. QED
    BY <1>7, <2>2, <2>3 DEF Rotate, Outcome
<1>8. CASE FindUser(r)
  <2>1. NoneStored /\ live' \subseteq valid'
    BY <1>0, <1>8 DEF FindUser, redis, NoneStored
  <2>2. Ready("issue", mem[r])
    BY <1>0, <1>8, <2>1 DEF Ready, FindUser, At, SessionRequestInv, NoneStored, Given
  <2>3. ASSUME NEW q \in Requests \ {r}, pc[q] \in Holding,
               mem[q].origin.session = mem[r].origin.session
        PROVE  mem[q].origin.session = 0
    BY <1>8, <2>3 DEF FindUser, At, SessionInv, HeldOnce, Holding
  <2>4. Goto(r, "issue", mem[r])
    BY <1>8 DEF FindUser
  <2>5. QED
    BY <1>0, <2>1, <2>2, <2>3, <2>4, GoingOn, SessionGoto
<1>9. QED
  BY <1>1, <1>2, <1>3, <1>4, <1>5, <1>6, <1>7, <1>8

\* The token that is stored is the only one of its session.
LEMMA IssueKeepsSessionInv ==
    ASSUME AuthInv, SessionInv, NEW r \in Requests, Issue(r)
    PROVE  SessionInv'
<1> DEFINE j == lastToken + 1
           s == SessionOrigin(r).session
<1>0. /\ TypeOK /\ lastToken \in Nat /\ lastToken < MaxTokens
      /\ live \subseteq valid /\ valid \subseteq Given
      /\ SessionRequestInv("issue", mem[r])
      /\ \A i \in Given : origin[i].session \in Given
  BY DEF AuthInv, TypeOK, SessionInv, Issue, At
<1>1. pc'[r] = "idle" /\ OthersStay(r)
  <2>1. Goto(r, "idle", NoMem) \/ Finish(r)
    BY DEF Issue, Outcome
  <2>2. QED
    BY <1>0, <2>1, FreshTypes, GotoType, FinishType DEF Labels, OthersStay
<1>2. CASE UNCHANGED redis
  BY <1>0, <1>1, <1>2, SessionKept DEF redis, NoneStored, SessionRequestInv, Holding
<1>3. CASE Issued(j, SessionOrigin(r))
  <2>1. /\ lastToken' = j /\ live' = live \cup {j} /\ valid' = valid \cup {j}
        /\ j \in Tokens /\ j \notin Given /\ Given' = Given \cup {j}
        /\ origin'[j].session = s
        /\ \A i \in Given : origin'[i] = origin[i]
    <3>1. j \in Tokens /\ Given \subseteq Tokens
      BY <1>0, ConstantsAssumption DEF Tokens, Given
    <3>2. QED
      BY <1>0, <1>3, <3>1 DEF Issued, TypeOK, Given
  <2>2. s \in Given' /\ \A i \in live : origin[i].session # s
    BY <1>0, <2>1, SessionOriginType DEF SessionRequestInv, Given
  <2> HIDE DEF s
  <2>3. OneTokenPerSession'
    BY <1>0, <2>1, <2>2 DEF OneTokenPerSession, SessionInv
  <2>4. ASSUME NEW q \in Requests PROVE SessionRequestInv(pc[q], mem[q])'
    <3>1. CASE q = r
      BY <1>1, <3>1 DEF SessionRequestInv
    <3>2. CASE q # r
      <4>1. SessionRequestInv(pc[q], mem[q]) /\ pc'[q] = pc[q] /\ mem'[q] = mem[q]
        BY <1>1, <3>2 DEF SessionInv, OthersStay
      <4>2. pc[q] \in Holding => mem[q].origin.session # s
        <5>1. CASE mem[r].origin.session = 0
          BY <1>0, <2>1, <4>1, <5>1, SessionOriginType DEF s, SessionRequestInv, Holding, Given
        <5>2. CASE mem[r].origin.session # 0
          BY <1>0, <3>2, <5>2, SessionOriginType
             DEF s, SessionInv, HeldOnce, Holding, Issue, At
        <5>3. QED
          BY <5>1, <5>2
      <4>3. QED
        BY <1>0, <2>1, <4>1, <4>2 DEF SessionRequestInv, Holding
    <3>3. QED
      BY <3>1, <3>2
  <2>5. HeldOnce'
    BY <1>1 DEF SessionInv, HeldOnce, OthersStay, Holding
  <2>6. QED
    BY <1>0, <2>1, <2>2, <2>3, <2>4, <2>5 DEF SessionInv
<1>4. QED
  BY <1>2, <1>3 DEF Issue, Outcome, SessionOrigin

LEMMA NextKeepsSessionInv ==
    AuthInv /\ SessionInv /\ SingleFlight' /\ [Next]_vars => SessionInv'
<1> SUFFICES ASSUME AuthInv, SessionInv, SingleFlight', [Next]_vars PROVE SessionInv'
  OBVIOUS
<1>1. ASSUME NEW r \in Requests, Request(r) \/ Step(r) PROVE SessionInv'
  BY <1>1, OutsideSteps, InsideSteps, IssueKeepsSessionInv DEF Request, Step
<1>2. CASE ExpireToken
  BY <1>2 DEF ExpireToken, SessionInv, OneTokenPerSession, HeldOnce, SessionRequestInv, Given
<1>3. CASE Crash
  BY <1>3 DEF Crash, redis, SessionInv, OneTokenPerSession, HeldOnce, SessionRequestInv, Given,
              Holding
<1>4. CASE ExpireLink \/ UNCHANGED vars
  BY <1>4 DEF ExpireLink, vars, redis, SessionInv, OneTokenPerSession, HeldOnce,
              SessionRequestInv, Given
<1>5. QED
  BY <1>1, <1>2, <1>3, <1>4 DEF Next

\* As long as a client has one refresh per token under way, a session has one
\* token at a time, however its refreshes fail, are cut short or overlap with
\* those of other sessions, with resets and with logouts.
THEOREM RefreshReplaces == Spec /\ []SingleFlight => []OneTokenPerSession
<1>1. Init => SessionInv
  BY DEF Init, SessionInv, OneTokenPerSession, HeldOnce, SessionRequestInv, Given, Holding
<1>2. SessionInv => OneTokenPerSession
  BY DEF SessionInv
<1>3. QED
  BY <1>1, <1>2, NextKeepsSessionInv, AuthInvHolds, PTL DEF Spec

----------------------------------------------------------------------------
(* One usable link of each type *)

\* Two requests for a link of a type do not overlap.
SendsApart ==
    \A q, r \in Requests :
        At(q, "create_link") /\ At(r, "create_link") /\ mem[q].type = mem[r].type => q = r

LinkInv ==
    /\ \A l \in Links : l > lastLink => links[l] = None
    /\ \A type \in LinkType, k, l \in Links : Usable(k, type) /\ Usable(l, type) => k = l
    /\ \A r \in Requests :
          At(r, "create_link") => \A l \in Links : ~Usable(l, mem[r].type)

\* Links that are cleared, used or expired, but none created.
NoneCreated ==
    /\ UNCHANGED lastLink
    /\ \A l \in Links : links[l] = None => links'[l] = None
    /\ \A l \in Links, type \in LinkType : Usable(l, type)' => Usable(l, type)

LEMMA LinkKept ==
    ASSUME AuthInv, LinkInv, NEW r \in Requests, NoneCreated, OthersStay(r),
           pc'[r] = "create_link" =>
               UNCHANGED mem /\ \A l \in Links : ~Usable(l, mem[r].type)'
    PROVE  LinkInv'
<1>1. ASSUME NEW q \in Requests, At(q, "create_link")', NEW l \in Links
      PROVE  ~Usable(l, mem[q].type)'
  <2>1. mem'[q] = mem[q] /\ mem[q].type \in LinkType
    BY <1>1, MemType DEF OthersStay, AuthInv, At, Mem
  <2>2. pc[q] = "create_link" => \A k \in Links : ~Usable(k, mem[q].type)
    BY DEF LinkInv, At
  <2>3. QED
    BY <1>1, <2>1, <2>2 DEF NoneCreated, OthersStay, At, Usable
<1>2. QED
  BY <1>1 DEF LinkInv, NoneCreated

\* The steps that leave the links alone.
LEMMA LinklessSteps ==
    ASSUME AuthInv, LinkInv, NEW r \in Requests, Request(r) \/ Step(r),
           ~ClearLinks(r), ~CreateLink(r), ~MarkUsed(r)
    PROVE  LinkInv'
<1>1. UNCHANGED <<links, lastLink>>
  <2>1. CASE Request(r)
    BY <2>1 DEF Request, BeginRegister, BeginResend, BeginForgot, BeginConsume, BeginLogin,
                BeginRefresh, BeginLogout, BeginGoogle, mongo
  <2>2. CASE Step(r)
    BY <2>2 DEF Step, CreateUser, SendMail, VerifyUser, SetPassword, ReadIndex, DeleteKeys,
                DeleteIndex, Issue, FindSession, Rotate, FindUser, Revoke, FindByEmail,
                LinkGoogle, CreateGoogle, MongoError, mongo
  <2>3. QED
    BY <2>1, <2>2
<1>2. OthersStay(r) /\ (pc'[r] # "create_link" \/ UNCHANGED <<pc, mem>>)
  <2>1. CASE Request(r)
    BY <2>1 DEF Request, BeginRegister, BeginResend, BeginForgot, BeginConsume, BeginLogin,
                BeginRefresh, BeginLogout, BeginGoogle, Goto, OthersStay, AuthInv, TypeOK
  <2>2. CASE \/ CreateUser(r) \/ SendMail(r) \/ VerifyUser(r) \/ SetPassword(r)
             \/ FindSession(r) \/ FindUser(r) \/ FindByEmail(r) \/ LinkGoogle(r)
             \/ CreateGoogle(r) \/ MongoError(r)
    BY <2>2 DEF CreateUser, SendMail, VerifyUser, SetPassword, FindSession, FindUser,
                FindByEmail, LinkGoogle, CreateGoogle, MongoError, Finish, Goto, OthersStay,
                AuthInv, TypeOK
  <2>3. CASE \/ ReadIndex(r) \/ DeleteKeys(r) \/ DeleteIndex(r) \/ Issue(r) \/ Rotate(r)
             \/ Revoke(r)
    BY <2>3 DEF ReadIndex, DeleteKeys, DeleteIndex, Issue, Rotate, Revoke, Outcome, Finish,
                Goto, OthersStay, AuthInv, TypeOK
  <2>4. QED
    BY <2>1, <2>2, <2>3 DEF Step
<1>3. QED
  BY <1>1, <1>2 DEF LinkInv, OthersStay, At, Usable

LEMMA LinkStepsKeepLinkInv ==
    ASSUME AuthInv, LinkInv, SendsApart, NEW r \in Requests,
           ClearLinks(r) \/ CreateLink(r) \/ MarkUsed(r)
    PROVE  LinkInv'
<1>0. TypeOK /\ mem[r] \in Mem /\ mem[r].type \in LinkType
  BY MemType DEF AuthInv, Mem
<1>1. CASE ClearLinks(r)
  <2>1. OthersStay(r) /\ pc'[r] = "create_link" /\ UNCHANGED mem
    BY <1>0, <1>1 DEF ClearLinks, Goto, OthersStay, TypeOK
  <2>2. NoneCreated
    BY <1>0, <1>1, FreshTypes DEF ClearLinks, NoneCreated, Usable
  <2>3. \A l \in Links : ~Usable(l, mem[r].type)'
    BY <1>1, <2>1 DEF ClearLinks, Cleared, Usable
  <2>4. QED
    BY <2>1, <2>2, <2>3, LinkKept
<1>2. CASE CreateLink(r)
  <2> DEFINE n == lastLink + 1
             link == [type |-> mem[r].type, used |-> FALSE, expired |-> FALSE]
  <2>1. n \in Links /\ n > lastLink /\ lastLink' = n /\ lastLink \in Nat
    BY <1>0, <1>2, ConstantsAssumption DEF CreateLink, TypeOK, Links
  <2>2. links' = [links EXCEPT ![n] = link]
    BY <1>2 DEF CreateLink
  <2>3. OthersStay(r) /\ pc'[r] = "send_mail"
    BY <1>0, <1>2 DEF CreateLink, Goto, OthersStay, TypeOK
  <2>4. \A l \in Links, type \in LinkType :
            Usable(l, type)' <=> Usable(l, type) \/ (l = n /\ type = mem[r].type)
    <3>1. links[n] = None
      BY <2>1 DEF LinkInv
    <3>2. link # None /\ link.type = mem[r].type /\ ~link.used /\ ~link.expired
      <4>1. link \in Link
        BY <1>0 DEF Link
      <4>2. QED
        BY <4>1, FreshTypes
    <3> HIDE DEF n, link
    <3>3. QED
      BY <1>0, <2>1, <2>2, <3>1, <3>2 DEF Usable, TypeOK
  <2>5. \A l \in Links : l > lastLink' => links'[l] = None
    BY <1>0, <2>1, <2>2 DEF LinkInv, TypeOK, Links
  <2> HIDE DEF n, link
  <2>6. ASSUME NEW type \in LinkType, NEW k \in Links, NEW l \in Links,
               Usable(k, type)', Usable(l, type)'
        PROVE  k = l
    BY <1>2, <2>4, <2>6 DEF CreateLink, LinkInv, At
  <2>7. ASSUME NEW q \in Requests, At(q, "create_link")', NEW l \in Links
        PROVE  ~Usable(l, mem[q].type)'
    <3>1. q # r /\ pc[q] = "create_link" /\ mem'[q] = mem[q] /\ mem[q].type \in LinkType
      BY <2>3, <2>7, MemType DEF OthersStay, AuthInv, At, Mem
    <3>2. mem[q].type # mem[r].type /\ ~Usable(l, mem[q].type)
      BY <1>2, <3>1 DEF CreateLink, SendsApart, LinkInv, At
    <3>3. QED
      BY <2>4, <3>1, <3>2 DEF Usable
  <2>8. QED
    BY <2>5, <2>6, <2>7 DEF LinkInv
<1>3. CASE MarkUsed(r)
  <2>1. OthersStay(r) /\ pc'[r] # "create_link"
    BY <1>0, <1>3 DEF MarkUsed, Finish, Goto, OthersStay, TypeOK
  <2>2. mem[r].link \in Links
    BY <1>3, AtLabel DEF MarkUsed, At
  <2>3. NoneCreated
    <3>1. CASE UNCHANGED links
      BY <1>3, <3>1 DEF MarkUsed, NoneCreated, Usable
    <3>2. CASE /\ links[mem[r].link] # None
               /\ links' = [links EXCEPT ![mem[r].link].used = TRUE]
      <4>1. links[mem[r].link] \in Link
        BY <1>0, <2>2, <3>2 DEF TypeOK
      <4>2. links'[mem[r].link].used
        BY <1>0, <2>2, <3>2, <4>1 DEF TypeOK, Link
      <4>3. \A l \in Links : l # mem[r].link => links'[l] = links[l]
        BY <1>0, <3>2 DEF TypeOK
      <4>4. QED
        BY <1>3, <3>2, <4>2, <4>3 DEF MarkUsed, NoneCreated, Usable
    <3>3. QED
      BY <1>3, <3>1, <3>2 DEF MarkUsed
  <2>4. QED
    BY <2>1, <2>3, LinkKept
<1>4. QED
  BY <1>1, <1>2, <1>3

LEMMA NextKeepsLinkInv == AuthInv /\ LinkInv /\ SendsApart /\ [Next]_vars => LinkInv'
<1> SUFFICES ASSUME AuthInv, LinkInv, SendsApart, [Next]_vars PROVE LinkInv'
  OBVIOUS
<1>1. ASSUME NEW r \in Requests, Request(r) \/ Step(r) PROVE LinkInv'
  BY <1>1, LinklessSteps, LinkStepsKeepLinkInv
<1>2. CASE ExpireLink
  <2>1. PICK l \in Links :
            /\ links[l] # None
            /\ links' = [links EXCEPT ![l] = IF links[l].expired THEN None
                                             ELSE [links[l] EXCEPT !.expired = TRUE]]
    BY <1>2 DEF ExpireLink
  <2>2. links[l] \in Link /\ links \in [Links -> Link \cup {None}]
    BY <2>1 DEF AuthInv, TypeOK
  <2>3. links'[l] = None \/ links'[l].expired
    BY <2>1, <2>2 DEF Link
  <2>4. \A k \in Links : k # l => links'[k] = links[k]
    BY <2>1, <2>2
  <2>5. QED
    BY <1>2, <2>1, <2>3, <2>4 DEF ExpireLink, LinkInv, Usable, At
<1>3. CASE ExpireToken \/ UNCHANGED vars
  BY <1>3 DEF ExpireToken, vars, mongo, LinkInv, Usable, At
<1>4. CASE Crash
  BY <1>4 DEF Crash, mongo, LinkInv, Usable, At
<1>5. QED
  BY <1>1, <1>2, <1>3, <1>4 DEF Next

\* As long as two requests for a link of a type do not overlap, at most one of
\* the links of a type that were sent to the user works, whatever fails.
THEOREM LastLinkOnly == Spec /\ []SendsApart => []OneUsableLink
<1>1. Init => LinkInv
  BY DEF Init, LinkInv, Usable, At
<1>2. LinkInv => OneUsableLink
  <2> SUFFICES ASSUME LinkInv, NEW type \in LinkType
               PROVE  Cardinality({l \in Links : Usable(l, type)}) <= 1
    BY DEF OneUsableLink
  <2>1. CASE {l \in Links : Usable(l, type)} = {}
    BY <2>1, FS_EmptySet
  <2>2. ASSUME NEW k \in Links, Usable(k, type)
        PROVE  Cardinality({l \in Links : Usable(l, type)}) <= 1
    <3>1. {l \in Links : Usable(l, type)} = {k}
      BY <2>2 DEF LinkInv
    <3>2. Cardinality({k}) = 1
      BY FS_Singleton
    <3>3. QED
      BY <3>1, <3>2
  <2>3. QED
    BY <2>1, <2>2
<1>3. QED
  BY <1>1, <1>2, NextKeepsLinkInv, AuthInvHolds, PTL DEF Spec

=============================================================================
