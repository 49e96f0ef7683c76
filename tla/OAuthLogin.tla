----------------------------- MODULE OAuthLogin -----------------------------
(***************************************************************************)
(* The auth service: GET /auth/login/start/{provider} keeps a pending row  *)
(* (state, PKCE verifier), GET /auth/callback/{provider} consumes it,      *)
(* exchanges the provider's code, upserts the user and hands out a token.  *)
(*                                                                         *)
(* Every statement is a transaction of its own, so the callbacks of one    *)
(* state, of one account or of two replicas interleave between statements. *)
(* A login start names its state, its verifier and the code that the       *)
(* provider issues for it; a callback names the id of a user row it may    *)
(* insert.                                                                 *)
(***************************************************************************)
EXTENDS Naturals

CONSTANTS
    Starts,     \* the calls of login_start
    Callbacks,  \* the calls of callback
    Providers,  \* enabled_providers
    Accounts,   \* the accounts of the providers' users
    Emails,     \* the lower-cased addresses of those accounts
    ProviderOf, \* the provider of an account
    EmailOf,    \* its address, NoEmail when userinfo has none
    None,       \* no state, no account, no user
    NoEmail,    \* no address
    Faults      \* which parts of the environment may fail in this instance

ASSUME OAuthConstants ==
    /\ None \notin Starts \cup Callbacks \cup Accounts
    /\ NoEmail \notin Emails
    /\ ProviderOf \in [Accounts -> Providers]
    /\ EmailOf \in [Accounts -> Emails \cup {NoEmail}]
    /\ Faults \subseteq {"database", "provider", "crash"}

VARIABLES
    start,      \* each login start: where it is, and its provider
    pending,    \* the oauth_pending rows
    code,       \* the account a start's code was issued for, by the provider
    redeemed,   \* the codes that the provider has exchanged
    callback,   \* each callback: where it is, its request, what it learnt
    users,      \* the users table: the id of the row of each address
    audit       \* the audit_logs rows

vars == <<start, pending, code, redeemed, callback, users, audit>>

Start == [pc : {"idle", "redirect", "cleanup", "redirected", "failed"}, provider : Providers]

\* The parts of a callback: the provider of its path, the state and the code of its
\* query, then the account behind the token and the id of its user.
Callback == [pc : {"idle", "select", "delete", "exchange", "userinfo", "upsert",
                   "succeed", "reject", "token", "error", "crashed"},
             provider : Providers, state : Starts \cup {None}, code : Starts \cup {None},
             account : Accounts \cup {None}, user : Callbacks \cup {None}]

Record == [by : Callbacks, action : {"login_success", "login_failed"}]

Init ==
    /\ start \in [Starts -> [pc : {"idle"}, provider : Providers]]
    /\ pending = {}
    /\ code = [s \in Starts |-> None]
    /\ redeemed = {}
    /\ callback \in [Callbacks -> [pc : {"idle"}, provider : Providers, state : {None},
                                   code : {None}, account : {None}, user : {None}]]
    /\ users = [e \in Emails |-> None]
    /\ audit = {}

----------------------------------------------------------------------------
(* login_start.                                                            *)

StartGo(s, from, to) ==
    /\ start[s].pc = from
    /\ start' = [start EXCEPT ![s].pc = to]
    /\ UNCHANGED <<code, redeemed, callback, users, audit>>

SaveOauthPending(s) ==
    /\ StartGo(s, "idle", "redirect")
    /\ pending' = pending \cup {s}

\* The INSERT raises, and may have committed: 500.
SaveFails(s) ==
    /\ "database" \in Faults
    /\ StartGo(s, "idle", "failed")
    /\ pending' \in {pending, pending \cup {s}}

\* The browser learns the state from this redirect and from nowhere else.
AuthorizeRedirect(s) ==
    /\ StartGo(s, "redirect", "redirected")
    /\ UNCHANGED pending

RedirectRaises(s) ==
    /\ "provider" \in Faults
    /\ StartGo(s, "redirect", "cleanup")
    /\ UNCHANGED pending

\* pop_oauth_pending, whose two statements nobody else can come between: the state
\* was never sent. 502, also when the pop raises.
CleanUp(s) ==
    /\ StartGo(s, "cleanup", "failed")
    /\ \/ pending' = pending \ {s}
       \/ "database" \in Faults /\ UNCHANGED pending

\* The provider: a user of it signs in and gets the code of this start.
SignIn(s, a) ==
    /\ start[s].pc = "redirected"
    /\ code[s] = None
    /\ ProviderOf[a] = start[s].provider
    /\ code' = [code EXCEPT ![s] = a]
    /\ UNCHANGED <<start, pending, redeemed, callback, users, audit>>

LoginStart(s) ==
    \/ SaveOauthPending(s) \/ SaveFails(s)
    \/ AuthorizeRedirect(s) \/ RedirectRaises(s) \/ CleanUp(s)

----------------------------------------------------------------------------
(* callback.                                                               *)

CallbackGo(c, from, to) ==
    /\ callback[c].pc = from
    /\ callback' = [callback EXCEPT ![c].pc = to]
    /\ UNCHANGED <<start, code>>

\* A browser arrives, with what redirects and providers have given out: once, again,
\* or with the parts of two logins.
Receive(c) ==
    /\ callback[c].pc = "idle"
    /\ \E s \in {t \in Starts : start[t].pc = "redirected"} \cup {None},
          k \in {t \in Starts : code[t] # None} :
          callback' = [callback EXCEPT
              ![c] = [@ EXCEPT !.state = s, !.code = k,
                               !.pc = IF s = None THEN "reject" ELSE "select"]]
    /\ UNCHANGED <<start, pending, code, redeemed, users, audit>>

\* The SELECT of pop_oauth_pending; no row is unknown_state.
SelectPending(c) ==
    /\ CallbackGo(c, "select", IF callback[c].state \in pending THEN "delete" ELSE "reject")
    /\ UNCHANGED <<pending, redeemed, users, audit>>

\* Variant: the row is kept for its expiry.
DeletePendingLater(c) ==
    /\ CallbackGo(c, "delete", "exchange")
    /\ UNCHANGED <<pending, redeemed, users, audit>>

DeletePending(c) ==
    /\ CallbackGo(c, "delete", "exchange")
    /\ pending' = pending \ {callback[c].state}
    /\ UNCHANGED <<redeemed, users, audit>>

\* pop_oauth_pending raises out of the handler: 500, and no audit row.
PopFails(c) ==
    /\ "database" \in Faults
    /\ \/ CallbackGo(c, "select", "error") /\ UNCHANGED pending
       \/ /\ CallbackGo(c, "delete", "error")
          /\ pending' \in {pending, pending \ {callback[c].state}}
    /\ UNCHANGED <<redeemed, users, audit>>

\* Variant: the verifier of the start that the code belongs to.
ExchangeableWithOwn(c) ==
    /\ callback[c].code \notin redeemed
    /\ start[callback[c].code].provider = callback[c].provider

\* The provider takes a code once, from its own client, with the verifier whose
\* challenge it was issued for: the verifier is the one of the popped row.
Exchangeable(c) ==
    /\ callback[c].code \notin redeemed
    /\ start[callback[c].code].provider = callback[c].provider
    /\ callback[c].state = callback[c].code

\* authorize_access_token
Exchange(c) ==
    /\ callback[c].pc = "exchange"
    /\ Exchangeable(c)
    /\ redeemed' = redeemed \cup {callback[c].code}
    /\ callback' = [callback EXCEPT ![c].pc = "userinfo", ![c].account = code[callback[c].code]]
    /\ UNCHANGED <<start, pending, code, users, audit>>

\* OAuthError: token_exchange_failed.
ExchangeRefused(c) ==
    /\ CallbackGo(c, "exchange", "reject")
    /\ ~Exchangeable(c)
    /\ UNCHANGED <<pending, redeemed, users, audit>>

\* Any other way authorize_access_token raises (no session of the browser, the network,
\* an id token that does not verify), before or after the provider took the code.
ExchangeRaises(c) ==
    /\ "provider" \in Faults
    /\ CallbackGo(c, "exchange", "reject")
    /\ \/ UNCHANGED redeemed
       \/ Exchangeable(c) /\ redeemed' = redeemed \cup {callback[c].code}
    /\ UNCHANGED <<pending, users, audit>>

EmailOfCallback(c) == EmailOf[callback[c].account]

\* userinfo, or Microsoft's graph; no address is missing_email.
UserInfo(c) ==
    /\ CallbackGo(c, "userinfo", IF EmailOfCallback(c) = NoEmail THEN "reject" ELSE "upsert")
    /\ UNCHANGED <<pending, redeemed, users, audit>>

\* It raises, or the answer is not 200: no_userinfo.
UserInfoFails(c) ==
    /\ "provider" \in Faults
    /\ CallbackGo(c, "userinfo", "reject")
    /\ UNCHANGED <<pending, redeemed, users, audit>>

\* Variant: a row for each login.
UpsertedAfresh(c) == [users EXCEPT ![EmailOfCallback(c)] = c]

\* ON CONFLICT (email) DO UPDATE keeps the id of the row; whose provider the row has is
\* left out, no code reads it.
Upserted(c) == [users EXCEPT ![EmailOfCallback(c)] = IF @ = None THEN c ELSE @]

\* upsert_user, then create_jwt for the id it returns.
UpsertUser(c) ==
    /\ callback[c].pc = "upsert"
    /\ users' = Upserted(c)
    /\ callback' = [callback EXCEPT ![c].pc = "succeed", ![c].user = users'[EmailOfCallback(c)]]
    /\ UNCHANGED <<start, pending, code, redeemed, audit>>

\* It raises, and may have committed: user_upsert_failed.
UpsertFails(c) ==
    /\ "database" \in Faults
    /\ CallbackGo(c, "upsert", "reject")
    /\ users' \in {users, Upserted(c)}
    /\ UNCHANGED <<pending, redeemed, audit>>

\* Variant: the step is the action.
AuditAuthEventStep(c, action) ==
    \/ audit' = audit \cup {[by |-> c, action |-> callback[c].pc]}
    \/ "database" \in Faults /\ UNCHANGED audit

\* audit_auth_event swallows every exception, also one raised after the commit.
AuditAuthEvent(c, action) ==
    \/ audit' = audit \cup {[by |-> c, action |-> action]}
    \/ "database" \in Faults /\ UNCHANGED audit

\* Variant: the audit of a login raises, and the handler takes it for the upsert's.
SucceedOrRaise(c) ==
    \/ /\ CallbackGo(c, "succeed", "token")
       /\ AuditAuthEvent(c, "login_success")
       /\ UNCHANGED <<pending, redeemed, users>>
    \/ /\ "database" \in Faults
       /\ CallbackGo(c, "succeed", "reject")
       /\ audit' = audit \cup {[by |-> c, action |-> "login_success"]}
       /\ UNCHANGED <<pending, redeemed, users>>

\* The page with the token.
Succeed(c) ==
    /\ CallbackGo(c, "succeed", "token")
    /\ AuditAuthEvent(c, "login_success")
    /\ UNCHANGED <<pending, redeemed, users>>

\* The redirect to the error page.
Reject(c) ==
    /\ CallbackGo(c, "reject", "error")
    /\ AuditAuthEvent(c, "login_failed")
    /\ UNCHANGED <<pending, redeemed, users>>

HandleCallback(c) ==
    \/ SelectPending(c) \/ DeletePending(c) \/ Exchange(c) \/ ExchangeRefused(c)
    \/ UserInfo(c) \/ UpsertUser(c) \/ Succeed(c) \/ Reject(c)

AwaitRaises(c) == PopFails(c) \/ ExchangeRaises(c) \/ UserInfoFails(c) \/ UpsertFails(c)

Answered(c) == callback[c].pc \in {"token", "error", "crashed"}

\* The replica that serves the callback dies, also between the audit and the answer.
Crash(c) ==
    /\ "crash" \in Faults
    /\ callback[c].pc # "idle" /\ ~Answered(c)
    /\ CallbackGo(c, callback[c].pc, "crashed")
    /\ \/ UNCHANGED audit
       \/ callback[c].pc = "succeed" /\ AuditAuthEvent(c, "login_success")
       \/ callback[c].pc = "reject" /\ AuditAuthEvent(c, "login_failed")
    /\ UNCHANGED <<pending, redeemed, users>>

Next ==
    \/ \E s \in Starts : LoginStart(s) \/ \E a \in Accounts : SignIn(s, a)
    \/ \E c \in Callbacks : Receive(c) \/ HandleCallback(c) \/ AwaitRaises(c) \/ Crash(c)

Spec == Init /\ [][Next]_vars

----------------------------------------------------------------------------
(* Properties.                                                             *)

TypeOK ==
    /\ start \in [Starts -> Start]
    /\ pending \in SUBSET Starts
    /\ code \in [Starts -> Accounts \cup {None}]
    /\ redeemed \in SUBSET Starts
    /\ callback \in [Callbacks -> Callback]
    /\ users \in [Emails -> Callbacks \cup {None}]
    /\ audit \in SUBSET Record

LoggedIn(c) == callback[c].user # None

\* However callbacks race, repeat and mix the parts of two logins, a token is for the
\* account that signed in for the state of its callback, and no second callback with
\* that state gets one.
LoginIsTheOneStarted ==
    \A c \in Callbacks : LoggedIn(c) =>
        /\ callback[c].account = code[callback[c].state]
        /\ ProviderOf[callback[c].account] = callback[c].provider
        /\ \A d \in Callbacks :
              LoggedIn(d) /\ callback[d].state = callback[c].state => d = c

\* "Upsert user by email; returns user id" (upsert_user): the tokens of one address name
\* one user, whoever inserted it and with whichever provider, and the table still does.
TokensNameOneUser ==
    \A c \in Callbacks : LoggedIn(c) => users[EmailOfCallback(c)] = callback[c].user

SessionsOf(cs) ==
    {[by |-> c, login |-> callback[c].state, user |-> callback[c].user] : c \in cs}

Logins == INSTANCE LoginSessions WITH
    signedIn <- code, sessions <- SessionsOf({c \in Callbacks : LoggedIn(c)})

\* However callbacks of one login or of several race, repeat and fail, the auth service
\* does what LoginSessions says: a login is a session once, its user is that of the
\* address that signed in for it, and no session and no user of an address is replaced
\* (callback, upsert_user).
ImplementsLogins == Logins!Spec

\* "Fetch and delete" (pop_oauth_pending): once a callback has deleted the row of its
\* state, no other callback finds it.
PoppedStateIsUnknown ==
    [][\A c, d \in Callbacks :
          (/\ callback[c].pc = "select" /\ callback'[c].pc = "delete"
           /\ callback[d].state = callback[c].state) =>
              callback[d].pc \notin {"exchange", "userinfo", "upsert", "succeed", "token"}]_vars

\* A callback is audited as a login or as a failure, never as both, and neither against
\* its answer.
AuditMatchesAnswer ==
    \A c \in Callbacks :
        /\ [by |-> c, action |-> "login_success"] \in audit =>
              callback[c].pc \in {"token", "crashed"} /\ LoggedIn(c)
        /\ [by |-> c, action |-> "login_failed"] \in audit =>
              callback[c].pc \in {"error", "crashed"} /\ ~LoggedIn(c)
=============================================================================
