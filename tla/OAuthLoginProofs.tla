--------------------------- MODULE OAuthLoginProofs ---------------------------
(***************************************************************************)
(* Theorems about OAuthLogin, for every number of logins and callbacks,    *)
(* all providers, accounts and addresses, and every failure.  A callback   *)
(* that has an account has redeemed the code of its own state, which no    *)
(* other callback can redeem again; a state whose row was deleted is never *)
(* written again.                                                          *)
(***************************************************************************)
EXTENDS OAuthLogin, TLAPS

\* The provider issues a code to an account of its own.
CodesFit ==
    \A s \in Starts : code[s] # None => ProviderOf[code[s]] = start[s].provider

\* The nodes of a callback before it has an account, and those from then on.
Anonymous == {"idle", "select", "delete", "exchange"}
Known == {"userinfo", "upsert", "succeed", "token"}

\* What a callback brought: a state that was sent to a browser, a code that was issued.
BroughtOK(c) ==
    /\ callback[c].pc = "idle" \/ (callback[c].code # None /\ code[callback[c].code] # None)
    /\ callback[c].state # None => start[callback[c].state].pc = "redirected"
    /\ callback[c].pc \in {"select", "delete", "exchange"} \cup Known => callback[c].state # None

\* From its DELETE on, the row of its state is gone.
PoppedOK(c) ==
    callback[c].pc \in {"exchange"} \cup Known => callback[c].state \notin pending

\* An account was behind the code of the callback's own state, which is spent.
AccountOK(c) ==
    /\ callback[c].pc \in Anonymous => callback[c].account = None
    /\ callback[c].pc \in Known => callback[c].account # None
    /\ callback[c].account # None =>
          /\ callback[c].state # None /\ callback[c].code = callback[c].state
          /\ callback[c].state \in redeemed
          /\ callback[c].account = code[callback[c].state]
          /\ start[callback[c].state].provider = callback[c].provider

\* A user is the one that the table has for the account's address.
UserOK(c) ==
    /\ callback[c].pc \in Anonymous \cup {"userinfo", "upsert", "reject", "error"} =>
          callback[c].user = None
    /\ callback[c].pc \in {"succeed", "token"} => callback[c].user # None
    /\ callback[c].pc = "upsert" => EmailOfCallback(c) \in Emails
    /\ callback[c].user # None =>
          /\ callback[c].account # None
          /\ EmailOfCallback(c) \in Emails
          /\ users[EmailOfCallback(c)] = callback[c].user

AuditOK(c) ==
    /\ [by |-> c, action |-> "login_success"] \in audit =>
          callback[c].pc \in {"token", "crashed"} /\ callback[c].user # None
    /\ [by |-> c, action |-> "login_failed"] \in audit =>
          callback[c].pc \in {"error", "crashed"} /\ callback[c].user = None

CallbackOK(c) == BroughtOK(c) /\ PoppedOK(c) /\ AccountOK(c) /\ UserOK(c) /\ AuditOK(c)

\* A code is redeemed once.
OneAccount ==
    \A c, d \in Callbacks :
        (/\ callback[c].account # None /\ callback[d].account # None
         /\ callback[c].state = callback[d].state) => c = d

IInv == TypeOK /\ CodesFit /\ OneAccount /\ \A c \in Callbacks : CallbackOK(c)

----------------------------------------------------------------------------

LEMMA InitIInv == Init => IInv
  <1> SUFFICES ASSUME Init PROVE IInv
    OBVIOUS
  <1> USE OAuthConstants
  <1>1. /\ \A s \in Starts : start[s] \in [pc : {"idle"}, provider : Providers]
        /\ \A c \in Callbacks :
              callback[c] \in [pc : {"idle"}, provider : Providers, state : {None},
                               code : {None}, account : {None}, user : {None}]
    BY DEF Init
  <1>2. TypeOK
    BY <1>1 DEF Init, TypeOK, Start, Callback, Record
  <1>3. CodesFit /\ OneAccount
    BY <1>1 DEF Init, CodesFit, OneAccount
  <1>4. ASSUME NEW c \in Callbacks PROVE CallbackOK(c)
    BY <1>1 DEF Init, CallbackOK, BroughtOK, PoppedOK, AccountOK, UserOK, AuditOK,
                Anonymous, Known
  <1> QED BY <1>2, <1>3, <1>4 DEF IInv

\* A step of a login start: a state that was sent is not written again.
LEMMA StartIInv ==
    ASSUME IInv,
           UNCHANGED <<code, redeemed, callback, users, audit>>,
           start' \in [Starts -> Start],
           pending' \in SUBSET Starts,
           \A s \in Starts :
              /\ start'[s].provider = start[s].provider
              /\ start[s].pc = "redirected" =>
                    start'[s].pc = "redirected" /\ (s \in pending' => s \in pending)
    PROVE  IInv'
  <1>1. TypeOK'
    BY DEF IInv, TypeOK
  <1>2. CodesFit' /\ OneAccount'
    BY DEF IInv, CodesFit, OneAccount
  <1>3. ASSUME NEW c \in Callbacks PROVE CallbackOK(c)'
    <2>1. CallbackOK(c) /\ callback[c] \in Callback
      BY DEF IInv, TypeOK
    <2>2. BroughtOK(c)' /\ PoppedOK(c)' /\ AccountOK(c)'
      BY <2>1 DEF CallbackOK, BroughtOK, PoppedOK, AccountOK, Callback, Known
    <2>3. UserOK(c)' /\ AuditOK(c)'
      BY <2>1 DEF CallbackOK, UserOK, AuditOK, EmailOfCallback
    <2> QED BY <2>2, <2>3 DEF CallbackOK
  <1> QED BY <1>1, <1>2, <1>3 DEF IInv

\* A step of one callback: rows of states go, codes are spent, users stay, and only its
\* own audit changes.
LEMMA CallbackIInv ==
    ASSUME IInv, NEW c \in Callbacks,
           UNCHANGED <<start, code>>,
           callback' \in [Callbacks -> Callback],
           \A d \in Callbacks \ {c} : callback'[d] = callback[d],
           pending' \subseteq pending,
           redeemed \subseteq redeemed', redeemed' \subseteq Starts,
           users' \in [Emails -> Callbacks \cup {None}],
           \A e \in Emails : users[e] # None => users'[e] = users[e],
           audit' \in SUBSET Record,
           \A d \in Callbacks \ {c}, action \in {"login_success", "login_failed"} :
              [by |-> d, action |-> action] \in audit' => [by |-> d, action |-> action] \in audit,
           CallbackOK(c)',
           \A d \in Callbacks \ {c} :
              (callback'[c].account # None /\ callback[d].account # None) =>
                  callback'[c].state # callback[d].state
    PROVE  IInv'
  <1>1. TypeOK'
    BY DEF IInv, TypeOK
  <1>2. CodesFit'
    BY DEF IInv, CodesFit
  <1>3. OneAccount'
    BY DEF IInv, OneAccount
  <1>4. ASSUME NEW d \in Callbacks \ {c} PROVE CallbackOK(d)'
    <2>1. CallbackOK(d) /\ callback[d] \in Callback /\ callback'[d] = callback[d]
      BY DEF IInv, TypeOK
    <2>2. BroughtOK(d)' /\ PoppedOK(d)' /\ AccountOK(d)'
      BY <2>1 DEF CallbackOK, BroughtOK, PoppedOK, AccountOK
    <2>3. UserOK(d)'
      <3>1. callback[d].user \in Callbacks \cup {None}
        BY <2>1 DEF Callback
      <3> QED BY <2>1, <3>1 DEF CallbackOK, UserOK, EmailOfCallback
    <2>4. AuditOK(d)'
      BY <2>1 DEF CallbackOK, AuditOK
    <2> QED BY <2>2, <2>3, <2>4 DEF CallbackOK
  <1> QED BY <1>1, <1>2, <1>3, <1>4 DEF IInv

\* A step of a callback that only moves it, and may delete the row of its state or audit
\* it.
LEMMA MoveIInv ==
    ASSUME IInv, NEW c \in Callbacks, NEW from, NEW to,
           CallbackGo(c, from, to),
           to \in {"delete", "exchange", "upsert", "reject", "token", "error", "crashed"},
           pending' \subseteq pending,
           redeemed \subseteq redeemed', redeemed' \subseteq Starts,
           users' \in [Emails -> Callbacks \cup {None}],
           \A e \in Emails : users[e] # None => users'[e] = users[e],
           audit' \in SUBSET Record,
           \A d \in Callbacks \ {c}, action \in {"login_success", "login_failed"} :
              [by |-> d, action |-> action] \in audit' => [by |-> d, action |-> action] \in audit,
           to \in {"delete", "exchange", "upsert", "token"} => callback[c].state # None,
           to = "exchange" => callback[c].state \notin pending',
           to \in {"delete", "exchange"} => from \in Anonymous,
           to \in {"upsert", "token"} => from \in Known /\ callback[c].state \notin pending,
           to = "upsert" => from = "userinfo" /\ EmailOfCallback(c) \in Emails,
           to \in {"reject", "error"} => callback[c].user = None,
           to = "token" => callback[c].user # None,
           from # "idle",
           AuditOK(c)'
    PROVE  IInv'
  <1>1. callback[c] \in Callback /\ CallbackOK(c) /\ callback[c].pc = from
    BY DEF IInv, TypeOK, CallbackGo
  <1>2. /\ callback' \in [Callbacks -> Callback]
        /\ callback'[c] = [callback[c] EXCEPT !.pc = to]
        /\ \A d \in Callbacks \ {c} : callback'[d] = callback[d]
        /\ UNCHANGED <<start, code>>
    BY DEF IInv, TypeOK, CallbackGo, Callback
  <1>3. /\ callback'[c].pc = to /\ callback'[c].provider = callback[c].provider
        /\ callback'[c].state = callback[c].state /\ callback'[c].code = callback[c].code
        /\ callback'[c].account = callback[c].account /\ callback'[c].user = callback[c].user
    BY <1>1, <1>2 DEF Callback
  <1>4. CallbackOK(c)'
    <2>1. BroughtOK(c)'
      BY <1>1, <1>2, <1>3 DEF CallbackOK, BroughtOK, Known
    <2>2. PoppedOK(c)'
      BY <1>1, <1>2, <1>3 DEF CallbackOK, PoppedOK, Known
    <2>3. AccountOK(c)'
      BY <1>1, <1>2, <1>3 DEF CallbackOK, AccountOK, Known, Anonymous
    <2>4. UserOK(c)'
      <3>1. callback[c].user \in Callbacks \cup {None}
        BY <1>1 DEF Callback
      <3> QED BY <1>1, <1>2, <1>3, <3>1
              DEF CallbackOK, UserOK, Known, Anonymous, EmailOfCallback
    <2> QED BY <2>1, <2>2, <2>3, <2>4 DEF CallbackOK
  <1>5. \A d \in Callbacks \ {c} :
           (callback'[c].account # None /\ callback[d].account # None) =>
               callback'[c].state # callback[d].state
    BY <1>3 DEF IInv, OneAccount
  <1> QED BY <1>2, <1>4, <1>5, CallbackIInv

----------------------------------------------------------------------------

LEMMA LoginStartIInv ==
    ASSUME IInv, NEW s \in Starts, LoginStart(s)
    PROVE  IInv'
  <1> DEFINE to == start'[s].pc
  <1>1. /\ UNCHANGED <<code, redeemed, callback, users, audit>>
        /\ start[s].pc # "redirected"
        /\ \E pc \in {"redirect", "redirected", "cleanup", "failed"} :
              start' = [start EXCEPT ![s].pc = pc]
    BY DEF LoginStart, StartGo, SaveOauthPending, SaveFails, AuthorizeRedirect, RedirectRaises,
           CleanUp
  <1>2. pending' \in {pending, pending \cup {s}, pending \ {s}}
    BY DEF LoginStart, SaveOauthPending, SaveFails, AuthorizeRedirect, RedirectRaises, CleanUp
  <1>3. /\ start' \in [Starts -> Start]
        /\ \A t \in Starts : start'[t].provider = start[t].provider
        /\ \A t \in Starts \ {s} : start'[t] = start[t]
    BY <1>1 DEF IInv, TypeOK, Start
  <1>4. pending' \in SUBSET Starts
    BY <1>2 DEF IInv, TypeOK
  <1> QED BY <1>1, <1>2, <1>3, <1>4, StartIInv

LEMMA SignInIInv ==
    ASSUME IInv, NEW s \in Starts, NEW a \in Accounts, SignIn(s, a)
    PROVE  IInv'
  <1>1. /\ code[s] = None /\ ProviderOf[a] = start[s].provider
        /\ code' = [code EXCEPT ![s] = a] /\ code'[s] = a
        /\ \A t \in Starts \ {s} : code'[t] = code[t]
        /\ UNCHANGED <<start, pending, redeemed, callback, users, audit>>
    BY DEF SignIn, IInv, TypeOK
  <1>2. TypeOK' /\ CodesFit' /\ OneAccount'
    BY <1>1 DEF IInv, TypeOK, CodesFit, OneAccount
  <1>3. ASSUME NEW c \in Callbacks PROVE CallbackOK(c)'
    <2>1. CallbackOK(c) /\ callback[c] \in Callback
      BY DEF IInv, TypeOK
    <2>2. callback[c].code # s \/ callback[c].pc = "idle"
      BY <1>1, <2>1 DEF CallbackOK, BroughtOK
    <2>3. BroughtOK(c)' /\ PoppedOK(c)'
      BY <1>1, <2>1, <2>2, OAuthConstants DEF CallbackOK, BroughtOK, PoppedOK, Callback
    <2>4. AccountOK(c)'
      BY <1>1, <2>1, <2>2 DEF CallbackOK, AccountOK, Callback, Anonymous
    <2>5. UserOK(c)' /\ AuditOK(c)'
      BY <1>1, <2>1 DEF CallbackOK, UserOK, AuditOK, EmailOfCallback
    <2> QED BY <2>3, <2>4, <2>5 DEF CallbackOK
  <1> QED BY <1>2, <1>3 DEF IInv

LEMMA ReceiveIInv ==
    ASSUME IInv, NEW c \in Callbacks, Receive(c)
    PROVE  IInv'
  <1>1. callback[c] \in Callback /\ CallbackOK(c) /\ callback[c].pc = "idle"
    BY DEF IInv, TypeOK, Receive
  <1>2. PICK s \in {t \in Starts : start[t].pc = "redirected"} \cup {None},
             k \in {t \in Starts : code[t] # None} :
          callback' = [callback EXCEPT
              ![c] = [@ EXCEPT !.state = s, !.code = k,
                               !.pc = IF s = None THEN "reject" ELSE "select"]]
    BY DEF Receive
  <1>3. UNCHANGED <<start, pending, code, redeemed, users, audit>>
    BY DEF Receive
  <1>4. /\ callback'[c].pc = IF s = None THEN "reject" ELSE "select"
        /\ callback'[c].state = s /\ callback'[c].code = k
        /\ callback'[c].provider = callback[c].provider
        /\ callback'[c].account = callback[c].account /\ callback'[c].user = callback[c].user
        /\ callback' \in [Callbacks -> Callback]
        /\ \A d \in Callbacks \ {c} : callback'[d] = callback[d]
    BY <1>1, <1>2 DEF IInv, TypeOK, Callback
  <1>5. callback[c].account = None /\ callback[c].user = None
    BY <1>1 DEF CallbackOK, AccountOK, UserOK, Anonymous
  <1>6. CallbackOK(c)'
    <2>1. BroughtOK(c)' /\ PoppedOK(c)'
      BY <1>3, <1>4, OAuthConstants DEF BroughtOK, PoppedOK, Known
    <2>2. AccountOK(c)' /\ UserOK(c)'
      BY <1>4, <1>5 DEF AccountOK, UserOK, Known
    <2>3. AuditOK(c)'
      BY <1>1, <1>3 DEF CallbackOK, AuditOK
    <2> QED BY <2>1, <2>2, <2>3 DEF CallbackOK
  <1>7. /\ pending' \subseteq pending /\ redeemed \subseteq redeemed' /\ redeemed' \subseteq Starts
        /\ users' \in [Emails -> Callbacks \cup {None}] /\ audit' \in SUBSET Record
    BY <1>3 DEF IInv, TypeOK
  <1> QED BY <1>3, <1>4, <1>5, <1>6, <1>7, CallbackIInv

\* What an audit of c may do to the trail.
LEMMA AuditStep ==
    ASSUME IInv, NEW c \in Callbacks, NEW action \in {"login_success", "login_failed"},
           AuditAuthEvent(c, action)
    PROVE  /\ audit' \in SUBSET Record
           /\ \A record \in audit' : record \in audit \/ record = [by |-> c, action |-> action]
  BY DEF AuditAuthEvent, IInv, TypeOK, Record

\* The statements of a callback that leave the users and the trail alone.
LEMMA PopIInv ==
    ASSUME IInv, NEW c \in Callbacks,
           SelectPending(c) \/ DeletePending(c) \/ PopFails(c)
    PROVE  IInv'
  <1>1. /\ callback[c] \in Callback /\ CallbackOK(c)
        /\ redeemed \in SUBSET Starts /\ users \in [Emails -> Callbacks \cup {None}]
        /\ audit \in SUBSET Record
    BY DEF IInv, TypeOK
  <1>2. UNCHANGED <<redeemed, users, audit>>
    BY DEF SelectPending, DeletePending, PopFails
  <1>3. pending' \subseteq pending
    BY DEF SelectPending, DeletePending, PopFails
  <1>4. \E to \in {"delete", "exchange", "reject", "error"} :
           /\ CallbackGo(c, callback[c].pc, to)
           /\ callback[c].pc \in {"select", "delete"}
           /\ to = "exchange" => callback[c].state \notin pending'
    BY DEF SelectPending, DeletePending, PopFails, CallbackGo
  <1>5. PICK to \in {"delete", "exchange", "reject", "error"} :
           /\ CallbackGo(c, callback[c].pc, to)
           /\ callback[c].pc \in {"select", "delete"}
           /\ to = "exchange" => callback[c].state \notin pending'
    BY <1>4
  <1>6. callback[c].state # None /\ callback[c].user = None
    BY <1>1, <1>5 DEF CallbackOK, BroughtOK, UserOK, Anonymous
  <1>7. AuditOK(c)'
    BY <1>1, <1>2, <1>5 DEF CallbackOK, AuditOK
  <1> QED BY <1>1, <1>2, <1>3, <1>5, <1>6, <1>7, MoveIInv DEF Anonymous

LEMMA ExchangeIInv ==
    ASSUME IInv, NEW c \in Callbacks, Exchange(c)
    PROVE  IInv'
  <1>1. /\ callback[c] \in Callback /\ CallbackOK(c) /\ callback[c].pc = "exchange"
        /\ redeemed \in SUBSET Starts /\ code \in [Starts -> Accounts \cup {None}]
    BY DEF IInv, TypeOK, Exchange
  <1>2. /\ callback[c].code \notin redeemed /\ callback[c].state = callback[c].code
        /\ start[callback[c].code].provider = callback[c].provider
    BY DEF Exchange, Exchangeable
  <1>3. /\ callback[c].state # None /\ callback[c].state \in Starts
        /\ code[callback[c].code] # None /\ callback[c].user = None
        /\ callback[c].state \notin pending
        /\ start[callback[c].state].pc = "redirected"
    BY <1>1 DEF CallbackOK, BroughtOK, PoppedOK, UserOK, Anonymous, Callback
  <1>4. /\ redeemed' = redeemed \cup {callback[c].code}
        /\ UNCHANGED <<start, pending, code, users, audit>>
    BY DEF Exchange
  <1>5. /\ callback'[c].pc = "userinfo" /\ callback'[c].account = code[callback[c].code]
        /\ callback'[c].state = callback[c].state /\ callback'[c].code = callback[c].code
        /\ callback'[c].provider = callback[c].provider /\ callback'[c].user = callback[c].user
        /\ callback' \in [Callbacks -> Callback]
        /\ \A d \in Callbacks \ {c} : callback'[d] = callback[d]
    <2>1. code[callback[c].code] \in Accounts
      BY <1>1, <1>2, <1>3
    <2>2. callback \in [Callbacks -> Callback]
      BY DEF IInv, TypeOK
    <2>3. callback'[c] = [callback[c] EXCEPT !.pc = "userinfo",
                                             !.account = code[callback[c].code]]
      BY <2>2 DEF Exchange
    <2>4. callback'[c] \in Callback
      BY <1>1, <2>1, <2>3 DEF Callback
    <2> QED BY <1>1, <2>2, <2>3, <2>4 DEF Exchange, Callback
  <1>6. CallbackOK(c)'
    <2>1. BroughtOK(c)' /\ PoppedOK(c)' /\ AccountOK(c)'
      BY <1>2, <1>3, <1>4, <1>5 DEF BroughtOK, PoppedOK, AccountOK, Anonymous
    <2>2. UserOK(c)'
      BY <1>3, <1>5 DEF UserOK
    <2>3. AuditOK(c)'
      BY <1>1, <1>4 DEF CallbackOK, AuditOK
    <2> QED BY <2>1, <2>2, <2>3 DEF CallbackOK
  <1>7. \A d \in Callbacks \ {c} :
           (callback'[c].account # None /\ callback[d].account # None) =>
               callback'[c].state # callback[d].state
    BY <1>2, <1>5 DEF IInv, CallbackOK, AccountOK
  <1>8. /\ pending' \subseteq pending /\ redeemed \subseteq redeemed' /\ redeemed' \subseteq Starts
        /\ users' \in [Emails -> Callbacks \cup {None}] /\ audit' \in SUBSET Record
    BY <1>1, <1>2, <1>3, <1>4 DEF IInv, TypeOK
  <1> QED BY <1>4, <1>5, <1>6, <1>7, <1>8, CallbackIInv

\* A callback that goes to "reject" has no user yet.
LEMMA RejectedIInv ==
    ASSUME IInv, NEW c \in Callbacks,
           ExchangeRefused(c) \/ ExchangeRaises(c) \/ UserInfoFails(c) \/ UpsertFails(c)
    PROVE  IInv'
  <1>1. /\ callback[c] \in Callback /\ CallbackOK(c)
        /\ redeemed \in SUBSET Starts /\ users \in [Emails -> Callbacks \cup {None}]
        /\ audit \in SUBSET Record
    BY DEF IInv, TypeOK
  <1>2. /\ CallbackGo(c, callback[c].pc, "reject")
        /\ callback[c].pc \in {"exchange", "userinfo", "upsert"}
        /\ UNCHANGED <<pending, audit>>
    BY DEF ExchangeRefused, ExchangeRaises, UserInfoFails, UpsertFails, CallbackGo
  <1>3. callback[c].user = None /\ AuditOK(c)'
    BY <1>1, <1>2 DEF CallbackOK, UserOK, AuditOK, Anonymous
  <1>4. redeemed \subseteq redeemed' /\ redeemed' \subseteq Starts
    <2>1. callback[c].code # None /\ callback[c].code \in Starts
      BY <1>1, <1>2 DEF CallbackOK, BroughtOK, Callback
    <2> QED BY <1>1, <2>1 DEF ExchangeRefused, ExchangeRaises, UserInfoFails, UpsertFails
  <1>5. /\ users' \in [Emails -> Callbacks \cup {None}]
        /\ \A e \in Emails : users[e] # None => users'[e] = users[e]
    BY <1>1 DEF ExchangeRefused, ExchangeRaises, UserInfoFails, UpsertFails, Upserted
  <1> QED BY <1>1, <1>2, <1>3, <1>4, <1>5, MoveIInv

LEMMA UserInfoIInv ==
    ASSUME IInv, NEW c \in Callbacks, UserInfo(c)
    PROVE  IInv'
  <1>1. /\ callback[c] \in Callback /\ CallbackOK(c) /\ callback[c].pc = "userinfo"
        /\ redeemed \in SUBSET Starts /\ users \in [Emails -> Callbacks \cup {None}]
        /\ audit \in SUBSET Record
        /\ UNCHANGED <<pending, redeemed, users, audit>>
    BY DEF IInv, TypeOK, UserInfo, CallbackGo
  <1>2. callback[c].account # None /\ callback[c].user = None /\ callback[c].state # None
        /\ callback[c].state \notin pending
    BY <1>1 DEF CallbackOK, AccountOK, UserOK, BroughtOK, PoppedOK, Known
  <1>3. EmailOfCallback(c) \in Emails \cup {NoEmail}
    BY <1>1, <1>2, OAuthConstants DEF EmailOfCallback, Callback
  <1>4. AuditOK(c)'
    BY <1>1 DEF CallbackOK, AuditOK
  <1>5. CASE EmailOfCallback(c) = NoEmail
    BY <1>1, <1>2, <1>4, <1>5, MoveIInv DEF UserInfo
  <1>6. CASE EmailOfCallback(c) # NoEmail
    BY <1>1, <1>2, <1>3, <1>4, <1>6, MoveIInv DEF UserInfo, Known
  <1> QED BY <1>5, <1>6

LEMMA UpsertUserIInv ==
    ASSUME IInv, NEW c \in Callbacks, UpsertUser(c)
    PROVE  IInv'
  <1>1. /\ callback[c] \in Callback /\ CallbackOK(c) /\ callback[c].pc = "upsert"
        /\ users \in [Emails -> Callbacks \cup {None}]
        /\ UNCHANGED <<start, pending, code, redeemed, audit>>
    BY DEF IInv, TypeOK, UpsertUser
  <1>2. /\ callback[c].account # None /\ EmailOfCallback(c) \in Emails
        /\ callback[c].state # None
    BY <1>1 DEF CallbackOK, AccountOK, UserOK, BroughtOK, Known
  <1>3. /\ users' \in [Emails -> Callbacks \cup {None}]
        /\ \A e \in Emails : users[e] # None => users'[e] = users[e]
        /\ users'[EmailOfCallback(c)] \in Callbacks /\ users'[EmailOfCallback(c)] # None
    BY <1>1, <1>2, OAuthConstants DEF UpsertUser, Upserted
  <1>4. /\ callback'[c].pc = "succeed" /\ callback'[c].user = users'[EmailOfCallback(c)]
        /\ callback'[c].state = callback[c].state /\ callback'[c].code = callback[c].code
        /\ callback'[c].provider = callback[c].provider
        /\ callback'[c].account = callback[c].account
        /\ callback' \in [Callbacks -> Callback]
        /\ \A d \in Callbacks \ {c} : callback'[d] = callback[d]
    BY <1>1, <1>3 DEF UpsertUser, IInv, TypeOK, Callback
  <1>5. CallbackOK(c)'
    <2>1. BroughtOK(c)' /\ PoppedOK(c)' /\ AccountOK(c)'
      BY <1>1, <1>2, <1>4 DEF CallbackOK, BroughtOK, PoppedOK, AccountOK, Anonymous, Known
    <2>2. UserOK(c)'
      BY <1>2, <1>3, <1>4 DEF UserOK, Anonymous, EmailOfCallback
    <2>3. AuditOK(c)'
      BY <1>1 DEF CallbackOK, AuditOK
    <2> QED BY <2>1, <2>2, <2>3 DEF CallbackOK
  <1>6. \A d \in Callbacks \ {c} :
           (callback'[c].account # None /\ callback[d].account # None) =>
               callback'[c].state # callback[d].state
    BY <1>4 DEF IInv, OneAccount
  <1>7. /\ pending' \subseteq pending /\ redeemed \subseteq redeemed' /\ redeemed' \subseteq Starts
        /\ audit' \in SUBSET Record
    BY <1>1 DEF IInv, TypeOK
  <1> QED BY <1>1, <1>3, <1>4, <1>5, <1>6, <1>7, CallbackIInv

LEMMA AnswerIInv ==
    ASSUME IInv, NEW c \in Callbacks, Succeed(c) \/ Reject(c) \/ Crash(c)
    PROVE  IInv'
  <1>1. /\ callback[c] \in Callback /\ CallbackOK(c)
        /\ redeemed \in SUBSET Starts /\ users \in [Emails -> Callbacks \cup {None}]
        /\ audit \in SUBSET Record
        /\ UNCHANGED <<pending, redeemed, users>>
    BY DEF IInv, TypeOK, Succeed, Reject, Crash
  <1>2. /\ [by |-> c, action |-> "login_success"] \in audit => callback[c].pc \in {"token", "crashed"}
        /\ [by |-> c, action |-> "login_failed"] \in audit => callback[c].pc \in {"error", "crashed"}
    BY <1>1 DEF CallbackOK, AuditOK
  <1>3. CASE Succeed(c)
    <2>1. CallbackGo(c, "succeed", "token") /\ AuditAuthEvent(c, "login_success")
      BY <1>3 DEF Succeed
    <2>2. callback[c].pc = "succeed" /\ callback'[c].pc = "token" /\ callback'[c].user = callback[c].user
      BY <1>1, <2>1 DEF CallbackGo, Callback, IInv, TypeOK
    <2>3. callback[c].user # None /\ callback[c].state # None /\ callback[c].state \notin pending
      BY <1>1, <2>2 DEF CallbackOK, UserOK, BroughtOK, PoppedOK, Known
    <2>4. AuditOK(c)'
      BY <1>2, <2>1, <2>2, <2>3, AuditStep DEF AuditOK
    <2> QED BY <1>1, <2>1, <2>3, <2>4, AuditStep, MoveIInv DEF Known
  <1>4. CASE Reject(c)
    <2>1. CallbackGo(c, "reject", "error") /\ AuditAuthEvent(c, "login_failed")
      BY <1>4 DEF Reject
    <2>2. callback[c].pc = "reject" /\ callback'[c].pc = "error" /\ callback'[c].user = callback[c].user
      BY <1>1, <2>1 DEF CallbackGo, Callback, IInv, TypeOK
    <2>3. callback[c].user = None
      BY <1>1, <2>2 DEF CallbackOK, UserOK
    <2>4. AuditOK(c)'
      BY <1>2, <2>1, <2>2, <2>3, AuditStep DEF AuditOK
    <2> QED BY <1>1, <2>1, <2>3, <2>4, AuditStep, MoveIInv
  <1>5. CASE Crash(c)
    <2>1. /\ CallbackGo(c, callback[c].pc, "crashed")
          /\ callback[c].pc \notin {"idle", "token", "error", "crashed"}
      BY <1>5 DEF Crash, Answered
    <2>2. callback'[c].pc = "crashed" /\ callback'[c].user = callback[c].user
      BY <1>1, <2>1 DEF CallbackGo, Callback, IInv, TypeOK
    <2>3. CASE UNCHANGED audit
      <3>1. AuditOK(c)'
        BY <1>2, <2>1, <2>3 DEF AuditOK
      <3> QED BY <1>1, <2>1, <2>3, <3>1, MoveIInv
    <2>4. CASE callback[c].pc = "succeed" /\ AuditAuthEvent(c, "login_success")
      <3>1. callback[c].user # None
        BY <1>1, <2>4 DEF CallbackOK, UserOK
      <3>2. AuditOK(c)'
        BY <1>2, <2>1, <2>2, <2>4, <3>1, AuditStep DEF AuditOK
      <3> QED BY <1>1, <2>1, <2>4, <3>2, AuditStep, MoveIInv
    <2>5. CASE callback[c].pc = "reject" /\ AuditAuthEvent(c, "login_failed")
      <3>1. callback[c].user = None
        BY <1>1, <2>5 DEF CallbackOK, UserOK
      <3>2. AuditOK(c)'
        BY <1>2, <2>1, <2>2, <2>5, <3>1, AuditStep DEF AuditOK
      <3> QED BY <1>1, <2>1, <2>5, <3>2, AuditStep, MoveIInv
    <2> QED BY <1>5, <2>3, <2>4, <2>5 DEF Crash
  <1> QED BY <1>3, <1>4, <1>5

LEMMA NextIInv == IInv /\ [Next]_vars => IInv'
  <1> SUFFICES ASSUME IInv, [Next]_vars PROVE IInv'
    OBVIOUS
  <1>1. ASSUME NEW s \in Starts, LoginStart(s) PROVE IInv'
    BY <1>1, LoginStartIInv
  <1>2. ASSUME NEW s \in Starts, NEW a \in Accounts, SignIn(s, a) PROVE IInv'
    BY <1>2, SignInIInv
  <1>3. ASSUME NEW c \in Callbacks, Receive(c) PROVE IInv'
    BY <1>3, ReceiveIInv
  <1>4. ASSUME NEW c \in Callbacks, HandleCallback(c) PROVE IInv'
    BY <1>4, PopIInv, ExchangeIInv, RejectedIInv, UserInfoIInv, UpsertUserIInv, AnswerIInv
    DEF HandleCallback
  <1>5. ASSUME NEW c \in Callbacks, AwaitRaises(c) PROVE IInv'
    BY <1>5, PopIInv, RejectedIInv DEF AwaitRaises
  <1>6. ASSUME NEW c \in Callbacks, Crash(c) PROVE IInv'
    BY <1>6, AnswerIInv
  <1>7. CASE UNCHANGED vars
    BY <1>7 DEF vars, IInv, TypeOK, CodesFit, OneAccount, CallbackOK, BroughtOK, PoppedOK,
                AccountOK, UserOK, AuditOK, EmailOfCallback
  <1> QED BY <1>1, <1>2, <1>3, <1>4, <1>5, <1>6, <1>7 DEF Next

\* The inductive invariant holds in every reachable state.
THEOREM Invariance == Spec => []IInv
  <1> QED BY InitIInv, NextIInv, PTL DEF Spec

----------------------------------------------------------------------------

\* Every variable keeps its type, for any number of logins and callbacks.
THEOREM TypeCorrect == Spec => []TypeOK
  <1>1. IInv => TypeOK
    BY DEF IInv
  <1> QED BY <1>1, Invariance, PTL

\* A token is for the account that signed in for the callback's own state, and the only
\* one for that state (callback), though pop_oauth_pending is no transaction.
THEOREM LoginIsOne == Spec => []LoginIsTheOneStarted
  <1>1. IInv => LoginIsTheOneStarted
    <2> SUFFICES ASSUME IInv, NEW c \in Callbacks, LoggedIn(c)
                 PROVE  /\ callback[c].account = code[callback[c].state]
                        /\ ProviderOf[callback[c].account] = callback[c].provider
                        /\ \A d \in Callbacks :
                              LoggedIn(d) /\ callback[d].state = callback[c].state => d = c
      BY DEF LoginIsTheOneStarted
    <2>1. \A d \in Callbacks : LoggedIn(d) => callback[d].account # None
      BY DEF IInv, CallbackOK, UserOK, LoggedIn
    <2>2. /\ callback[c].account = code[callback[c].state]
          /\ callback[c].state # None /\ callback[c].state \in Starts
          /\ start[callback[c].state].provider = callback[c].provider
      BY <2>1 DEF IInv, TypeOK, CallbackOK, AccountOK, Callback
    <2>3. ProviderOf[callback[c].account] = callback[c].provider
      BY <2>1, <2>2 DEF IInv, CodesFit
    <2> QED BY <2>1, <2>2, <2>3 DEF IInv, OneAccount
  <1> QED BY <1>1, Invariance, PTL

\* The tokens of one address name the row that the users table has for it (upsert_user).
THEOREM OneUser == Spec => []TokensNameOneUser
  <1>1. IInv => TokensNameOneUser
    BY DEF IInv, CallbackOK, UserOK, TokensNameOneUser, LoggedIn
  <1> QED BY <1>1, Invariance, PTL

\* No callback is audited against its answer (audit_auth_event).
THEOREM AuditsMatch == Spec => []AuditMatchesAnswer
  <1>1. IInv => AuditMatchesAnswer
    BY DEF IInv, CallbackOK, AuditOK, AuditMatchesAnswer, LoggedIn
  <1> QED BY <1>1, Invariance, PTL

\* A state that one callback has popped is found by no other (pop_oauth_pending).
THEOREM PoppedOnce == Spec => PoppedStateIsUnknown
  <1>1. ASSUME IInv, [Next]_vars
        PROVE  [\A c, d \in Callbacks :
                  (/\ callback[c].pc = "select" /\ callback'[c].pc = "delete"
                   /\ callback[d].state = callback[c].state) =>
                      callback[d].pc \notin {"exchange", "userinfo", "upsert", "succeed", "token"}]_vars
    <2> SUFFICES ASSUME NEW c \in Callbacks, NEW d \in Callbacks,
                        callback[c].pc = "select", callback'[c].pc = "delete",
                        callback[d].state = callback[c].state
                 PROVE  callback[d].pc \notin {"exchange", "userinfo", "upsert", "succeed", "token"}
      OBVIOUS
    <2>1. callback[c].state \in pending
      <3>1. callback \in [Callbacks -> Callback]
        BY <1>1 DEF IInv, TypeOK
      <3>2. ASSUME NEW e \in Callbacks, HandleCallback(e) \/ AwaitRaises(e), callback[c].state \notin pending
            PROVE  FALSE
        BY <3>1, <3>2 DEF HandleCallback, SelectPending, DeletePending, Exchange, ExchangeRefused,
           UserInfo, UpsertUser, Succeed, Reject, CallbackGo, AwaitRaises, PopFails, ExchangeRaises,
           UserInfoFails, UpsertFails, Callback
      <3>3. ASSUME NEW e \in Callbacks, Receive(e) \/ Crash(e) PROVE FALSE
        BY <3>1, <3>3 DEF Receive, Crash, CallbackGo, Callback
      <3>4. ASSUME NEW s \in Starts, LoginStart(s) \/ \E a \in Accounts : SignIn(s, a) PROVE FALSE
        BY <3>4 DEF LoginStart, StartGo, SaveOauthPending, SaveFails, AuthorizeRedirect,
           RedirectRaises, CleanUp, SignIn
      <3> QED BY <1>1, <3>2, <3>3, <3>4 DEF Next, vars
    <2> QED BY <1>1, <2>1 DEF IInv, CallbackOK, PoppedOK, Known
  <1> QED BY <1>1, Invariance, PTL DEF Spec, PoppedStateIsUnknown


----------------------------------------------------------------------------
(* The auth service implements LoginSessions.                              *)

LoggedInCallbacks == {c \in Callbacks : LoggedIn(c)}

shown == <<code, users, SessionsOf(LoggedInCallbacks)>>

\* A step that logs nobody in leaves the sessions alone.
LEMMA SessionsStay ==
    ASSUME IInv, NEW c \in Callbacks,
           \A d \in Callbacks \ {c} : callback'[d] = callback[d],
           callback'[c].user = callback[c].user,
           LoggedIn(c) => callback'[c].state = callback[c].state
    PROVE  UNCHANGED SessionsOf(LoggedInCallbacks)
  <1>1. \A d \in Callbacks :
           /\ LoggedIn(d)' <=> LoggedIn(d)
           /\ LoggedIn(d) => callback'[d].state = callback[d].state
                             /\ callback'[d].user = callback[d].user
    BY DEF LoggedIn
  <1> QED BY <1>1 DEF SessionsOf, LoggedInCallbacks

LEMMA GoStays ==
    ASSUME IInv, NEW c \in Callbacks, NEW from, NEW to, CallbackGo(c, from, to)
    PROVE  UNCHANGED SessionsOf(LoggedInCallbacks) /\ UNCHANGED code
  <1>1. callback \in [Callbacks -> Callback]
    BY DEF IInv, TypeOK
  <1>2. /\ callback'[c].user = callback[c].user /\ callback'[c].state = callback[c].state
        /\ \A d \in Callbacks \ {c} : callback'[d] = callback[d]
    BY <1>1 DEF CallbackGo, Callback
  <1> QED BY <1>2, SessionsStay DEF CallbackGo

LEMMA SignInStep ==
    ASSUME NEW s \in Starts, NEW a \in Accounts, SignIn(s, a)
    PROVE  Logins!Next
  <1>1. UNCHANGED SessionsOf(LoggedInCallbacks)
    BY DEF SignIn, SessionsOf, LoggedInCallbacks, LoggedIn
  <1>2. Logins!SignIn(s, a)
    BY <1>1 DEF SignIn, Logins!SignIn, LoggedInCallbacks
  <1> QED BY <1>2 DEF Logins!Next

\* At its upsert, a callback has the account of its own login, and no other callback has
\* a session of that login.
LEMMA UpsertReady ==
    ASSUME IInv, NEW c \in Callbacks, callback[c].pc = "upsert"
    PROVE  /\ callback[c].state \in Starts
           /\ code[callback[c].state] # None
           /\ EmailOfCallback(c) = Logins!Address(callback[c].state)
           /\ EmailOfCallback(c) \in Emails
           /\ ~LoggedIn(c)
           /\ \A x \in SessionsOf(LoggedInCallbacks) : x.by # c /\ x.login # callback[c].state
  <1>1. /\ callback[c] \in Callback /\ CallbackOK(c)
        /\ code[callback[c].state] = callback[c].account /\ callback[c].account # None
        /\ callback[c].state # None
    BY DEF IInv, TypeOK, CallbackOK, AccountOK, Known
  <1>2. callback[c].state \in Starts
    BY <1>1 DEF Callback
  <1>3. /\ EmailOfCallback(c) = Logins!Address(callback[c].state)
        /\ EmailOfCallback(c) \in Emails /\ ~LoggedIn(c)
    BY <1>1 DEF EmailOfCallback, Logins!Address, CallbackOK, UserOK, LoggedIn
  <1>4. ASSUME NEW d \in Callbacks, LoggedIn(d)
        PROVE  d # c /\ callback[d].state # callback[c].state
    <2>1. callback[d].account # None
      BY <1>4 DEF IInv, CallbackOK, UserOK, LoggedIn
    <2>2. d # c
      BY <1>3, <1>4
    <2> QED BY <1>1, <2>1, <2>2 DEF IInv, OneAccount
  <1> QED BY <1>1, <1>2, <1>3, <1>4 DEF SessionsOf, LoggedInCallbacks

LEMMA UpsertUserStep ==
    ASSUME IInv, NEW c \in Callbacks, UpsertUser(c)
    PROVE  Logins!Next
  <1> DEFINE s == callback[c].state
             x == [by |-> c, login |-> s, user |-> users'[EmailOfCallback(c)]]
  <1>1. /\ callback[c].pc = "upsert" /\ UNCHANGED code /\ users' = Upserted(c)
        /\ callback[c] \in Callback /\ users \in [Emails -> Callbacks \cup {None}]
    BY DEF UpsertUser, IInv, TypeOK
  <1>2. /\ s \in Starts /\ code[s] # None
        /\ EmailOfCallback(c) = Logins!Address(s) /\ EmailOfCallback(c) \in Emails
        /\ ~LoggedIn(c)
        /\ \A y \in SessionsOf(LoggedInCallbacks) : y.by # c /\ y.login # s
    BY <1>1, UpsertReady
  <1>3. users'[EmailOfCallback(c)] # None
    BY <1>1, <1>2, OAuthConstants DEF Upserted
  <1>4. /\ callback'[c].user = users'[EmailOfCallback(c)] /\ callback'[c].state = s
        /\ \A d \in Callbacks \ {c} : callback'[d] = callback[d]
    BY DEF UpsertUser, IInv, TypeOK, Callback
  <1>5. /\ LoggedIn(c)'
        /\ \A d \in Callbacks \ {c} : LoggedIn(d)' <=> LoggedIn(d)
    BY <1>3, <1>4 DEF LoggedIn
  <1>6. SessionsOf(LoggedInCallbacks)' = SessionsOf(LoggedInCallbacks) \cup {x}
    <2>1. LoggedInCallbacks' = LoggedInCallbacks \cup {c} /\ c \notin LoggedInCallbacks
          /\ LoggedInCallbacks \subseteq Callbacks \ {c}
      BY <1>2, <1>5 DEF LoggedInCallbacks
    <2>2. \A d \in LoggedInCallbacks : callback'[d] = callback[d]
      BY <1>4, <2>1
    <2> QED BY <1>4, <2>1, <2>2 DEF SessionsOf
  <1>7. Logins!Enrol(c, s)
    BY <1>1, <1>2 DEF Logins!Enrol, Upserted, LoggedInCallbacks
  <1>8. Logins!LogIn(c, s)
    BY <1>2, <1>6, <1>7 DEF Logins!LogIn, LoggedInCallbacks
  <1> QED BY <1>2, <1>8 DEF Logins!Next

LEMMA UpsertFailsStep ==
    ASSUME IInv, NEW c \in Callbacks, UpsertFails(c)
    PROVE  Logins!Next \/ UNCHANGED shown
  <1> DEFINE s == callback[c].state
  <1>1. UNCHANGED SessionsOf(LoggedInCallbacks) /\ UNCHANGED code
    BY GoStays DEF UpsertFails
  <1>2. callback[c].pc = "upsert" /\ (users' = users \/ users' = Upserted(c))
    BY DEF UpsertFails, CallbackGo
  <1>3. CASE users' = Upserted(c)
    <2>1. /\ s \in Starts /\ code[s] # None
          /\ EmailOfCallback(c) = Logins!Address(s) /\ EmailOfCallback(c) \in Emails
          /\ \A y \in SessionsOf(LoggedInCallbacks) : y.by # c /\ y.login # s
      BY <1>2, UpsertReady DEF UpsertFails, CallbackGo
    <2>2. Logins!Enrol(c, s)
      BY <1>1, <1>3, <2>1 DEF Logins!Enrol, Upserted, LoggedInCallbacks
    <2>3. Logins!EnrolOnly(c, s)
      BY <1>1, <2>2 DEF Logins!EnrolOnly, LoggedInCallbacks
    <2> QED BY <2>1, <2>3 DEF Logins!Next
  <1> QED BY <1>1, <1>2, <1>3 DEF shown

LEMMA QuietStep ==
    ASSUME IInv, NEW c \in Callbacks,
           \/ Receive(c) \/ Exchange(c) \/ Crash(c) \/ PopFails(c) \/ ExchangeRaises(c)
           \/ UserInfoFails(c) \/ SelectPending(c) \/ DeletePending(c)
           \/ ExchangeRefused(c) \/ UserInfo(c) \/ Succeed(c) \/ Reject(c)
    PROVE  UNCHANGED shown
  <1>1. CASE Receive(c) \/ Exchange(c)
    <2>1. callback \in [Callbacks -> Callback] /\ callback[c] \in Callback
      BY DEF IInv, TypeOK
    <2>2. /\ callback'[c].user = callback[c].user
          /\ \A d \in Callbacks \ {c} : callback'[d] = callback[d]
          /\ UNCHANGED <<code, users>>
          /\ callback[c].pc = "idle" \/ callback'[c].state = callback[c].state
      <3>1. CASE Receive(c)
        <4>1. PICK s \in {t \in Starts : start[t].pc = "redirected"} \cup {None},
                   k \in {t \in Starts : code[t] # None} :
                callback' = [callback EXCEPT
                    ![c] = [@ EXCEPT !.state = s, !.code = k,
                                     !.pc = IF s = None THEN "reject" ELSE "select"]]
          BY <3>1 DEF Receive
        <4> QED BY <2>1, <3>1, <4>1 DEF Receive, Callback
      <3>2. CASE Exchange(c)
        BY <2>1, <3>2 DEF Exchange, Callback
      <3> QED BY <1>1, <3>1, <3>2
    <2>3. callback[c].pc = "idle" => ~LoggedIn(c)
      BY DEF IInv, CallbackOK, UserOK, Anonymous, LoggedIn
    <2>4. UNCHANGED SessionsOf(LoggedInCallbacks)
      BY <2>2, <2>3, SessionsStay
    <2> QED BY <2>2, <2>4 DEF shown
  <1>2. CASE ~(Receive(c) \/ Exchange(c))
    <2>1. UNCHANGED users
      BY <1>2 DEF Crash, PopFails, ExchangeRaises, UserInfoFails, SelectPending, DeletePending,
                  ExchangeRefused, UserInfo, Succeed, Reject
    <2>3. \E from, to : CallbackGo(c, from, to)
      <3>1. CASE Crash(c) \/ PopFails(c) \/ ExchangeRaises(c) \/ UserInfoFails(c)
        BY <3>1, Zenon DEF Crash, PopFails, ExchangeRaises, UserInfoFails
      <3>2. CASE SelectPending(c) \/ DeletePending(c) \/ ExchangeRefused(c)
        BY <3>2, Zenon DEF SelectPending, DeletePending, ExchangeRefused
      <3>3. CASE UserInfo(c) \/ Succeed(c) \/ Reject(c)
        BY <3>3, Zenon DEF UserInfo, Succeed, Reject
      <3> QED BY <1>2, <3>1, <3>2, <3>3
    <2>2. UNCHANGED SessionsOf(LoggedInCallbacks) /\ UNCHANGED code
      BY <2>3, GoStays
    <2> QED BY <2>1, <2>2 DEF shown
  <1> QED BY <1>1, <1>2

\* However callbacks race, repeat and fail, sessions and users change only as LoginSessions
\* allows (callback, upsert_user).
THEOREM LoginsImplemented == Spec => ImplementsLogins
  <1>1. Init => Logins!Init
    <2> SUFFICES ASSUME Init PROVE Logins!Init
      OBVIOUS
    <2>1. LoggedInCallbacks = {}
      BY DEF Init, LoggedInCallbacks, LoggedIn
    <2>2. SessionsOf(LoggedInCallbacks) = {}
      BY <2>1 DEF SessionsOf
    <2> QED BY <2>2 DEF Init, Logins!Init, LoggedInCallbacks
  <1>2. ASSUME IInv, [Next]_vars PROVE [Logins!Next]_shown
    <2>1. ASSUME NEW s \in Starts, LoginStart(s) PROVE UNCHANGED shown
      BY <2>1 DEF LoginStart, SaveOauthPending, SaveFails, AuthorizeRedirect, RedirectRaises,
                  CleanUp, StartGo, shown, SessionsOf, LoggedInCallbacks, LoggedIn
    <2>2. ASSUME NEW c \in Callbacks,
                 Receive(c) \/ HandleCallback(c) \/ AwaitRaises(c) \/ Crash(c)
          PROVE  Logins!Next \/ UNCHANGED shown
      BY <1>2, <2>2, QuietStep, UpsertUserStep, UpsertFailsStep DEF HandleCallback, AwaitRaises
    <2>3. CASE UNCHANGED vars
      BY <2>3 DEF vars, shown, SessionsOf, LoggedInCallbacks, LoggedIn
    <2> QED BY <1>2, <2>1, <2>2, <2>3, SignInStep DEF Next
  <1> QED BY <1>1, <1>2, Invariance, PTL
          DEF Spec, ImplementsLogins, Logins!Spec, shown, LoggedInCallbacks
===============================================================================
