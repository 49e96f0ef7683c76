---------------------------- MODULE LoginSessions ----------------------------
(***************************************************************************)
(* What the auth service promises those who log in, without saying how:    *)
(* a login makes one session at most, for the user row of the address of   *)
(* the account that signed in for it, and an address keeps its user row.   *)
(***************************************************************************)

CONSTANTS Starts, Callbacks, Accounts, Emails, EmailOf, None

VARIABLES
    signedIn,   \* the account that signed in for each login
    users,      \* the user of each address
    sessions    \* who was logged in: the callback, the login, the user

Init ==
    /\ signedIn = [s \in Starts |-> None]
    /\ users = [e \in Emails |-> None]
    /\ sessions = {}

SignIn(s, a) ==
    /\ signedIn[s] = None
    /\ signedIn' = [signedIn EXCEPT ![s] = a]
    /\ UNCHANGED <<users, sessions>>

Address(s) == EmailOf[signedIn[s]]

\* The user of the login's address: the one that is there, or a new one.
Enrol(c, s) ==
    /\ signedIn[s] # None /\ Address(s) \in Emails
    /\ \A x \in sessions : x.by # c /\ x.login # s
    /\ users' = [users EXCEPT ![Address(s)] = IF @ = None THEN c ELSE @]
    /\ UNCHANGED signedIn

LogIn(c, s) ==
    /\ Enrol(c, s)
    /\ sessions' = sessions \cup {[by |-> c, login |-> s, user |-> users'[Address(s)]]}

\* A user row without a session: the INSERT raised after it had committed.
EnrolOnly(c, s) == Enrol(c, s) /\ UNCHANGED sessions

Next ==
    \/ \E s \in Starts, a \in Accounts : SignIn(s, a)
    \/ \E c \in Callbacks, s \in Starts : LogIn(c, s) \/ EnrolOnly(c, s)

Spec == Init /\ [][Next]_<<signedIn, users, sessions>>
=============================================================================
