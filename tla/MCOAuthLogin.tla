---------------------------- MODULE MCOAuthLogin ----------------------------
(* Instances of OAuthLogin for TLC.                                        *)
EXTENDS OAuthLogin, TLC

CONSTANTS google, microsoft,    \* the two providers the service registers
          ann, bob, mia,        \* two accounts of one, an account of the other
          mail                  \* the address of ann and of mia

MCProviders == {google, microsoft}
MCAccounts == {ann, bob, mia}
MCEmails == {mail}
MCProviderOf == (ann :> google) @@ (bob :> google) @@ (mia :> microsoft)

\* Two providers know one address; bob's userinfo has none.
MCEmailOf == (ann :> mail) @@ (bob :> NoEmail) @@ (mia :> mail)

MCFaults == {"database", "provider", "crash"}
=============================================================================
