------------------------------ MODULE GoogleAccess ------------------------------
(***************************************************************************)
(* The Google credentials of the process: the token file, the service      *)
(* object made from it, the object the registered tools captured when they *)
(* were registered, the once-only notice of an authorization error, and    *)
(* the /google command that renews all of these.                           *)
(*                                                                         *)
(* A grant is a number; a service object is the grant it was made with.    *)
(* Gmail and Calendar are always made from the same grant and are one      *)
(* object here.  The actions of the callers are in the module that extends *)
(* this one: a call of a tool ends with CallSucceeds or CallRefused, and    *)
(* what bounds the grants is there too.                                    *)
(***************************************************************************)
EXTENDS Integers

VARIABLES
    grants,    \* grants given so far
    revoked,   \* the first so many, which Google no longer accepts
    file,      \* the grant in the token file, 0 for no file
    svc,       \* GmailService and CalendarService, 0 for nil
    tool,      \* the service the registered tools captured, 0 for no tools
    once,      \* AuthErrorOnce has fired
    told,      \* history: the user was told since then
    flow       \* [on, wasNil]: the /google command under way

google == <<grants, revoked, file, svc, tool, once, told, flow>>

\* The program starts with the token of an earlier run, or without one.
InitGoogle ==
    /\ grants = 1 /\ revoked = 0
    /\ file \in {0, 1} /\ svc = file /\ tool = file
    /\ once = FALSE /\ told = FALSE
    /\ flow = [on |-> FALSE, wasNil |-> FALSE]

\* InitGmailFromToken and registerGmailTools at startup: no token, no tools.
FromToken ==
    /\ svc' = file /\ tool' = file
    /\ once' = FALSE /\ told' = FALSE
    /\ flow' = [on |-> FALSE, wasNil |-> FALSE]
    /\ UNCHANGED <<grants, revoked, file>>

\* Access is withdrawn, or has expired, for every grant so far.
Revoke ==
    /\ revoked < grants /\ revoked' = grants
    /\ UNCHANGED <<grants, file, svc, tool, once, told, flow>>

Works(g) == g > revoked

\* OnAuthError, called for every tool error that mentions authorization.
OnAuthError ==
    IF once THEN UNCHANGED <<file, svc, once, told>>
    ELSE file' = 0 /\ svc' = 0 /\ once' = TRUE /\ told' = TRUE

\* A call with a working grant.
CallSucceeds(g) == Works(g) /\ UNCHANGED google

\* A call that Google refuses: the registry reports it.
CallRefused(g) ==
    /\ ~Works(g) /\ OnAuthError
    /\ UNCHANGED <<grants, revoked, tool, flow>>

\* Any other tool whose error text contains the word.
OtherToolMentionsIt ==
    /\ OnAuthError
    /\ UNCHANGED <<grants, revoked, tool, flow>>

\* /google: the token is removed first.
GoogleStarts ==
    /\ ~flow.on /\ flow' = [on |-> TRUE, wasNil |-> svc = 0]
    /\ file' = 0
    /\ UNCHANGED <<grants, revoked, svc, tool, once, told>>

\* The code does not come within five minutes, or is refused.
GoogleFails ==
    /\ flow.on /\ flow' = [on |-> FALSE, wasNil |-> FALSE]
    /\ UNCHANGED <<grants, revoked, file, svc, tool, once, told>>

\* Mutant of GoogleSucceeds: the once-only notice is not armed again.
GoogleSucceedsOnceKept ==
    /\ flow.on /\ flow' = [on |-> FALSE, wasNil |-> FALSE]
    /\ grants' = grants + 1
    /\ file' = grants' /\ svc' = grants'
    /\ tool' = IF flow.wasNil THEN grants' ELSE tool
    /\ told' = FALSE
    /\ UNCHANGED <<revoked, once>>
\* Services first, then the tools if there were none, then the notice is armed
\* again.
GoogleSucceeds ==
    /\ flow.on /\ flow' = [on |-> FALSE, wasNil |-> FALSE]
    /\ grants' = grants + 1
    /\ file' = grants' /\ svc' = grants'
    /\ tool' = IF flow.wasNil THEN grants' ELSE tool
    /\ once' = FALSE /\ told' = FALSE
    /\ UNCHANGED revoked
=============================================================================
