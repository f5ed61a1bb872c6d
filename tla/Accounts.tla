------------------------------ MODULE Accounts -----------------------------
(***************************************************************************)
(* Who somebody is: accounts of the market and the GitHub identities that  *)
(* are linked to them, sessions and GitHub authorizations in Redis, and    *)
(* the requests that use them.  A request reads its session, its account   *)
(* and its authorization one after the other, while others log out, link   *)
(* another identity, are merged, promoted or deleted.                      *)
(***************************************************************************)
EXTENDS Naturals, FiniteSets

CONSTANTS
    Identities,    \* GitHub users; the account one signs in to first has its id
    Internals,     \* accounts with a password: the core administrators
    Tokens,        \* session tokens
    Requests,      \* requests under way
    Nobody

VARIABLES
    account,       \* market_users: role and github_id
    session,       \* the account of a session
    grant,         \* the authorization under a session's reference
    latest,        \* the last reference of an account
    cookies,       \* sessions a browser knows of
    loggedOut,     \* sessions whose logout was answered
    owner,         \* owner_user_id of the plugin
    submission,    \* the authorization the submitted artifact carries
    request        \* a request: its step and what it has read

vars == <<account, session, grant, latest, cookies, loggedOut, owner, submission, request>>
redis == <<session, grant, latest>>
stays == <<cookies, loggedOut>>

Accounts == Identities \cup Internals
Roles == {"none", "user", "admin", "core"}
NoGrant == [user |-> Nobody, github |-> Nobody]
NotSubmitted == [user |-> Nobody, github |-> Nobody, token |-> Nobody, owner |-> Nobody]
Free == [op |-> "none", at |-> "free", token |-> Nobody, user |-> Nobody, role |-> "none",
         github |-> Nobody, other |-> Nobody, late |-> FALSE]

(* A core administrator is linked to one identity; the other identity may  *)
(* have an account of its own, and either may own the plugin.              *)
Init ==
    /\ \E g \in Identities, members \in SUBSET Identities :
          /\ g \notin members
          /\ account = [a \in Accounts |->
                 IF a \in Internals THEN [role |-> "core", github |-> g]
                 ELSE IF a \in members THEN [role |-> "user", github |-> a]
                 ELSE [role |-> "none", github |-> Nobody]]
          /\ owner \in Internals \cup members
    /\ session = [t \in Tokens |-> Nobody]
    /\ grant = [t \in Tokens |-> NoGrant]
    /\ latest = [a \in Accounts |-> Nobody]
    /\ cookies = {} /\ loggedOut = {}
    /\ submission = NotSubmitted
    /\ request = [r \in Requests |-> Free]

Exists(a) == a # Nobody /\ account[a].role # "none"
IsAdmin(role) == role \in {"admin", "core"}

(* get_user_by_github_id                                                   *)
OfIdentity(g) ==
    LET those == {a \in Accounts : Exists(a) /\ account[a].github = g} IN
    IF those = {} THEN Nobody ELSE CHOOSE a \in those : TRUE

(* Bound: nobody signs in when all tokens are taken.                       *)
Fresh(t) ==
    /\ t \notin cookies /\ session[t] = Nobody /\ grant[t] = NoGrant
    /\ \A r \in Requests : request[r].token # t

End(r) == request' = [request EXCEPT ![r] = Free]
Goto(r, step) == request' = [request EXCEPT ![r].at = step]

(* internal_login and create_session                                       *)
LogIn(t, a) ==
    /\ a \in Internals /\ Exists(a) /\ Fresh(t)
    /\ session' = [session EXCEPT ![t] = a]
    /\ cookies' = cookies \cup {t}
    /\ UNCHANGED <<account, grant, latest, loggedOut, owner, submission, request>>

(* get_user_by_session: the session is read, ...                           *)
Open(r, op, t) ==
    /\ request[r] = Free /\ t \in cookies /\ session[t] # Nobody
    /\ op = "callback" => \E u \in Tokens : Fresh(u)
    /\ request' = [request EXCEPT ![r] =
           [Free EXCEPT !.op = op, !.at = "found", !.token = t, !.user = session[t],
                        !.late = op = "submit" /\ t \in loggedOut]]
    /\ UNCHANGED <<account, redis, stays, owner, submission>>

(* ... stored again with a new time to live, even if it was deleted in     *)
(* between, and the account is read: its role for a link, its identity for *)
(* a submission.                                                           *)
Touch(r) ==
    LET q == request[r] IN
    /\ q.at = "found"
    /\ session' = [session EXCEPT ![q.token] = q.user]
    /\ IF Exists(q.user)
       THEN request' = [request EXCEPT ![r].at = "known",
                ![r].role = IF q.op = "callback" THEN account[q.user].role ELSE @,
                ![r].github = IF q.op = "submit" THEN account[q.user].github ELSE @]
       ELSE End(r)
    /\ UNCHANGED <<account, grant, latest, stays, owner, submission>>

(* A bug: the authorization of a session is left where it is.              *)
ForgetNothing(t) == UNCHANGED grant

(* revoke_session: the authorization first, ...                            *)
DeleteAuthorization(t) == grant' = [grant EXCEPT ![t] = NoGrant]

LogOut(r, t) ==
    /\ request[r] = Free /\ t \in cookies /\ session[t] # Nobody
    /\ DeleteAuthorization(t)
    /\ request' = [request EXCEPT ![r] = [Free EXCEPT !.op = "logout", !.at = "forgotten",
                                                      !.token = t]]
    /\ UNCHANGED <<account, session, latest, stays, owner, submission>>

(* ... then the session.                                                   *)
RevokeSession(r) ==
    /\ request[r].at = "forgotten"
    /\ session' = [session EXCEPT ![request[r].token] = Nobody]
    /\ loggedOut' = loggedOut \cup {request[r].token}
    /\ End(r)
    /\ UNCHANGED <<account, grant, latest, cookies, owner, submission>>

(* github_callback without a session: upsert_github_user.  Its insertion   *)
(* fails where the account of that id has been linked to another identity. *)
SignIn(r, g) ==
    LET a == IF OfIdentity(g) # Nobody THEN OfIdentity(g) ELSE g IN
    /\ request[r] = Free /\ \E t \in Tokens : Fresh(t)
    /\ account[a].github = g \/ ~Exists(a)
    /\ account' = IF Exists(a) THEN account ELSE [account EXCEPT ![a] = [role |-> "user", github |-> g]]
    /\ request' = [request EXCEPT ![r] =
           [Free EXCEPT !.op = "callback", !.at = "linked", !.user = a, !.github = g,
                        !.role = account'[a].role]]
    /\ UNCHANGED <<redis, stays, owner, submission>>

(* A bug: whoever has the identity is merged.                              *)
MergesAnyone(q, existing) == IsAdmin(q.role)

(* can_merge_github_user                                                   *)
CanMerge(q, existing) ==
    /\ IsAdmin(q.role)
    /\ existing \notin Internals /\ account[existing].role = "user"

(* link_github_profile_to_user, with a session: who has the identity, ...  *)
Link(r, g) ==
    LET q == request[r]
        existing == OfIdentity(g)
    IN
    /\ q.op = "callback" /\ q.at = "known"
    /\ IF existing \in {Nobody, q.user}
       THEN request' = [request EXCEPT ![r].at = "profile", ![r].github = g, ![r].role = "none"]
       ELSE IF CanMerge(q, existing)
       THEN request' = [request EXCEPT ![r].at = "merge", ![r].github = g, ![r].role = "none",
                                       ![r].other = existing]
       ELSE End(r)
    /\ UNCHANGED <<account, redis, stays, owner, submission>>

(* ... merge_user_into_user, ...                                           *)
Merge(r) ==
    LET q == request[r] IN
    /\ q.at = "merge"
    /\ IF Exists(q.other) /\ Exists(q.user)
       THEN /\ account' = [account EXCEPT ![q.other] = [role |-> "none", github |-> Nobody]]
            /\ owner' = IF owner = q.other THEN q.user ELSE owner
       ELSE UNCHANGED <<account, owner>>
    /\ request' = [request EXCEPT ![r].at = "profile", ![r].other = Nobody]
    /\ UNCHANGED <<redis, stays, submission>>

(* ... and update_user_profile: an identity belongs to one account.        *)
Profile(r) ==
    LET q == request[r] IN
    /\ q.at = "profile"
    /\ IF Exists(q.user) /\ OfIdentity(q.github) \in {Nobody, q.user}
       THEN /\ account' = [account EXCEPT ![q.user].github = q.github]
            /\ request' = [request EXCEPT ![r].at = "linked", ![r].role = account[q.user].role]
       ELSE End(r) /\ UNCHANGED account
    /\ UNCHANGED <<redis, stays, owner, submission>>

(* promote_org_admin_if_needed, where GitHub knows a member.               *)
Promote(r) ==
    LET q == request[r] IN
    /\ q.at = "linked"
    /\ \/ UNCHANGED account
       \/ /\ ~IsAdmin(q.role) /\ Exists(q.user)
          /\ account' = [account EXCEPT ![q.user].role = "admin"]
    /\ request' = [request EXCEPT ![r].at = "promoted", ![r].role = "none"]
    /\ UNCHANGED <<redis, stays, owner, submission>>

(* create_session, then save_authorization in two commands.                *)
CreateSession(r, t) ==
    /\ request[r].at = "promoted" /\ Fresh(t)
    /\ session' = [session EXCEPT ![t] = request[r].user]
    /\ request' = [request EXCEPT ![r].at = "session", ![r].token = t]
    /\ UNCHANGED <<account, grant, latest, stays, owner, submission>>

SaveAuthorization(r) ==
    LET q == request[r] IN
    /\ q.at = "session"
    /\ grant' = [grant EXCEPT ![q.token] = [user |-> q.user, github |-> q.github]]
    /\ Goto(r, "authorized")
    /\ UNCHANGED <<account, session, latest, stays, owner, submission>>

SaveLatest(r) ==
    LET q == request[r] IN
    /\ q.at = "authorized"
    /\ latest' = [latest EXCEPT ![q.user] = q.token]
    /\ cookies' = cookies \cup {q.token}
    /\ End(r)
    /\ UNCHANGED <<account, session, grant, loggedOut, owner, submission>>

(* credential: the authorization is the account's and its identity's, or   *)
(* it is deleted.                                                          *)
Usable(t, user, github) == github # Nobody /\ grant[t] = [user |-> user, github |-> github]

(* require_repository_access of a submission by the plugin's owner.        *)
Submit(r) ==
    LET q == request[r] IN
    /\ q.op = "submit" /\ q.at = "known" /\ submission = NotSubmitted
    /\ IF Usable(q.token, q.user, q.github)
       THEN /\ owner = q.user
            /\ submission' = [user |-> q.user, github |-> q.github, token |-> q.token,
                              owner |-> q.user]
            /\ UNCHANGED grant
       ELSE grant' = [grant EXCEPT ![q.token] = NoGrant] /\ UNCHANGED submission
    /\ End(r)
    /\ UNCHANGED <<account, session, latest, stays, owner>>

(* verify_publication_access: submitter and plugin are read, ...           *)
AskPublication(r) ==
    LET s == submission IN
    /\ request[r] = Free /\ s # NotSubmitted
    /\ Exists(s.user) /\ owner = s.owner
    /\ request' = [request EXCEPT ![r] =
           [Free EXCEPT !.op = "publish", !.at = "owned", !.token = s.token, !.user = s.user,
                        !.github = account[s.user].github]]
    /\ UNCHANGED <<account, redis, stays, owner, submission>>

(* ... the authorization of the submission, or else the latest one, ...    *)
ReadCredential(r) ==
    LET q == request[r]
        usable == Usable(q.token, q.user, q.github)
        retry == q.token = submission.token /\ latest[q.user] \notin {Nobody, q.token}
    IN
    /\ q.op = "publish" /\ q.at = "owned"
    /\ grant' = IF usable THEN grant ELSE [grant EXCEPT ![q.token] = NoGrant]
    /\ IF usable THEN Goto(r, "verified")
       ELSE IF retry THEN request' = [request EXCEPT ![r].token = latest[q.user]]
       ELSE End(r)
    /\ UNCHANGED <<account, session, latest, stays, owner, submission>>

(* A bug: any identity of the submitter's account will do.                 *)
AnyIdentity(q) == TRUE

(* ... which must be of the identity that submitted.                       *)
SameIdentity(q) == q.github = submission.github

AuthorizePublication(r) ==
    /\ request[r].at = "verified"
    /\ IF SameIdentity(request[r]) THEN Goto(r, "answered") ELSE End(r)
    /\ UNCHANGED <<account, redis, stays, owner, submission>>

(* update_plugin: the plugin is read, ...                                  *)
OpenPlugin(r) ==
    /\ request[r] = Free
    /\ request' = [request EXCEPT ![r] = [Free EXCEPT !.op = "edit", !.at = "read", !.other = owner]]
    /\ UNCHANGED <<account, redis, stays, owner, submission>>

(* A bug: the schema does not know that an owner is an account.            *)
NoReference(a) == TRUE

(* owner_user_id REFERENCES market_users                                   *)
References(a) == Exists(a)

(* ... and written back with the owner that was read.                      *)
WriteBack(r) ==
    /\ request[r].at = "read"
    /\ owner' = IF References(request[r].other) THEN request[r].other ELSE owner
    /\ End(r)
    /\ UNCHANGED <<account, redis, stays, submission>>

(* delete_user and update_admin of a core administrator: the role is read, *)
(* then the account deleted or its role written.                           *)
Manage(r, op, caller, a) ==
    /\ request[r] = Free /\ account[caller].role = "core"
    /\ Exists(a) /\ a # caller /\ account[a].role # "core"
    /\ request' = [request EXCEPT ![r] = [Free EXCEPT !.op = op, !.at = "managed", !.user = caller,
                                                      !.other = a]]
    /\ UNCHANGED <<account, redis, stays, owner, submission>>

DeleteUser(r) ==
    LET a == request[r].other IN
    /\ request[r].op = "delete" /\ request[r].at = "managed"
    /\ account' = [account EXCEPT ![a] = [role |-> "none", github |-> Nobody]]
    /\ owner' = IF owner = a /\ Exists(a) THEN request[r].user ELSE owner
    /\ End(r)
    /\ UNCHANGED <<redis, stays, submission>>

UpdateRole(r, role) ==
    LET a == request[r].other IN
    /\ request[r].op = "role" /\ request[r].at = "managed"
    /\ account' = IF Exists(a) THEN [account EXCEPT ![a].role = role] ELSE account
    /\ End(r)
    /\ UNCHANGED <<redis, stays, owner, submission>>

(* A request fails or its process dies after a write, or its answer is     *)
(* read.  One that fails before that might as well not have come.          *)
Leave(r) ==
    /\ request[r].at \in {"known", "forgotten", "merge", "profile", "linked", "promoted",
                           "session", "authorized", "answered"}
    /\ End(r)
    /\ UNCHANGED <<account, redis, stays, owner, submission>>

RequestStep(r) ==
    \/ Touch(r) \/ RevokeSession(r) \/ Merge(r) \/ Profile(r) \/ Promote(r)
    \/ SaveAuthorization(r) \/ SaveLatest(r) \/ Submit(r)
    \/ AskPublication(r) \/ ReadCredential(r) \/ AuthorizePublication(r)
    \/ OpenPlugin(r) \/ WriteBack(r) \/ DeleteUser(r) \/ Leave(r)

Next ==
    \/ \E t \in Tokens, a \in Internals : LogIn(t, a)
    \/ \E r \in Requests :
          \/ RequestStep(r)
          \/ \E t \in Tokens : LogOut(r, t) \/ CreateSession(r, t)
          \/ \E t \in Tokens, op \in {"submit", "callback"} : Open(r, op, t)
          \/ \E g \in Identities : SignIn(r, g) \/ Link(r, g)
          \/ \E op \in {"delete", "role"}, c \in Internals, a \in Accounts : Manage(r, op, c, a)
          \/ \E role \in {"user", "admin"} : UpdateRole(r, role)
-----------------------------------------------------------------------------
TypeOK ==
    /\ account \in [Accounts -> [role : Roles, github : Identities \cup {Nobody}]]
    /\ session \in [Tokens -> Accounts \cup {Nobody}]
    /\ grant \in [Tokens -> [user : Accounts \cup {Nobody}, github : Identities \cup {Nobody}]]
    /\ latest \in [Accounts -> Tokens \cup {Nobody}]
    /\ cookies \subseteq Tokens /\ loggedOut \subseteq Tokens
    /\ owner \in Accounts
    /\ submission.token \in Tokens \cup {Nobody}
    /\ \A r \in Requests : request[r].role \in Roles /\ request[r].late \in BOOLEAN

(* A request that began after a logout was answered finds no access to     *)
(* repositories under that session, though a request that overlaps the     *)
(* logout brings the session itself back to life (store.py,                *)
(* get_user_by_session and revoke_session).                                *)
AccessEndsWithLogout ==
    submission = NotSubmitted /\ submission' # NotSubmitted
       => \A r \in Requests :
             request[r].op = "submit" /\ request[r].late => request'[r] = request[r]

(* A publication is authorized for the plugin's owner at the submission,   *)
(* and by an authorization of the identity that submitted, even where the  *)
(* account was linked to another one since and a later session is asked    *)
(* (github_authorization.py, verify_publication_access).                   *)
PublicationIsTheSubmitters ==
    \A r \in Requests : request[r].at = "answered" =>
        /\ request[r].user = submission.user
        /\ request[r].github = submission.github

(* A plugin is owned by an account that exists: deletions and merges hand  *)
(* it on, and a write of a stale owner is refused.                         *)
PluginsHaveOwners == Exists(owner)

(* No link, merge, deletion or change of role takes a core administrator   *)
(* away (main.py, can_merge_github_user and delete_user).                  *)
CoreAdminsStay ==
    \A a \in Internals : account[a].role = "core"
=============================================================================
