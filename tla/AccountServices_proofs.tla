----------------------- MODULE AccountServices_proofs -----------------------
(***************************************************************************)
(* Proofs about the service of accounts: who somebody is, whom a browser's *)
(* token speaks for and who publishes, each for any number of people,      *)
(* requests and tokens.  A behaviour is of one service, so that what is to *)
(* be proved of a service is proved from its own steps alone.              *)
(***************************************************************************)
EXTENDS Services, TLAPS

(* A behaviour stays with its service.                                     *)
LEMMA OneService ==
    ASSUME [Next]_vars
    PROVE  /\ focus' = focus
           /\ focus = "accounts" => [Accounts!Next]_(Accounts!vars)
  <1>1. CASE UNCHANGED vars
    BY <1>1 DEF vars, accountsVars, Accounts!vars
  <1>2. CASE Next
    BY <1>2, Zenon DEF Next, AccountsStep, ListingStep, CommunityStep, ReviewPolicyStep,
       ReviewDiscussionStep, SubmissionStep, WorkspaceStep, CdnSubscriptionStep, LlmReviewStep,
       ReviewScopeStep, CategoryStep, MalwareScanStep, ReviewHistoryStep
  <1> QED BY <1>1, <1>2

LEMMA OneServiceAtInit ==
    Init => (focus = "accounts" => Accounts!Init)
  BY Zenon DEF Init
-----------------------------------------------------------------------------
(* Accounts: who somebody is.                                              *)

Steps == {"free", "found", "known", "forgotten", "merge", "profile", "linked", "promoted", "session",
          "authorized", "owned", "verified", "answered", "read", "managed"}

RequestTypes ==
    [op : {"none", "submit", "callback", "logout", "publish", "edit", "delete", "role"},
     at : Steps, token : Tokens \cup {Nobody}, user : Accounts!Accounts \cup {Nobody},
     role : Accounts!Roles, github : Identities \cup {Nobody},
     other : Accounts!Accounts \cup {Nobody}, late : BOOLEAN]

GrantTypes == [user : Accounts!Accounts \cup {Nobody}, github : Identities \cup {Nobody}]

SubmissionTypes ==
    [user : Accounts!Accounts \cup {Nobody}, github : Identities \cup {Nobody},
     token : Tokens \cup {Nobody}, owner : Accounts!Accounts \cup {Nobody}]

AccountsTyped ==
    /\ account \in [Accounts!Accounts -> [role : Accounts!Roles, github : Identities \cup {Nobody}]]
    /\ session \in [Tokens -> Accounts!Accounts \cup {Nobody}]
    /\ grant \in [Tokens -> GrantTypes]
    /\ latest \in [Accounts!Accounts -> Tokens \cup {Nobody}]
    /\ cookies \subseteq Tokens /\ owner \in Accounts!Accounts
    /\ submission \in SubmissionTypes
    /\ request \in [Requests -> RequestTypes]

(* A token is in a browser before it is anybody's latest, a submission's   *)
(* or logged out, and one that is logged out authorizes nothing.           *)
TokensFit ==
    /\ loggedOut \subseteq cookies
    /\ \A t \in loggedOut : grant[t] = Accounts!NoGrant
    /\ \A a \in Accounts!Accounts : latest[a] \in cookies \cup {Nobody}
    /\ submission.token \in cookies \cup {Nobody}

(* What a request knows at its step.                                       *)
RequestFits(q) ==
    /\ q.at = "merge" => q.other \in Accounts!Accounts \ Internals /\ q.other # q.user
    /\ q.at = "managed" => q.user \in Internals /\ q.other \in Accounts!Accounts \ Internals
    /\ q.at = "read" => q.other \in Accounts!Accounts
    /\ q.at = "linked" /\ q.user \in Internals => q.role = "core"
    /\ q.at \in {"owned", "verified", "answered"} =>
          /\ submission # Accounts!NotSubmitted
          /\ q.user = submission.user /\ q.user # Nobody
    /\ q.at = "answered" => q.github = submission.github
    /\ q.at \in {"session", "authorized"} => q.token \in Tokens \ cookies
    /\ q.at \notin {"session", "authorized"} => q.token \in cookies \cup {Nobody}
    /\ q.at = "forgotten" => q.token \in cookies /\ grant[q.token] = Accounts!NoGrant
    /\ q.late => q.op = "submit" /\ q.at \in {"found", "known"} /\ q.token \in loggedOut

(* A token that is not in a browser yet is one request's own.              *)
TokensApart ==
    \A r, p \in Requests :
       r # p /\ request[r].at \in {"session", "authorized"} => request[p].token # request[r].token

AccountsInv ==
    /\ AccountsTyped /\ TokensFit
    /\ Accounts!PluginsHaveOwners /\ Accounts!CoreAdminsStay
    /\ \A r \in Requests : RequestFits(request[r])
    /\ TokensApart

NobodyApart == Nobody \notin Accounts!Accounts \cup Tokens

LEMMA AccountsAtInit ==
    ASSUME NobodyApart
    PROVE  Accounts!Init => AccountsInv
  <1> SUFFICES ASSUME Accounts!Init
               PROVE  AccountsInv
    OBVIOUS
  <1>1. /\ Accounts!Free \in RequestTypes /\ Accounts!Free.at = "free" /\ Accounts!Free.token = Nobody
        /\ Accounts!Free.late = FALSE
    BY DEF Accounts!Free, RequestTypes, Accounts!Roles, Steps
  <1>2. \A r \in Requests : request[r] = Accounts!Free
    BY DEF Accounts!Init
  <1>3. \A r \in Requests : RequestFits(request[r])
    BY <1>1, <1>2 DEF RequestFits
  <1>4. TokensApart
    BY <1>1, <1>2 DEF TokensApart
  <1>5. AccountsTyped /\ TokensFit
    <2>1. /\ submission \in SubmissionTypes /\ submission.token = Nobody
          /\ Accounts!NoGrant \in GrantTypes
      BY DEF Accounts!Init, SubmissionTypes, Accounts!NotSubmitted, Accounts!NoGrant, GrantTypes
    <2>2. /\ account \in [Accounts!Accounts -> [role : Accounts!Roles, github : Identities \cup {Nobody}]]
          /\ owner \in Accounts!Accounts
      BY DEF Accounts!Init, Accounts!Accounts, Accounts!Roles
    <2>3. request \in [Requests -> RequestTypes]
      BY <1>1 DEF Accounts!Init
    <2> QED BY <2>1, <2>2, <2>3 DEF Accounts!Init, AccountsTyped, TokensFit
  <1>6. Accounts!PluginsHaveOwners /\ Accounts!CoreAdminsStay
    BY DEF Accounts!Init, Accounts!PluginsHaveOwners, Accounts!CoreAdminsStay, Accounts!Exists,
       Accounts!Accounts, NobodyApart
  <1> QED BY <1>3, <1>4, <1>5, <1>6 DEF AccountsInv

(* A request's step keeps what the others know.                            *)
LEMMA RequestMoves ==
    ASSUME NobodyApart, AccountsInv, NEW r \in Requests, NEW n \in RequestTypes,
           request' = [request EXCEPT ![r] = n], RequestFits(n)',
           cookies \subseteq cookies', loggedOut \subseteq loggedOut',
           submission' = submission \/ submission = Accounts!NotSubmitted,
           \A t \in cookies : grant[t] = Accounts!NoGrant => grant'[t] = Accounts!NoGrant,
           \A p \in Requests \ {r} : request[p].at \in {"session", "authorized"} =>
               request[p].token \notin cookies' /\ request[p].token # n.token,
           n.at \in {"session", "authorized"} =>
               \A p \in Requests \ {r} : request[p].token # n.token
    PROVE  /\ request' \in [Requests -> RequestTypes]
           /\ \A p \in Requests : RequestFits(request[p])'
           /\ TokensApart'
  <1>1. /\ request' \in [Requests -> RequestTypes] /\ request'[r] = n
        /\ \A p \in Requests \ {r} : request'[p] = request[p]
    BY DEF AccountsInv, AccountsTyped
  <1>2. ASSUME NEW p \in Requests, p # r
        PROVE  RequestFits(request[p])'
    <2>1. RequestFits(request[p]) /\ request'[p] = request[p]
      BY <1>1, <1>2 DEF AccountsInv
    <2>2. request[p].at \in {"session", "authorized"} => request[p].token \notin cookies'
      BY <1>2
    <2> QED BY <2>1, <2>2 DEF RequestFits
  <1>3. RequestFits(request[r])'
    BY <1>1
  <1>4. TokensApart'
    BY <1>1 DEF AccountsInv, TokensApart
  <1> QED BY <1>1, <1>2, <1>3, <1>4

(* A step of a request whose token is in a browser, or that has none.      *)
LEMMA RequestMovesOn ==
    ASSUME NobodyApart, AccountsInv, NEW r \in Requests, NEW n \in RequestTypes,
           request' = [request EXCEPT ![r] = n], RequestFits(n)',
           n.at \notin {"session", "authorized"}, n.token \in cookies \cup {Nobody},
           cookies' = cookies, loggedOut \subseteq loggedOut',
           submission' = submission \/ submission = Accounts!NotSubmitted,
           \A t \in cookies : grant[t] = Accounts!NoGrant => grant'[t] = Accounts!NoGrant
    PROVE  /\ request' \in [Requests -> RequestTypes]
           /\ \A p \in Requests : RequestFits(request[p])'
           /\ TokensApart'
  <1>1. \A p \in Requests \ {r} : request[p].at \in {"session", "authorized"} =>
            request[p].token \notin cookies' /\ request[p].token # n.token
    BY DEF AccountsInv, RequestFits, NobodyApart
  <1> QED BY <1>1, RequestMoves

(* A step that ends a request.                                             *)
LEMMA RequestEnds ==
    ASSUME NobodyApart, AccountsInv, NEW r \in Requests, Accounts!End(r),
           cookies' = cookies, loggedOut \subseteq loggedOut',
           submission' = submission \/ submission = Accounts!NotSubmitted,
           \A t \in cookies : grant[t] = Accounts!NoGrant => grant'[t] = Accounts!NoGrant
    PROVE  /\ request' \in [Requests -> RequestTypes]
           /\ \A p \in Requests : RequestFits(request[p])'
           /\ TokensApart'
  <1>1. PICK n \in RequestTypes : n = Accounts!Free
    BY DEF Accounts!Free, RequestTypes, Accounts!Roles, Steps
  <1>2. n.at = "free" /\ n.token = Nobody /\ n.late = FALSE
    BY <1>1 DEF Accounts!Free
  <1>3. request' = [request EXCEPT ![r] = n]
    BY <1>1 DEF Accounts!End
  <1>4. RequestFits(n)'
    BY <1>2 DEF RequestFits
  <1> QED BY <1>2, <1>3, <1>4, RequestMovesOn

(* What is stored of the accounts.                                         *)
Kept ==
    /\ account \in [Accounts!Accounts -> [role : Accounts!Roles, github : Identities \cup {Nobody}]]
    /\ session \in [Tokens -> Accounts!Accounts \cup {Nobody}]
    /\ grant \in [Tokens -> GrantTypes]
    /\ latest \in [Accounts!Accounts -> Tokens \cup {Nobody}]
    /\ cookies \subseteq Tokens /\ owner \in Accounts!Accounts
    /\ submission \in SubmissionTypes
    /\ TokensFit /\ Accounts!PluginsHaveOwners /\ Accounts!CoreAdminsStay

LEMMA KeptIsStored ==
    /\ AccountsInv <=> /\ Kept /\ request \in [Requests -> RequestTypes]
                       /\ \A r \in Requests : RequestFits(request[r])
                       /\ TokensApart
    /\ AccountsInv' <=> /\ Kept' /\ request' \in [Requests -> RequestTypes]
                        /\ \A r \in Requests : RequestFits(request[r])'
                        /\ TokensApart'
  BY DEF AccountsInv, AccountsTyped, Kept

LEMMA IdentityHasAccount ==
    ASSUME NEW g \in Identities, Accounts!OfIdentity(g) # Nobody
    PROVE  Accounts!OfIdentity(g) \in Accounts!Accounts /\ Accounts!Exists(Accounts!OfIdentity(g))
  BY DEF Accounts!OfIdentity

LEMMA NoGrantFits == Accounts!NoGrant \in GrantTypes
  BY DEF Accounts!NoGrant, GrantTypes

(* Steps that leave the stored rows alone, but for sessions.               *)
LEMMA KeptStays ==
    ASSUME Kept, UNCHANGED <<account, grant, latest, cookies, loggedOut, owner, submission>>,
           session' \in [Tokens -> Accounts!Accounts \cup {Nobody}]
    PROVE  Kept'
  BY DEF Kept, TokensFit, Accounts!PluginsHaveOwners, Accounts!CoreAdminsStay, Accounts!Exists

(* Steps that change accounts and the plugin's owner.                      *)
LEMMA KeptWithAccounts ==
    ASSUME NobodyApart, Kept, UNCHANGED <<session, grant, latest, cookies, loggedOut, submission>>,
           account' \in [Accounts!Accounts -> [role : Accounts!Roles, github : Identities \cup {Nobody}]],
           owner' \in Accounts!Accounts, account'[owner'].role # "none",
           \A a \in Internals : account[a].role = "core" => account'[a].role = "core"
    PROVE  Kept'
  BY DEF Kept, TokensFit, Accounts!PluginsHaveOwners, Accounts!CoreAdminsStay, Accounts!Exists,
     NobodyApart

(* What a request becomes that goes on for another identity or account.    *)
LEMMA RequestTurns ==
    ASSUME NEW h \in RequestTypes, NEW a \in Steps, NEW g \in Identities \cup {Nobody},
           NEW o \in Accounts!Accounts \cup {Nobody}, NEW s \in Accounts!Roles
    PROVE  /\ [h EXCEPT !.at = a, !.role = s] \in RequestTypes
           /\ [h EXCEPT !.at = a, !.other = o] \in RequestTypes
           /\ [h EXCEPT !.at = a, !.github = g, !.role = s] \in RequestTypes
           /\ [h EXCEPT !.at = a, !.role = s, !.github = g] \in RequestTypes
           /\ [h EXCEPT !.at = a, !.github = g, !.role = s, !.other = o] \in RequestTypes
  <1>1. [h EXCEPT !.at = a, !.role = s] \in RequestTypes
    BY DEF RequestTypes
  <1>2. [h EXCEPT !.at = a, !.other = o] \in RequestTypes
    BY DEF RequestTypes
  <1>3. [h EXCEPT !.at = a, !.github = g, !.role = s] \in RequestTypes
    BY DEF RequestTypes
  <1>4. [h EXCEPT !.at = a, !.role = s, !.github = g] \in RequestTypes
    BY DEF RequestTypes
  <1>5. [h EXCEPT !.at = a, !.github = g, !.role = s, !.other = o] \in RequestTypes
    BY DEF RequestTypes
  <1> QED BY <1>1, <1>2, <1>3, <1>4, <1>5

LEMMA AccountsStay ==
    ASSUME NobodyApart, AccountsInv, [Accounts!Next]_(Accounts!vars)
    PROVE  AccountsInv'
  <1> USE KeptIsStored
  <1> DEFINE K(r) == request[r] \in RequestTypes /\ RequestFits(request[r])
  <1>k. Kept /\ \A r \in Requests : K(r)
    OBVIOUS
  <1>1. CASE UNCHANGED Accounts!vars
    <2>1. Kept'
      BY <1>k, <1>1, KeptStays DEF Kept, Accounts!vars
    <2>2. request' = request /\ UNCHANGED <<account, grant, cookies, loggedOut, submission>>
      BY <1>1 DEF Accounts!vars
    <2> QED BY <2>1, <2>2 DEF RequestFits, TokensApart
  <1>2. ASSUME NEW t \in Tokens, NEW a \in Internals, Accounts!LogIn(t, a)
        PROVE  AccountsInv'
    <2>1. /\ session' = [session EXCEPT ![t] = a] /\ cookies' = cookies \cup {t}
          /\ UNCHANGED <<account, grant, latest, loggedOut, owner, submission, request>>
          /\ \A r \in Requests : request[r].token # t
      BY <1>2 DEF Accounts!LogIn, Accounts!Fresh
    <2>2. Kept'
      BY <1>k, <2>1 DEF Kept, TokensFit, Accounts!PluginsHaveOwners, Accounts!CoreAdminsStay,
         Accounts!Exists, Accounts!Accounts
    <2> QED BY <1>k, <2>1, <2>2 DEF RequestFits, TokensApart
  <1>3. ASSUME NEW r \in Requests, NEW t \in Tokens, NEW op \in {"submit", "callback"},
               Accounts!Open(r, op, t)
        PROVE  AccountsInv'
    <2>1. /\ UNCHANGED <<account, session, grant, latest, cookies, loggedOut, owner, submission>>
          /\ t \in cookies
      BY <1>3 DEF Accounts!Open, Accounts!redis, Accounts!stays
    <2>2. PICK n \in RequestTypes : /\ request' = [request EXCEPT ![r] = n]
                                    /\ n.at = "found" /\ n.token = t
                                    /\ n.late => n.op = "submit" /\ t \in loggedOut
      <3> DEFINE n == [Accounts!Free EXCEPT !.op = op, !.at = "found", !.token = t, !.user = session[t],
                                            !.late = op = "submit" /\ t \in loggedOut]
      <3>1. (op = "submit" /\ t \in loggedOut) \in BOOLEAN /\ session[t] \in Accounts!Accounts \cup {Nobody}
        BY <1>k DEF Kept
      <3>2. n \in RequestTypes /\ n.at = "found" /\ n.token = t /\ n.op = op
        BY <3>1 DEF Accounts!Free, RequestTypes, Accounts!Roles, Steps
      <3>3. n.late => op = "submit" /\ t \in loggedOut
        BY DEF Accounts!Free
      <3>4. request' = [request EXCEPT ![r] = n]
        BY <1>3 DEF Accounts!Open
      <3> HIDE DEF n
      <3> QED BY <3>2, <3>3, <3>4
    <2>3. RequestFits(n)'
      BY <2>1, <2>2 DEF RequestFits
    <2>4. Kept'
      BY <1>k, <2>1, KeptStays DEF Kept
    <2> QED BY <2>1, <2>2, <2>3, <2>4, RequestMovesOn
  <1>4. ASSUME NEW r \in Requests, Accounts!Touch(r)
        PROVE  AccountsInv'
    <2>1. /\ UNCHANGED <<account, grant, latest, cookies, loggedOut, owner, submission>>
          /\ session' = [session EXCEPT ![request[r].token] = request[r].user]
          /\ request[r].at = "found"
      BY <1>4 DEF Accounts!Touch, Accounts!stays
    <2>2. Kept'
      BY <1>k, <2>1, KeptStays DEF Kept, RequestTypes
    <2>3. CASE Accounts!End(r)
      BY <2>1, <2>2, <2>3, RequestEnds
    <2>4. CASE ~Accounts!End(r)
      <3>1. PICK n \in RequestTypes : /\ request' = [request EXCEPT ![r] = n]
                                      /\ n.at = "known" /\ n.token = request[r].token
                                      /\ n.op = request[r].op /\ n.late = request[r].late
        <4> DEFINE role == IF request[r].op = "callback" THEN account[request[r].user].role ELSE request[r].role
                   g == IF request[r].op = "submit" THEN account[request[r].user].github
                        ELSE request[r].github
                   n == [request[r] EXCEPT !.at = "known", !.role = role, !.github = g]
        <4>1. /\ Accounts!Exists(request[r].user)
              /\ request' = [request EXCEPT ![r] = n]
          BY <1>4, <2>4 DEF Accounts!Touch
        <4>2. request[r].user \in Accounts!Accounts
          BY <1>k, <4>1 DEF Accounts!Exists, RequestTypes
        <4>3. role \in Accounts!Roles /\ g \in Identities \cup {Nobody}
          BY <1>k, <4>2 DEF Kept, RequestTypes
        <4> HIDE DEF role, g
        <4>4. /\ n \in RequestTypes /\ n.at = "known" /\ n.token = request[r].token
              /\ n.op = request[r].op /\ n.late = request[r].late
          <5>1. "known" \in Steps
            BY DEF Steps
          <5>2. n \in RequestTypes
            BY <1>k, <4>3, <5>1, RequestTurns DEF Accounts!Roles
          <5> QED BY <1>k, <5>2 DEF RequestTypes
        <4> HIDE DEF n
        <4> QED BY <4>1, <4>4
      <3>2. RequestFits(n)'
        BY <1>k, <2>1, <3>1 DEF RequestFits
      <3>3. n.token \in cookies \cup {Nobody}
        BY <1>k, <2>1, <3>1 DEF RequestFits
      <3> QED BY <2>1, <2>2, <3>1, <3>2, <3>3, RequestMovesOn
    <2> QED BY <2>3, <2>4
  <1>5. ASSUME NEW r \in Requests, NEW t \in Tokens, Accounts!LogOut(r, t)
        PROVE  AccountsInv'
    <2>1. /\ UNCHANGED <<account, session, latest, cookies, loggedOut, owner, submission>>
          /\ t \in cookies /\ grant' = [grant EXCEPT ![t] = Accounts!NoGrant]
      BY <1>5 DEF Accounts!LogOut, Accounts!DeleteAuthorization, Accounts!stays
    <2>2. PICK n \in RequestTypes : /\ request' = [request EXCEPT ![r] = n]
                                    /\ n.at = "forgotten" /\ n.token = t /\ n.late = FALSE
      <3> DEFINE n == [Accounts!Free EXCEPT !.op = "logout", !.at = "forgotten", !.token = t]
      <3>1. n \in RequestTypes /\ n.at = "forgotten" /\ n.token = t /\ n.late = FALSE
        BY DEF Accounts!Free, RequestTypes, Accounts!Roles, Steps
      <3>2. request' = [request EXCEPT ![r] = n]
        BY <1>5 DEF Accounts!LogOut
      <3> HIDE DEF n
      <3> QED BY <3>1, <3>2
    <2>3. grant' \in [Tokens -> GrantTypes] /\ grant'[t] = Accounts!NoGrant
      BY <1>k, <2>1, NoGrantFits DEF Kept
    <2>4. Kept'
      BY <1>k, <2>1, <2>3 DEF Kept, TokensFit, Accounts!PluginsHaveOwners, Accounts!CoreAdminsStay,
         Accounts!Exists
    <2>5. RequestFits(n)'
      BY <2>1, <2>2, <2>3 DEF RequestFits
    <2>6. \A u \in cookies : grant[u] = Accounts!NoGrant => grant'[u] = Accounts!NoGrant
      BY <1>k, <2>1 DEF Kept
    <2> QED BY <2>1, <2>2, <2>4, <2>5, <2>6, RequestMovesOn
  <1>6. ASSUME NEW r \in Requests, Accounts!RevokeSession(r)
        PROVE  AccountsInv'
    <2>1. /\ UNCHANGED <<account, grant, latest, cookies, owner, submission>>
          /\ request[r].at = "forgotten"
          /\ session' = [session EXCEPT ![request[r].token] = Nobody]
          /\ loggedOut' = loggedOut \cup {request[r].token}
      BY <1>6 DEF Accounts!RevokeSession
    <2>2. Kept'
      BY <1>k, <2>1 DEF Kept, TokensFit, RequestFits, Accounts!PluginsHaveOwners,
         Accounts!CoreAdminsStay, Accounts!Exists
    <2>3. Accounts!End(r)
      BY <1>6 DEF Accounts!RevokeSession
    <2> QED BY <2>1, <2>2, <2>3, RequestEnds
  <1>7. ASSUME NEW r \in Requests, NEW g \in Identities, Accounts!SignIn(r, g)
        PROVE  AccountsInv'
    <2> DEFINE a == IF Accounts!OfIdentity(g) # Nobody THEN Accounts!OfIdentity(g) ELSE g
    <2>1. a \in Accounts!Accounts
      BY IdentityHasAccount DEF Accounts!Accounts
    <2>2. UNCHANGED <<session, grant, latest, cookies, loggedOut, owner, submission>>
      BY <1>7 DEF Accounts!SignIn, Accounts!redis, Accounts!stays
    <2>3. /\ account' = IF Accounts!Exists(a) THEN account
                        ELSE [account EXCEPT ![a] = [role |-> "user", github |-> g]]
          /\ request' = [request EXCEPT ![r] =
                 [Accounts!Free EXCEPT !.op = "callback", !.at = "linked", !.user = a, !.github = g,
                                       !.role = account'[a].role]]
      BY <1>7 DEF Accounts!SignIn
    <2> HIDE DEF a
    <2>4. Kept'
      <3>1. [role |-> "user", github |-> g] \in [role : Accounts!Roles, github : Identities \cup {Nobody}]
        BY DEF Accounts!Roles
      <3>2. /\ account' \in [Accounts!Accounts -> [role : Accounts!Roles, github : Identities \cup {Nobody}]]
            /\ \A b \in Accounts!Accounts : account[b].role # "none" => account'[b] = account[b]
        BY <1>k, <2>1, <2>3, <3>1 DEF Kept, Accounts!Exists, NobodyApart
      <3>3. owner \in Accounts!Accounts /\ account[owner].role # "none" /\ Internals \subseteq Accounts!Accounts
        BY <1>k DEF Kept, Accounts!PluginsHaveOwners, Accounts!Exists, Accounts!Accounts
      <3> QED BY <1>k, <2>2, <3>2, <3>3, KeptWithAccounts
    <2>5. PICK n \in RequestTypes : /\ request' = [request EXCEPT ![r] = n]
                                    /\ n.at = "linked" /\ n.token = Nobody /\ n.late = FALSE
                                    /\ n.user \in Internals => n.role = "core"
      <3> DEFINE role == account'[a].role
                 n == [Accounts!Free EXCEPT !.op = "callback", !.at = "linked", !.user = a, !.github = g,
                                            !.role = role]
      <3>1. role \in Accounts!Roles /\ (a \in Internals => role = "core")
        BY <2>1, <2>4 DEF Kept, Accounts!CoreAdminsStay
      <3>2. request' = [request EXCEPT ![r] = n]
        BY <2>3
      <3> HIDE DEF role
      <3>3. /\ n \in RequestTypes /\ n.at = "linked" /\ n.token = Nobody /\ n.late = FALSE
            /\ n.user = a /\ n.role = role
        BY <2>1, <3>1 DEF Accounts!Free, RequestTypes, Steps
      <3> HIDE DEF n
      <3> QED BY <3>1, <3>2, <3>3
    <2>6. RequestFits(n)'
      BY <2>5 DEF RequestFits
    <2> QED BY <2>2, <2>4, <2>5, <2>6, RequestMovesOn
  <1>8. ASSUME NEW r \in Requests, NEW g \in Identities, Accounts!Link(r, g)
        PROVE  AccountsInv'
    <2>1. /\ UNCHANGED <<account, session, grant, latest, cookies, loggedOut, owner, submission>>
          /\ request[r].op = "callback" /\ request[r].at = "known"
      BY <1>8 DEF Accounts!Link, Accounts!redis, Accounts!stays
    <2>2. Kept'
      BY <1>k, <2>1, KeptStays DEF Kept
    <2>3. request[r].token \in cookies \cup {Nobody} /\ request[r].late = FALSE
      BY <1>k, <2>1 DEF RequestFits, RequestTypes
    <2>4. CASE Accounts!End(r)
      BY <2>1, <2>2, <2>4, RequestEnds
    <2>5. CASE request' = [request EXCEPT ![r].at = "profile", ![r].github = g, ![r].role = "none"]
      <3> DEFINE n == [request[r] EXCEPT !.at = "profile", !.github = g, !.role = "none"]
      <3>1. /\ n \in RequestTypes /\ n.at = "profile" /\ n.token = request[r].token
            /\ n.late = request[r].late
        <4>1. "profile" \in Steps /\ "none" \in Accounts!Roles
          BY DEF Steps, Accounts!Roles
        <4>2. n \in RequestTypes
          BY <1>k, <4>1, RequestTurns
        <4> QED BY <1>k, <4>2 DEF RequestTypes
      <3>2. request' = [request EXCEPT ![r] = n]
        BY <2>5
      <3> HIDE DEF n
      <3>3. PICK m \in RequestTypes : m = n
        BY <3>1
      <3>4. RequestFits(m)'
        BY <2>1, <2>3, <3>1, <3>3 DEF RequestFits
      <3> QED BY <2>1, <2>2, <2>3, <3>1, <3>2, <3>3, <3>4, RequestMovesOn
    <2>6. CASE /\ Accounts!OfIdentity(g) \notin {Nobody, request[r].user}
               /\ Accounts!CanMerge(request[r], Accounts!OfIdentity(g))
               /\ request' = [request EXCEPT ![r].at = "merge", ![r].github = g, ![r].role = "none",
                                             ![r].other = Accounts!OfIdentity(g)]
      <3> DEFINE other == Accounts!OfIdentity(g)
                 n == [request[r] EXCEPT !.at = "merge", !.github = g, !.role = "none", !.other = other]
      <3>1. other \in Accounts!Accounts \ Internals /\ other # request[r].user
        BY <2>6, IdentityHasAccount DEF Accounts!CanMerge
      <3>2. request' = [request EXCEPT ![r] = n]
        BY <2>6
      <3> HIDE DEF other
      <3>3. /\ n \in RequestTypes /\ n.at = "merge" /\ n.token = request[r].token
            /\ n.late = request[r].late /\ n.other = other /\ n.user = request[r].user
        <4>1. "merge" \in Steps /\ "none" \in Accounts!Roles /\ other \in Accounts!Accounts
          BY <3>1 DEF Steps, Accounts!Roles
        <4>2. n \in RequestTypes
          BY <1>k, <4>1, RequestTurns
        <4> QED BY <1>k, <4>2 DEF RequestTypes
      <3> HIDE DEF n
      <3>4. PICK m \in RequestTypes : m = n
        BY <3>3
      <3>5. RequestFits(m)'
        BY <2>1, <2>3, <3>1, <3>3, <3>4 DEF RequestFits
      <3> QED BY <2>1, <2>2, <2>3, <3>2, <3>3, <3>4, <3>5, RequestMovesOn
    <2> QED BY <1>8, <2>4, <2>5, <2>6 DEF Accounts!Link
  <1>9. ASSUME NEW r \in Requests, Accounts!Merge(r)
        PROVE  AccountsInv'
    <2>1. /\ UNCHANGED <<session, grant, latest, cookies, loggedOut, submission>>
          /\ request[r].at = "merge"
          /\ request' = [request EXCEPT ![r].at = "profile", ![r].other = Nobody]
      BY <1>9 DEF Accounts!Merge, Accounts!redis, Accounts!stays
    <2>2. /\ request[r].other \in Accounts!Accounts \ Internals /\ request[r].other # request[r].user
          /\ request[r].token \in cookies \cup {Nobody} /\ request[r].late = FALSE
      BY <1>k, <2>1 DEF RequestFits, RequestTypes
    <2>3. Kept'
      <3> DEFINE gone == [role |-> "none", github |-> Nobody]
      <3>1. gone \in [role : Accounts!Roles, github : Identities \cup {Nobody}]
        BY DEF Accounts!Roles
      <3> HIDE DEF gone
      <3>2. \/ UNCHANGED <<account, owner>>
            \/ /\ Accounts!Exists(request[r].user)
               /\ account' = [account EXCEPT ![request[r].other] = gone]
               /\ owner' = IF owner = request[r].other THEN request[r].user ELSE owner
        BY <1>9 DEF Accounts!Merge, gone
      <3>3. request[r].user \in Accounts!Accounts \/ ~Accounts!Exists(request[r].user)
        BY <1>k DEF RequestTypes, Accounts!Exists
      <3>4. Kept /\ Internals \subseteq Accounts!Accounts
        BY <1>k DEF Accounts!Accounts
      <3>5. owner' \in Accounts!Accounts /\ account'[owner'].role # "none"
        BY <2>2, <3>2, <3>3, <3>4 DEF Kept, Accounts!PluginsHaveOwners, Accounts!Exists
      <3>6. /\ account' \in [Accounts!Accounts -> [role : Accounts!Roles, github : Identities \cup {Nobody}]]
            /\ \A a \in Internals : account'[a] = account[a]
        BY <2>2, <3>1, <3>2, <3>4 DEF Kept
      <3> QED BY <2>1, <3>4, <3>5, <3>6, KeptWithAccounts
    <2> DEFINE n == [request[r] EXCEPT !.at = "profile", !.other = Nobody]
    <2>4. /\ n \in RequestTypes /\ n.at = "profile" /\ n.token = request[r].token
          /\ n.late = request[r].late
      <3>1. "profile" \in Steps
        BY DEF Steps
      <3>2. n \in RequestTypes
        BY <1>k, <3>1, RequestTurns DEF Accounts!Roles
      <3> QED BY <1>k, <3>2 DEF RequestTypes
    <2>5. request' = [request EXCEPT ![r] = n]
      BY <2>1
    <2> HIDE DEF n
    <2>6. PICK m \in RequestTypes : m = n
      BY <2>4
    <2>7. RequestFits(m)'
      BY <2>2, <2>4, <2>6, <2>1 DEF RequestFits
    <2> QED BY <2>1, <2>2, <2>3, <2>4, <2>5, <2>6, <2>7, RequestMovesOn
  <1>10. ASSUME NEW r \in Requests, Accounts!Profile(r)
         PROVE  AccountsInv'
    <2>1. /\ UNCHANGED <<session, grant, latest, cookies, loggedOut, owner, submission>>
          /\ request[r].at = "profile"
      BY <1>10 DEF Accounts!Profile, Accounts!redis, Accounts!stays
    <2>2. request[r].token \in cookies \cup {Nobody} /\ request[r].late = FALSE
      BY <1>k, <2>1 DEF RequestFits, RequestTypes
    <2>3. CASE Accounts!End(r) /\ UNCHANGED account
      <3>1. Kept'
        BY <1>k, <2>1, <2>3, KeptStays DEF Kept
      <3> QED BY <2>1, <2>3, <3>1, RequestEnds
    <2>4. CASE /\ Accounts!Exists(request[r].user)
               /\ account' = [account EXCEPT ![request[r].user].github = request[r].github]
               /\ request' = [request EXCEPT ![r].at = "linked",
                                             ![r].role = account[request[r].user].role]
      <3>1. request[r].user \in Accounts!Accounts /\ Internals \subseteq Accounts!Accounts
        BY <1>k, <2>4 DEF RequestTypes, Accounts!Exists, Accounts!Accounts
      <3>2. /\ account' \in [Accounts!Accounts -> [role : Accounts!Roles, github : Identities \cup {Nobody}]]
            /\ \A a \in Accounts!Accounts : account'[a].role = account[a].role
        BY <1>k, <2>4, <3>1 DEF Kept, RequestTypes
      <3>3. owner \in Accounts!Accounts /\ account[owner].role # "none"
        BY <1>k DEF Kept, Accounts!PluginsHaveOwners, Accounts!Exists
      <3>4. Kept'
        BY <1>k, <2>1, <3>1, <3>2, <3>3, KeptWithAccounts
      <3> DEFINE role == account[request[r].user].role
                 n == [request[r] EXCEPT !.at = "linked", !.role = role]
      <3>5. role \in Accounts!Roles /\ (request[r].user \in Internals => role = "core")
        BY <1>k, <3>1 DEF Kept, Accounts!CoreAdminsStay
      <3>6. request' = [request EXCEPT ![r] = n]
        BY <2>4
      <3> HIDE DEF role
      <3>7. /\ n \in RequestTypes /\ n.at = "linked" /\ n.token = request[r].token
            /\ n.late = request[r].late /\ n.role = role /\ n.user = request[r].user
        BY <1>k, <3>5 DEF RequestTypes, Steps
      <3> HIDE DEF n
      <3>8. PICK m \in RequestTypes : m = n
        BY <3>7
      <3>9. RequestFits(m)'
        BY <2>1, <2>2, <3>5, <3>7, <3>8 DEF RequestFits
      <3> QED BY <2>1, <2>2, <3>4, <3>6, <3>7, <3>8, <3>9, RequestMovesOn
    <2> QED BY <1>10, <2>3, <2>4 DEF Accounts!Profile
  <1>11. ASSUME NEW r \in Requests, Accounts!Promote(r)
         PROVE  AccountsInv'
    <2>1. /\ UNCHANGED <<session, grant, latest, cookies, loggedOut, owner, submission>>
          /\ request[r].at = "linked"
          /\ \/ UNCHANGED account
             \/ /\ ~Accounts!IsAdmin(request[r].role)
                /\ account' = [account EXCEPT ![request[r].user].role = "admin"]
          /\ request' = [request EXCEPT ![r].at = "promoted", ![r].role = "none"]
      BY <1>11 DEF Accounts!Promote, Accounts!redis, Accounts!stays
    <2>2. request[r].token \in cookies \cup {Nobody} /\ request[r].late = FALSE
      BY <1>k, <2>1 DEF RequestFits, RequestTypes
    <2>3. request[r].user \in Internals => account' = account
      BY <1>k, <2>1 DEF RequestFits, Accounts!IsAdmin
    <2>4. /\ account' \in [Accounts!Accounts -> [role : Accounts!Roles, github : Identities \cup {Nobody}]]
          /\ \A a \in Accounts!Accounts : account'[a] = account[a] \/ account'[a].role = "admin"
          /\ \A a \in Internals : account'[a] = account[a]
      BY <1>k, <2>1, <2>3 DEF Kept, Accounts!Roles, Accounts!Accounts
    <2>5. owner \in Accounts!Accounts /\ account[owner].role # "none"
      BY <1>k DEF Kept, Accounts!PluginsHaveOwners, Accounts!Exists
    <2>6. Kept'
      BY <1>k, <2>1, <2>4, <2>5, KeptWithAccounts
    <2> DEFINE n == [request[r] EXCEPT !.at = "promoted", !.role = "none"]
    <2>7. /\ n \in RequestTypes /\ n.at = "promoted" /\ n.token = request[r].token
          /\ n.late = request[r].late
      <3>1. "promoted" \in Steps /\ "none" \in Accounts!Roles
        BY DEF Steps, Accounts!Roles
      <3>2. n \in RequestTypes
        BY <1>k, <3>1, RequestTurns
      <3> QED BY <1>k, <3>2 DEF RequestTypes
    <2>8. request' = [request EXCEPT ![r] = n]
      BY <2>1
    <2> HIDE DEF n
    <2>9. PICK m \in RequestTypes : m = n
      BY <2>7
    <2>10. RequestFits(m)'
      BY <2>1, <2>2, <2>7, <2>9 DEF RequestFits
    <2> QED BY <2>1, <2>2, <2>6, <2>7, <2>8, <2>9, <2>10, RequestMovesOn
  <1>12. ASSUME NEW r \in Requests, NEW t \in Tokens, Accounts!CreateSession(r, t)
         PROVE  AccountsInv'
    <2>1. /\ UNCHANGED <<account, grant, latest, cookies, loggedOut, owner, submission>>
          /\ request[r].at = "promoted" /\ t \notin cookies
          /\ \A p \in Requests : request[p].token # t
          /\ session' = [session EXCEPT ![t] = request[r].user]
          /\ request' = [request EXCEPT ![r].at = "session", ![r].token = t]
      BY <1>12 DEF Accounts!CreateSession, Accounts!Fresh, Accounts!stays
    <2>2. Kept'
      BY <1>k, <2>1, KeptStays DEF Kept, RequestTypes
    <2>3. request[r].late = FALSE
      BY <1>k, <2>1 DEF RequestFits, RequestTypes
    <2> DEFINE n == [request[r] EXCEPT !.at = "session", !.token = t]
    <2>4. n \in RequestTypes /\ n.at = "session" /\ n.token = t /\ n.late = request[r].late
      BY <1>k DEF RequestTypes, Steps
    <2>5. request' = [request EXCEPT ![r] = n]
      BY <2>1
    <2> HIDE DEF n
    <2>6. PICK m \in RequestTypes : m = n
      BY <2>4
    <2>7. RequestFits(m)'
      BY <2>1, <2>3, <2>4, <2>6 DEF RequestFits
    <2>8. \A p \in Requests \ {r} : request[p].at \in {"session", "authorized"} =>
              request[p].token \notin cookies' /\ request[p].token # m.token
      BY <1>k, <2>1, <2>4, <2>6 DEF RequestFits
    <2> QED BY <2>1, <2>2, <2>4, <2>5, <2>6, <2>7, <2>8, RequestMoves
  <1>13. ASSUME NEW r \in Requests, Accounts!SaveAuthorization(r)
         PROVE  AccountsInv'
    <2> DEFINE held == [user |-> request[r].user, github |-> request[r].github]
    <2>1. /\ UNCHANGED <<account, session, latest, cookies, loggedOut, owner, submission>>
          /\ request[r].at = "session"
          /\ grant' = [grant EXCEPT ![request[r].token] = held]
          /\ request' = [request EXCEPT ![r].at = "authorized"]
      BY <1>13 DEF Accounts!SaveAuthorization, Accounts!Goto, Accounts!stays
    <2>2. held \in GrantTypes
      BY <1>k DEF RequestTypes, GrantTypes
    <2> HIDE DEF held
    <2>3. /\ request[r].token \in Tokens \ cookies /\ request[r].late = FALSE
          /\ \A p \in Requests \ {r} : request[p].token # request[r].token
      BY <1>k, <2>1 DEF RequestFits, RequestTypes, TokensApart
    <2>4. /\ grant' \in [Tokens -> GrantTypes]
          /\ \A t \in cookies : grant'[t] = grant[t]
      BY <1>k, <2>1, <2>2, <2>3 DEF Kept
    <2>5. Kept'
      BY <1>k, <2>1, <2>4 DEF Kept, TokensFit, Accounts!PluginsHaveOwners, Accounts!CoreAdminsStay,
         Accounts!Exists
    <2> DEFINE n == [request[r] EXCEPT !.at = "authorized"]
    <2>6. /\ n \in RequestTypes /\ n.at = "authorized" /\ n.token = request[r].token
          /\ n.late = request[r].late
      BY <1>k DEF RequestTypes, Steps
    <2>7. request' = [request EXCEPT ![r] = n]
      BY <2>1
    <2> HIDE DEF n
    <2>8. PICK m \in RequestTypes : m = n
      BY <2>6
    <2>9. RequestFits(m)'
      BY <2>1, <2>3, <2>6, <2>8 DEF RequestFits
    <2>10. \A p \in Requests \ {r} : request[p].at \in {"session", "authorized"} =>
              request[p].token \notin cookies' /\ request[p].token # m.token
      BY <1>k, <2>1, <2>3, <2>6, <2>8 DEF RequestFits
    <2>11. /\ \A p \in Requests \ {r} : request[p].token # m.token
           /\ \A t \in cookies : grant[t] = Accounts!NoGrant => grant'[t] = Accounts!NoGrant
      BY <2>3, <2>4, <2>6, <2>8
    <2> QED BY <2>1, <2>5, <2>6, <2>7, <2>8, <2>9, <2>10, <2>11, RequestMoves
  <1>14. ASSUME NEW r \in Requests, Accounts!SaveLatest(r)
         PROVE  AccountsInv'
    <2>1. /\ UNCHANGED <<account, session, grant, loggedOut, owner, submission>>
          /\ request[r].at = "authorized"
          /\ latest' = [latest EXCEPT ![request[r].user] = request[r].token]
          /\ cookies' = cookies \cup {request[r].token}
          /\ Accounts!End(r)
      BY <1>14 DEF Accounts!SaveLatest
    <2>2. /\ request[r].token \in Tokens \ cookies
          /\ \A p \in Requests \ {r} : request[p].token # request[r].token
      BY <1>k, <2>1 DEF RequestFits, TokensApart
    <2>3. Kept'
      BY <1>k, <2>1, <2>2 DEF Kept, TokensFit, Accounts!PluginsHaveOwners, Accounts!CoreAdminsStay,
         Accounts!Exists
    <2>4. PICK n \in RequestTypes : n = Accounts!Free
      BY DEF Accounts!Free, RequestTypes, Accounts!Roles, Steps
    <2>5. n.at = "free" /\ n.token = Nobody /\ n.late = FALSE
      BY <2>4 DEF Accounts!Free
    <2>6. request' = [request EXCEPT ![r] = n]
      BY <2>1, <2>4 DEF Accounts!End
    <2>7. RequestFits(n)'
      BY <2>5 DEF RequestFits
    <2>8. \A p \in Requests \ {r} : request[p].at \in {"session", "authorized"} =>
              request[p].token \notin cookies' /\ request[p].token # n.token
      BY <1>k, <2>1, <2>2, <2>5 DEF RequestFits, NobodyApart
    <2>9. \A t \in cookies : grant[t] = Accounts!NoGrant => grant'[t] = Accounts!NoGrant
      BY <2>1
    <2> QED BY <2>1, <2>3, <2>5, <2>6, <2>7, <2>8, <2>9, RequestMoves
  <1>15. ASSUME NEW r \in Requests, Accounts!Submit(r)
         PROVE  AccountsInv'
    <2> DEFINE sent == [user |-> request[r].user, github |-> request[r].github,
                        token |-> request[r].token, owner |-> request[r].user]
    <2>1. /\ UNCHANGED <<account, session, latest, cookies, loggedOut, owner>>
          /\ request[r].at = "known" /\ submission = Accounts!NotSubmitted
          /\ \/ submission' = sent /\ grant' = grant
             \/ /\ submission' = submission
                /\ grant' = [grant EXCEPT ![request[r].token] = Accounts!NoGrant]
          /\ Accounts!End(r)
      BY <1>15 DEF Accounts!Submit, Accounts!stays
    <2>2. sent \in SubmissionTypes /\ sent.token = request[r].token
      BY <1>k DEF RequestTypes, SubmissionTypes
    <2> HIDE DEF sent
    <2>3. request[r].token \in cookies \cup {Nobody}
      BY <1>k, <2>1 DEF RequestFits
    <2>4. /\ grant' \in [Tokens -> GrantTypes]
          /\ \A t \in Tokens : grant[t] = Accounts!NoGrant => grant'[t] = Accounts!NoGrant
      BY <1>k, <2>1, NoGrantFits DEF Kept
    <2>5. submission' \in SubmissionTypes /\ submission'.token \in cookies \cup {Nobody}
      BY <1>k, <2>1, <2>2, <2>3 DEF Kept, TokensFit
    <2>6. Kept'
      BY <1>k, <2>1, <2>4, <2>5 DEF Kept, TokensFit, Accounts!PluginsHaveOwners,
         Accounts!CoreAdminsStay, Accounts!Exists
    <2>7. cookies \subseteq Tokens
      BY <1>k DEF Kept
    <2> QED BY <2>1, <2>4, <2>6, <2>7, RequestEnds
  <1>16. ASSUME NEW r \in Requests,
                \/ Accounts!AskPublication(r) \/ Accounts!OpenPlugin(r)
                \/ Accounts!AuthorizePublication(r) \/ Accounts!Leave(r)
                \/ \E op \in {"delete", "role"}, c \in Internals, a \in Accounts!Accounts :
                      Accounts!Manage(r, op, c, a)
         PROVE  AccountsInv'
    <2>1. UNCHANGED <<account, session, grant, latest, cookies, loggedOut, owner, submission>>
      BY <1>16 DEF Accounts!AskPublication, Accounts!OpenPlugin, Accounts!AuthorizePublication,
         Accounts!Leave, Accounts!Manage, Accounts!redis, Accounts!stays
    <2>2. Kept'
      BY <1>k, <2>1, KeptStays DEF Kept
    <2>3. CASE Accounts!End(r)
      BY <2>1, <2>2, <2>3, RequestEnds
    <2>4. CASE Accounts!AskPublication(r)
      <3> DEFINE g == account[submission.user].github
                 n == [Accounts!Free EXCEPT !.op = "publish", !.at = "owned", !.token = submission.token,
                                            !.user = submission.user, !.github = g]
      <3>1. /\ submission # Accounts!NotSubmitted /\ Accounts!Exists(submission.user)
            /\ request' = [request EXCEPT ![r] = n]
        BY <2>4 DEF Accounts!AskPublication
      <3>2. /\ submission.user \in Accounts!Accounts /\ submission.token \in cookies \cup {Nobody}
            /\ submission.token \in Tokens \cup {Nobody}
        BY <1>k, <3>1 DEF Kept, TokensFit, SubmissionTypes, Accounts!Exists
      <3>3. g \in Identities \cup {Nobody}
        BY <1>k, <3>2 DEF Kept
      <3> HIDE DEF g
      <3>4. /\ n \in RequestTypes /\ n.at = "owned" /\ n.token = submission.token
            /\ n.user = submission.user /\ n.late = FALSE
        BY <3>2, <3>3 DEF Accounts!Free, RequestTypes, Accounts!Roles, Steps
      <3> HIDE DEF n
      <3>5. PICK m \in RequestTypes : m = n
        BY <3>4
      <3>6. RequestFits(m)'
        BY <2>1, <3>1, <3>2, <3>4, <3>5 DEF RequestFits, Accounts!Exists
      <3> QED BY <2>1, <2>2, <3>1, <3>2, <3>4, <3>5, <3>6, RequestMovesOn
    <2>5. CASE Accounts!OpenPlugin(r)
      <3> DEFINE n == [Accounts!Free EXCEPT !.op = "edit", !.at = "read", !.other = owner]
      <3>1. /\ n \in RequestTypes /\ n.at = "read" /\ n.token = Nobody /\ n.other = owner
            /\ n.late = FALSE /\ owner \in Accounts!Accounts
        BY <1>k DEF Kept, Accounts!Free, RequestTypes, Accounts!Roles, Steps
      <3>2. request' = [request EXCEPT ![r] = n]
        BY <2>5 DEF Accounts!OpenPlugin
      <3> HIDE DEF n
      <3>3. PICK m \in RequestTypes : m = n
        BY <3>1
      <3>4. RequestFits(m)'
        BY <3>1, <3>3 DEF RequestFits
      <3> QED BY <2>1, <2>2, <3>1, <3>2, <3>3, <3>4, RequestMovesOn
    <2>6. ASSUME NEW op \in {"delete", "role"}, NEW c \in Internals, NEW a \in Accounts!Accounts,
                 Accounts!Manage(r, op, c, a)
          PROVE  AccountsInv'
      <3> DEFINE n == [Accounts!Free EXCEPT !.op = op, !.at = "managed", !.user = c, !.other = a]
      <3>1. /\ n \in RequestTypes /\ n.at = "managed" /\ n.token = Nobody /\ n.other = a
            /\ n.user = c /\ n.late = FALSE
        BY DEF Accounts!Free, RequestTypes, Accounts!Roles, Steps, Accounts!Accounts
      <3>2. request' = [request EXCEPT ![r] = n] /\ account[a].role # "core"
        BY <2>6 DEF Accounts!Manage
      <3>3. a \notin Internals
        BY <1>k, <3>2 DEF Kept, Accounts!CoreAdminsStay
      <3> HIDE DEF n
      <3>4. PICK m \in RequestTypes : m = n
        BY <3>1
      <3>5. RequestFits(m)'
        BY <3>1, <3>3, <3>4 DEF RequestFits
      <3> QED BY <2>1, <2>2, <3>1, <3>2, <3>4, <3>5, RequestMovesOn
    <2>7. CASE Accounts!AuthorizePublication(r) /\ ~Accounts!End(r)
      <3>1. /\ request[r].at = "verified" /\ request[r].github = submission.github
            /\ request' = [request EXCEPT ![r].at = "answered"]
        BY <2>7 DEF Accounts!AuthorizePublication, Accounts!SameIdentity, Accounts!Goto
      <3>2. /\ submission # Accounts!NotSubmitted
            /\ request[r].user = submission.user /\ request[r].user # Nobody
            /\ request[r].token \in cookies \cup {Nobody} /\ request[r].late = FALSE
        BY <1>k, <3>1 DEF RequestFits, RequestTypes
      <3> DEFINE n == [request[r] EXCEPT !.at = "answered"]
      <3>3. /\ n \in RequestTypes /\ n.at = "answered" /\ n.token = request[r].token
            /\ n.late = request[r].late /\ n.user = request[r].user /\ n.github = request[r].github
        BY <1>k DEF RequestTypes, Steps
      <3>4. request' = [request EXCEPT ![r] = n]
        BY <3>1
      <3> HIDE DEF n
      <3>5. PICK m \in RequestTypes : m = n
        BY <3>3
      <3>6. RequestFits(m)'
        BY <2>1, <3>1, <3>2, <3>3, <3>5 DEF RequestFits
      <3> QED BY <2>1, <2>2, <3>2, <3>3, <3>4, <3>5, <3>6, RequestMovesOn
    <2> QED BY <1>16, <2>3, <2>4, <2>5, <2>6, <2>7 DEF Accounts!Leave
  <1>17. ASSUME NEW r \in Requests, Accounts!ReadCredential(r)
         PROVE  AccountsInv'
    <2>1. /\ UNCHANGED <<account, session, latest, cookies, loggedOut, owner, submission>>
          /\ request[r].at = "owned" /\ request[r].op = "publish"
          /\ \/ grant' = grant
             \/ grant' = [grant EXCEPT ![request[r].token] = Accounts!NoGrant]
      BY <1>17 DEF Accounts!ReadCredential, Accounts!stays
    <2>2. /\ submission # Accounts!NotSubmitted
          /\ request[r].user = submission.user /\ request[r].user # Nobody
          /\ request[r].token \in cookies \cup {Nobody} /\ request[r].late = FALSE
      BY <1>k, <2>1 DEF RequestFits, RequestTypes
    <2>3. /\ grant' \in [Tokens -> GrantTypes] /\ cookies \subseteq Tokens
          /\ \A t \in Tokens : grant[t] = Accounts!NoGrant => grant'[t] = Accounts!NoGrant
      BY <1>k, <2>1, NoGrantFits DEF Kept
    <2>4. Kept'
      BY <1>k, <2>1, <2>3 DEF Kept, TokensFit, Accounts!PluginsHaveOwners, Accounts!CoreAdminsStay,
         Accounts!Exists
    <2>5. CASE Accounts!End(r)
      BY <2>1, <2>3, <2>4, <2>5, RequestEnds
    <2>6. CASE request' = [request EXCEPT ![r].at = "verified"]
      <3> DEFINE n == [request[r] EXCEPT !.at = "verified"]
      <3>1. /\ n \in RequestTypes /\ n.at = "verified" /\ n.token = request[r].token
            /\ n.late = request[r].late /\ n.user = request[r].user
        BY <1>k DEF RequestTypes, Steps
      <3>2. request' = [request EXCEPT ![r] = n]
        BY <2>6
      <3> HIDE DEF n
      <3>3. PICK m \in RequestTypes : m = n
        BY <3>1
      <3>4. RequestFits(m)'
        BY <2>1, <2>2, <3>1, <3>3 DEF RequestFits
      <3> QED BY <2>1, <2>2, <2>3, <2>4, <3>1, <3>2, <3>3, <3>4, RequestMovesOn
    <2>7. CASE /\ latest[request[r].user] # Nobody
               /\ request' = [request EXCEPT ![r].token = latest[request[r].user]]
      <3> DEFINE t == latest[request[r].user]
                 n == [request[r] EXCEPT !.token = t]
      <3>1. request[r].user \in Accounts!Accounts \/ request[r].user = Nobody
        BY <1>k DEF RequestTypes
      <3>2. t \in cookies /\ t \in Tokens
        BY <1>k, <2>2, <2>7, <3>1 DEF Kept, TokensFit
      <3>4. request' = [request EXCEPT ![r] = n]
        BY <2>7
      <3> HIDE DEF t
      <3>5. /\ n \in RequestTypes /\ n.at = "owned" /\ n.token = t
            /\ n.late = request[r].late /\ n.user = request[r].user
        BY <1>k, <2>1, <3>2 DEF RequestTypes, Steps
      <3> HIDE DEF n
      <3>6. PICK m \in RequestTypes : m = n
        BY <3>5
      <3>7. RequestFits(m)'
        BY <2>1, <2>2, <3>2, <3>5, <3>6 DEF RequestFits
      <3> QED BY <2>1, <2>2, <2>3, <2>4, <3>2, <3>4, <3>5, <3>6, <3>7, RequestMovesOn
    <2> QED BY <1>17, <2>5, <2>6, <2>7 DEF Accounts!ReadCredential, Accounts!Goto
  <1>18. ASSUME NEW r \in Requests, Accounts!WriteBack(r)
         PROVE  AccountsInv'
    <2>1. /\ UNCHANGED <<account, session, grant, latest, cookies, loggedOut, submission>>
          /\ \/ owner' = owner
             \/ Accounts!Exists(request[r].other) /\ owner' = request[r].other
          /\ request[r].at = "read" /\ Accounts!End(r)
      BY <1>18 DEF Accounts!WriteBack, Accounts!References, Accounts!redis, Accounts!stays
    <2>2. owner' \in Accounts!Accounts /\ account'[owner'].role # "none"
      BY <1>k, <2>1 DEF Kept, RequestFits, Accounts!PluginsHaveOwners, Accounts!Exists
    <2>3. /\ account' \in [Accounts!Accounts -> [role : Accounts!Roles, github : Identities \cup {Nobody}]]
          /\ account' = account
      BY <1>k, <2>1 DEF Kept
    <2>4. Kept'
      BY <1>k, <2>1, <2>2, <2>3, KeptWithAccounts
    <2> QED BY <2>1, <2>4, RequestEnds
  <1>19. ASSUME NEW r \in Requests,
                \/ Accounts!DeleteUser(r)
                \/ \E role \in {"user", "admin"} : Accounts!UpdateRole(r, role)
         PROVE  AccountsInv'
    <2>1. /\ UNCHANGED <<session, grant, latest, cookies, loggedOut, submission>>
          /\ request[r].at = "managed" /\ Accounts!End(r)
      BY <1>19 DEF Accounts!DeleteUser, Accounts!UpdateRole, Accounts!redis, Accounts!stays
    <2> DEFINE a == request[r].other
    <2>2. /\ a \in Accounts!Accounts \ Internals
          /\ request[r].user \in Internals /\ Internals \subseteq Accounts!Accounts
      BY <1>k, <2>1 DEF RequestFits, Accounts!Accounts
    <2>3. \/ /\ account' = [account EXCEPT ![a] = [role |-> "none", github |-> Nobody]]
             /\ owner' = IF owner = a THEN request[r].user ELSE owner
          \/ account' = account /\ owner' = owner
          \/ /\ \E role \in {"user", "admin"} : account' = [account EXCEPT ![a].role = role]
             /\ owner' = owner
      BY <1>k, <1>19 DEF Accounts!DeleteUser, Accounts!UpdateRole, Kept, Accounts!PluginsHaveOwners
    <2> HIDE DEF a
    <2>4. /\ account' \in [Accounts!Accounts -> [role : Accounts!Roles, github : Identities \cup {Nobody}]]
          /\ \A b \in Accounts!Accounts \ {a} : account'[b] = account[b]
      BY <1>k, <2>2, <2>3 DEF Kept, Accounts!Roles
    <2>5. owner' \in Accounts!Accounts /\ account'[owner'].role # "none"
      BY <1>k, <2>2, <2>3 DEF Kept, Accounts!PluginsHaveOwners, Accounts!CoreAdminsStay, Accounts!Exists
    <2>6. Kept'
      BY <1>k, <2>1, <2>2, <2>4, <2>5, KeptWithAccounts
    <2> QED BY <2>1, <2>6, RequestEnds
  <1> QED
    BY <1>1, <1>2, <1>3, <1>4, <1>5, <1>6, <1>7, <1>8, <1>9, <1>10, <1>11, <1>12, <1>13, <1>14, <1>15,
       <1>16, <1>17, <1>18, <1>19, Zenon DEF Accounts!Next, Accounts!RequestStep

(* Nobody submits with a session whose logout was answered before.         *)
LEMMA NobodySubmitsLate ==
    ASSUME NobodyApart, AccountsInv, [Accounts!Next]_(Accounts!vars)
    PROVE  Accounts!AccessEndsWithLogout
  <1>1. SUFFICES ASSUME submission = Accounts!NotSubmitted, submission' # Accounts!NotSubmitted,
                        NEW p \in Requests, request[p].op = "submit", request[p].late
                 PROVE  request'[p] = request[p]
    BY DEF Accounts!AccessEndsWithLogout
  <1>2. PICK r \in Requests : Accounts!Submit(r)
    <2>1. ASSUME NEW r \in Requests, Accounts!RequestStep(r), ~Accounts!Submit(r)
          PROVE  submission' = submission
      <3>1. CASE \/ Accounts!Touch(r) \/ Accounts!RevokeSession(r) \/ Accounts!Merge(r)
                 \/ Accounts!Profile(r) \/ Accounts!Promote(r)
        BY <3>1 DEF Accounts!Touch, Accounts!RevokeSession, Accounts!Merge, Accounts!Profile,
           Accounts!Promote
      <3>2. CASE \/ Accounts!SaveAuthorization(r) \/ Accounts!SaveLatest(r)
                 \/ Accounts!AskPublication(r) \/ Accounts!ReadCredential(r)
                 \/ Accounts!AuthorizePublication(r)
        BY <3>2 DEF Accounts!SaveAuthorization, Accounts!SaveLatest, Accounts!AskPublication,
           Accounts!ReadCredential, Accounts!AuthorizePublication
      <3>3. CASE \/ Accounts!OpenPlugin(r) \/ Accounts!WriteBack(r) \/ Accounts!DeleteUser(r)
                 \/ Accounts!Leave(r)
        BY <3>3 DEF Accounts!OpenPlugin, Accounts!WriteBack, Accounts!DeleteUser, Accounts!Leave
      <3> QED BY <2>1, <3>1, <3>2, <3>3, Zenon DEF Accounts!RequestStep
    <2>2. ASSUME NEW r \in Requests,
                 \/ \E t \in Tokens : Accounts!LogOut(r, t) \/ Accounts!CreateSession(r, t)
                 \/ \E t \in Tokens, op \in {"submit", "callback"} : Accounts!Open(r, op, t)
                 \/ \E g \in Identities : Accounts!SignIn(r, g) \/ Accounts!Link(r, g)
                 \/ \E op \in {"delete", "role"}, c \in Internals, a \in Accounts!Accounts :
                       Accounts!Manage(r, op, c, a)
                 \/ \E role \in {"user", "admin"} : Accounts!UpdateRole(r, role)
          PROVE  submission' = submission
      BY <2>2 DEF Accounts!LogOut, Accounts!CreateSession, Accounts!Open, Accounts!SignIn,
         Accounts!Link, Accounts!Manage, Accounts!UpdateRole
    <2>3. CASE \E t \in Tokens, a \in Internals : Accounts!LogIn(t, a)
      BY <1>1, <2>3 DEF Accounts!LogIn
    <2>4. CASE UNCHANGED Accounts!vars
      BY <1>1, <2>4 DEF Accounts!vars
    <2> QED BY <1>1, <2>1, <2>2, <2>3, <2>4, Zenon DEF Accounts!Next
  <1>3. Accounts!Usable(request[r].token, request[r].user, request[r].github) /\ Accounts!End(r)
    BY <1>1, <1>2 DEF Accounts!Submit
  <1>4. request[p].token \in loggedOut /\ grant[request[p].token] = Accounts!NoGrant
    BY <1>1 DEF AccountsInv, RequestFits, TokensFit
  <1>5. p # r
    BY <1>3, <1>4 DEF Accounts!Usable, Accounts!NoGrant
  <1> QED BY <1>3, <1>5 DEF Accounts!End, AccountsInv, AccountsTyped

LEMMA AccountsInvariance ==
    ASSUME NobodyApart
    PROVE  Spec => [](focus = "accounts" => AccountsInv)
  <1> DEFINE I == focus = "accounts" => AccountsInv
  <1>1. Init => I
    BY OneServiceAtInit, AccountsAtInit
  <1>2. I /\ [Next]_vars => I'
    BY OneService, AccountsStay
  <1> QED BY <1>1, <1>2, PTL DEF Spec

(* No overlap of links, merges, deletions and stale writes leaves a plugin *)
(* without its owner's account or takes a core administrator away          *)
(* (store.py, delete_user and merge_user_into_user).                       *)
THEOREM OwnersAndAdminsRemain ==
    ASSUME NobodyApart
    PROVE  Spec => []OwnersAndAdminsStay
  <1>1. (focus = "accounts" => AccountsInv) => OwnersAndAdminsStay
    BY DEF OwnersAndAdminsStay, AccountsInv
  <1> QED BY <1>1, AccountsInvariance, PTL

(* A publication is authorized by the identity that submitted, for the     *)
(* owner of then, whatever the accounts are linked to meanwhile            *)
(* (github_authorization.py, verify_publication_access).                   *)
THEOREM PublishersSubmitted ==
    ASSUME NobodyApart
    PROVE  Spec => []PublicationIsTheSubmitters
  <1>1. (focus = "accounts" => AccountsInv) => PublicationIsTheSubmitters
    BY DEF PublicationIsTheSubmitters, Accounts!PublicationIsTheSubmitters, AccountsInv, RequestFits
  <1> QED BY <1>1, AccountsInvariance, PTL

(* A request that began after a logout was answered reaches no repository  *)
(* under that session, though the session itself may come back to life     *)
(* (store.py, revoke_session; main.py, logout).                            *)
THEOREM LogoutIsTheEnd ==
    ASSUME NobodyApart
    PROVE  Spec => LogoutEndsAccess
  <1>1. (focus = "accounts" => AccountsInv) /\ [Next]_vars
            => [focus = "accounts" => Accounts!AccessEndsWithLogout]_vars
    BY OneService, NobodySubmitsLate
  <1> QED BY <1>1, AccountsInvariance, PTL DEF Spec, LogoutEndsAccess
=============================================================================
