------------------------------ MODULE Services ------------------------------
(***************************************************************************)
(* The services around the review: those that people's requests run        *)
(* through, the CDN review and several of the review's stages.  Each       *)
(* has its own rows and its own hazards, and they meet only in the modules *)
(* of the review itself, so that a behaviour is of one of them, the focus; *)
(* the others stay idle.                                                   *)
(***************************************************************************)
EXTENDS Naturals, Sequences, FiniteSets
CONSTANTS
    Foci,          \* the services that are looked at
    Unused,          \* the state of the others
    \* Accounts
    Identities, Internals, Tokens, Requests, Nobody,
    \* Listing
    Authors, Names, Spare, Repos, Writers, None, MaxTickets,
    \* Community
    Comments, Readers, Missing,
    \* ReviewPolicy
    Policies, NoPolicy, Drafted, Calls, Reviewed, MaxUpsets,
    \* ReviewDiscussion
    Threads, Asks, Releases, NoRelease, MaxRepeats, MaxTurns,
    \* Submission
    Uploads, Packages, NoUpload, MaxMishaps,
    \* Workspace
    Artifacts, Nowhere, Files, Slots, Pages, CacheLimit, MaxReads, MaxMoves,
    MaxVersion,
    \* CdnSubscription
    Syncers, Reviewers, Owners, Versions, MaxGen, MaxFaults,
    \* LlmReview
    Sources, Askers, NoAsker, Trials, Limit, Reserve, Need, MaxFiles, MaxSlips,
    \* ReviewScope
    Order, ModuleOf, Inits, Above, Trees, ImportsOf, Entrypoints, MaxText,
    MaxHunks, Analysts, Rounds, Tries, MaxSetbacks,
    \* Category
    Official, MaxChanges,
    \* MalwareScan
    Parcels, MaxTargets, FileRoom, TotalRoom, MaxHits, Bases, Passes, MaxLapses,
    \* ReviewHistory
    Entries, PageRoom, EventLimit, MaxHour, MaxSaid

VARIABLES
    focus,         \* the service whose behaviour this is
    \* Accounts
    account, session, grant, latest, cookies, loggedOut, owner, submission,
    request,
    \* Listing
    market, tickets, decided, writer,
    \* Community
    comment, likes, handler,
    \* ReviewPolicy
    policy, audit, call, snapshot, migrations, upsets,
    \* ReviewDiscussion
    verdict, thread, notes, closings, finding, release, stable, withdrawals,
    ask, turns,
    \* Submission
    consent, upload, quarantine, artifact, precheck, published, announced,
    copying, mishaps,
    \* Workspace
    active, generation, sequence, loading, errors, screen, kept, asked,
    flight, version,
    \* CdnSubscription
    plugin, row, github, syncer, reviewer, packages, faults,
    \* LlmReview
    picked, kind, errand, record, suggested, noted, asker, before, slips,
    \* ReviewScope
    base, origin, tree, diffs, graph, stamped, scopeRun, scopeJob, round,
    analyst, setbacks,
    \* Category
    shelf, sorting, clerk, chosen, changes,
    \* MalwareScan
    parcel, strict, screening, screened, flags, ruling, routing, confirmed,
    lapses,
    \* ReviewHistory
    hour, ledger, pager, promised, said, viewer

Accounts == INSTANCE Accounts
Listing == INSTANCE Listing
Community == INSTANCE Community
ReviewPolicy == INSTANCE ReviewPolicy
ReviewDiscussion == INSTANCE ReviewDiscussion
Submission == INSTANCE Submission
Workspace == INSTANCE Workspace
CdnSubscription == INSTANCE CdnSubscription
LlmReview == INSTANCE LlmReview
ReviewScope == INSTANCE ReviewScope
Category == INSTANCE Category
MalwareScan == INSTANCE MalwareScan
ReviewHistory == INSTANCE ReviewHistory

accountsVars ==
    <<account, session, grant, latest, cookies, loggedOut, owner, submission,
    request>>
listingVars ==
    <<market, tickets, decided, writer>>
communityVars ==
    <<comment, likes, handler>>
policiesVars ==
    <<policy, audit, call, snapshot, migrations, upsets>>
discussionVars ==
    <<verdict, thread, notes, closings, finding, release, stable, withdrawals,
    ask, turns>>
uploadsVars ==
    <<consent, upload, quarantine, artifact, precheck, published, announced,
    copying, mishaps>>
workspaceVars ==
    <<active, generation, sequence, loading, errors, screen, kept, asked,
    flight, version>>
cdnVars ==
    <<plugin, row, github, syncer, reviewer, packages, faults>>
llmVars ==
    <<picked, kind, errand, record, suggested, noted, asker, before, slips>>
scopeVars ==
    <<base, origin, tree, diffs, graph, stamped, scopeRun, scopeJob, round,
    analyst, setbacks>>
categoryVars ==
    <<shelf, sorting, clerk, chosen, changes>>
malwareVars ==
    <<parcel, strict, screening, screened, flags, ruling, routing, confirmed,
    lapses>>
historyVars ==
    <<hour, ledger, pager, promised, said, viewer>>
vars ==
    <<focus, accountsVars, listingVars, communityVars, policiesVars,
    discussionVars, uploadsVars, workspaceVars, cdnVars, llmVars, scopeVars,
    categoryVars, malwareVars, historyVars>>

Init ==
    /\ focus \in Foci
    /\ IF focus = "accounts" THEN Accounts!Init
       ELSE /\ account = Unused /\ session = Unused /\ grant = Unused
            /\ latest = Unused /\ cookies = Unused /\ loggedOut = Unused
            /\ owner = Unused /\ submission = Unused /\ request = Unused
    /\ IF focus = "listing" THEN Listing!Init
       ELSE /\ market = Unused /\ tickets = Unused /\ decided = Unused
            /\ writer = Unused
    /\ IF focus = "community" THEN Community!Init
       ELSE /\ comment = Unused /\ likes = Unused /\ handler = Unused
    /\ IF focus = "policies" THEN ReviewPolicy!Init
       ELSE /\ policy = Unused /\ audit = Unused /\ call = Unused
            /\ snapshot = Unused /\ migrations = Unused /\ upsets = Unused
    /\ IF focus = "discussion" THEN ReviewDiscussion!Init
       ELSE /\ verdict = Unused /\ thread = Unused /\ notes = Unused
            /\ closings = Unused /\ finding = Unused /\ release = Unused
            /\ stable = Unused /\ withdrawals = Unused /\ ask = Unused
            /\ turns = Unused
    /\ IF focus = "uploads" THEN Submission!Init
       ELSE /\ consent = Unused /\ upload = Unused /\ quarantine = Unused
            /\ artifact = Unused /\ precheck = Unused /\ published = Unused
            /\ announced = Unused /\ copying = Unused /\ mishaps = Unused
    /\ IF focus = "workspace" THEN Workspace!Init
       ELSE /\ active = Unused /\ generation = Unused /\ sequence = Unused
            /\ loading = Unused /\ errors = Unused /\ screen = Unused
            /\ kept = Unused /\ asked = Unused /\ flight = Unused
            /\ version = Unused
    /\ IF focus = "cdn" THEN CdnSubscription!Init
       ELSE /\ plugin = Unused /\ row = Unused /\ github = Unused
            /\ syncer = Unused /\ reviewer = Unused /\ packages = Unused
            /\ faults = Unused
    /\ IF focus = "llm" THEN LlmReview!Init
       ELSE /\ picked = Unused /\ kind = Unused /\ errand = Unused
            /\ record = Unused /\ suggested = Unused /\ noted = Unused
            /\ asker = Unused /\ before = Unused /\ slips = Unused
    /\ IF focus = "scope" THEN ReviewScope!Init
       ELSE /\ base = Unused /\ origin = Unused /\ tree = Unused
            /\ diffs = Unused /\ graph = Unused /\ stamped = Unused
            /\ scopeRun = Unused /\ scopeJob = Unused /\ round = Unused
            /\ analyst = Unused /\ setbacks = Unused
    /\ IF focus = "category" THEN Category!Init
       ELSE /\ shelf = Unused /\ sorting = Unused /\ clerk = Unused
            /\ chosen = Unused /\ changes = Unused
    /\ IF focus = "malware" THEN MalwareScan!Init
       ELSE /\ parcel = Unused /\ strict = Unused /\ screening = Unused
            /\ screened = Unused /\ flags = Unused /\ ruling = Unused
            /\ routing = Unused /\ confirmed = Unused /\ lapses = Unused
    /\ IF focus = "history" THEN ReviewHistory!Init
       ELSE /\ hour = Unused /\ ledger = Unused /\ pager = Unused
            /\ promised = Unused /\ said = Unused /\ viewer = Unused

AccountsStep ==
    /\ focus = "accounts" /\ Accounts!Next
    /\ UNCHANGED <<focus, listingVars, communityVars, policiesVars,
                   discussionVars, uploadsVars, workspaceVars, cdnVars,
                   llmVars, scopeVars, categoryVars, malwareVars, historyVars>>

ListingStep ==
    /\ focus = "listing" /\ Listing!Next
    /\ UNCHANGED <<focus, accountsVars, communityVars, policiesVars,
                   discussionVars, uploadsVars, workspaceVars, cdnVars,
                   llmVars, scopeVars, categoryVars, malwareVars, historyVars>>

CommunityStep ==
    /\ focus = "community" /\ Community!Next
    /\ UNCHANGED <<focus, accountsVars, listingVars, policiesVars,
                   discussionVars, uploadsVars, workspaceVars, cdnVars,
                   llmVars, scopeVars, categoryVars, malwareVars, historyVars>>

ReviewPolicyStep ==
    /\ focus = "policies" /\ ReviewPolicy!Next
    /\ UNCHANGED <<focus, accountsVars, listingVars, communityVars,
                   discussionVars, uploadsVars, workspaceVars, cdnVars,
                   llmVars, scopeVars, categoryVars, malwareVars, historyVars>>

ReviewDiscussionStep ==
    /\ focus = "discussion" /\ ReviewDiscussion!Next
    /\ UNCHANGED <<focus, accountsVars, listingVars, communityVars,
                   policiesVars, uploadsVars, workspaceVars, cdnVars, llmVars,
                   scopeVars, categoryVars, malwareVars, historyVars>>

SubmissionStep ==
    /\ focus = "uploads" /\ Submission!Next
    /\ UNCHANGED <<focus, accountsVars, listingVars, communityVars,
                   policiesVars, discussionVars, workspaceVars, cdnVars,
                   llmVars, scopeVars, categoryVars, malwareVars, historyVars>>

WorkspaceStep ==
    /\ focus = "workspace" /\ Workspace!Next
    /\ UNCHANGED <<focus, accountsVars, listingVars, communityVars,
                   policiesVars, discussionVars, uploadsVars, cdnVars,
                   llmVars, scopeVars, categoryVars, malwareVars, historyVars>>

CdnSubscriptionStep ==
    /\ focus = "cdn" /\ CdnSubscription!Next
    /\ UNCHANGED <<focus, accountsVars, listingVars, communityVars,
                   policiesVars, discussionVars, uploadsVars, workspaceVars,
                   llmVars, scopeVars, categoryVars, malwareVars, historyVars>>

LlmReviewStep ==
    /\ focus = "llm" /\ LlmReview!Next
    /\ UNCHANGED <<focus, accountsVars, listingVars, communityVars,
                   policiesVars, discussionVars, uploadsVars, workspaceVars,
                   cdnVars, scopeVars, categoryVars, malwareVars, historyVars>>

ReviewScopeStep ==
    /\ focus = "scope" /\ ReviewScope!Next
    /\ UNCHANGED <<focus, accountsVars, listingVars, communityVars,
                   policiesVars, discussionVars, uploadsVars, workspaceVars,
                   cdnVars, llmVars, categoryVars, malwareVars, historyVars>>

CategoryStep ==
    /\ focus = "category" /\ Category!Next
    /\ UNCHANGED <<focus, accountsVars, listingVars, communityVars,
                   policiesVars, discussionVars, uploadsVars, workspaceVars,
                   cdnVars, llmVars, scopeVars, malwareVars, historyVars>>

MalwareScanStep ==
    /\ focus = "malware" /\ MalwareScan!Next
    /\ UNCHANGED <<focus, accountsVars, listingVars, communityVars,
                   policiesVars, discussionVars, uploadsVars, workspaceVars,
                   cdnVars, llmVars, scopeVars, categoryVars, historyVars>>

ReviewHistoryStep ==
    /\ focus = "history" /\ ReviewHistory!Next
    /\ UNCHANGED <<focus, accountsVars, listingVars, communityVars,
                   policiesVars, discussionVars, uploadsVars, workspaceVars,
                   cdnVars, llmVars, scopeVars, categoryVars, malwareVars>>

Next ==
    \/ AccountsStep \/ ListingStep \/ CommunityStep \/ ReviewPolicyStep
    \/ ReviewDiscussionStep \/ SubmissionStep \/ WorkspaceStep
    \/ CdnSubscriptionStep \/ LlmReviewStep \/ ReviewScopeStep \/ CategoryStep
    \/ MalwareScanStep \/ ReviewHistoryStep

Spec == Init /\ [][Next]_vars
-----------------------------------------------------------------------------
TypeOK ==
    CASE focus = "accounts" -> Accounts!TypeOK
      [] focus = "listing" -> Listing!TypeOK
      [] focus = "community" -> Community!TypeOK
      [] focus = "policies" -> ReviewPolicy!TypeOK
      [] focus = "discussion" -> ReviewDiscussion!TypeOK
      [] focus = "uploads" -> Submission!TypeOK
      [] focus = "workspace" -> Workspace!TypeOK
      [] focus = "cdn" -> CdnSubscription!TypeOK
      [] focus = "llm" -> LlmReview!TypeOK
      [] focus = "scope" -> ReviewScope!TypeOK
      [] focus = "category" -> Category!TypeOK
      [] focus = "malware" -> MalwareScan!TypeOK
      [] focus = "history" -> ReviewHistory!TypeOK

(* A request that began after a logout was answered reaches no repository  *)
(* under that session (store.py, revoke_session; main.py, logout).         *)
LogoutEndsAccess == [][focus = "accounts" => Accounts!AccessEndsWithLogout]_vars

(* A publication is authorized by the identity that submitted, for the     *)
(* owner of then (github_authorization.py, verify_publication_access).     *)
PublicationIsTheSubmitters ==
    focus = "accounts" => Accounts!PublicationIsTheSubmitters

(* No overlap of links, merges, deletions and stale writes leaves a plugin *)
(* without its owner's account or takes a core administrator away          *)
(* (store.py, delete_user and merge_user_into_user).                       *)
OwnersAndAdminsStay ==
    focus = "accounts" => Accounts!PluginsHaveOwners /\ Accounts!CoreAdminsStay

(* A submission never takes over the row of a plugin that has another      *)
(* owner, name or repository, and one that waits was made after the last   *)
(* decision about its plugin (store.py, _plugin_registration_id,           *)
(* update_plugin_status and unlist_plugin).                                *)
SubmissionsKeepApart ==
    /\ [](focus = "listing" => Listing!PendingIsNew)
    /\ [][focus = "listing" => Listing!SubmitsApart]_vars

(* A comment shows as many likes as there are users who like it, and       *)
(* nothing is added to one that was deleted after it was looked up         *)
(* (store.py, like_comment, unlike_comment and delete_comment).            *)
CommentsAddUp ==
    /\ [](focus = "community" => Community!LikesAreRows)
    /\ [][focus = "community" => Community!LeavesDeleted]_vars

(* The log tells every policy's status, an activation names the policy it  *)
(* replaced, artifacts are only given a policy that holds after its        *)
(* validation, and a migration that is asked for again changes nothing     *)
(* (advanced_repository.py, transition_review_policy).                     *)
PoliciesAddUp ==
    focus = "policies" => /\ ReviewPolicy!AuditTells
                          /\ ReviewPolicy!ActiveIsValidated
                          /\ ReviewPolicy!MigratesOnce

(* A thread is the sum of its events, each written by someone who had seen *)
(* the others, and what was said before a decision stays as it was then    *)
(* (advanced_repository.py, append_review_comment_event).                  *)
ThreadsAddUp ==
    focus = "discussion" => /\ ReviewDiscussion!ThreadIsItsHistory
                            /\ ReviewDiscussion!DecisionClosesThreads

(* A release is withdrawn in a hurry only while it is the current one and  *)
(* its finding was not dismissed (repository.py, request_revoke_artifact). *)
WithdrawalIsWarranted == [][focus = "discussion" => ReviewDiscussion!WithdrawsWarranted]_vars

(* Whoever submits the same package at the same time, a queued precheck    *)
(* finds its object and no object is left without an artifact; what is     *)
(* reported as published is the whole package (service.py,                 *)
(* _create_artifact; storage.py, _copy_file_if_absent).                    *)
PackagesAreKept ==
    focus = "uploads" => /\ Submission!PrecheckFindsItsPackage
                         /\ Submission!NothingIsLeftBehind
                         /\ Submission!PublishedIsWhole

(* A reviewer is shown what was asked for last, of the artifact that is    *)
(* looked at; of its history every page from the first on, and on the      *)
(* pages every entry that was there, once; of its threads all events, or   *)
(* that there are more; and a list that is read never takes back what an   *)
(* own comment's answer has shown (reviewWorkspace.ts, isCurrent and       *)
(* commentRequest; history.py, list).                                      *)
ReadersSeeTheReview ==
    /\ [](focus = "workspace" => Workspace!ShownWasAskedFor /\ Workspace!HistoryHasNoGaps)
    /\ [](focus = "history" => ReviewHistory!HistoryIsWhole /\ ReviewHistory!ThreadsAreWhole)
    /\ [][focus = "workspace" => Workspace!ListsGoForward]_vars

(* What a CDN consent asked for is reported as submitted only if that      *)
(* version, or a later one, was submitted (cdn.py, finish).                *)
SubmittedIsReviewed == focus = "cdn" => CdnSubscription!SubmittedIsReviewed

(* The model's reviews stay in the budget that is left, and what they call *)
(* complete or safe was looked at; what the malware stages call complete   *)
(* was looked at whole, and nothing they could know to be bad is approved  *)
(* (stages/llm_file.py; summary_review.py; malware.py; stages/malware.py). *)
StagesAreSound ==
    /\ focus = "llm" => /\ LlmReview!FilesStayInBudget
                         /\ LlmReview!CompleteIsReviewed
                         /\ LlmReview!QuietSummaryIsSafe
    /\ focus = "malware" => /\ MalwareScan!CompleteScanIsWhole
                             /\ MalwareScan!ApprovedIsClean

(* The diffs tell of every file once, an incremental review leaves out no  *)
(* file whose behaviour may have changed, and a stage that is done has a   *)
(* run that says so (import_graph.py, build; stages/diff_graph.py).        *)
ScopeIsWhole == focus = "scope" => ReviewScope!ScopeIsWhole

(* The category stage never changes what a person has chosen while that    *)
(* stands in the row, however late its answer (repository.py,              *)
(* apply_category_suggestion; requirements.md, FR-201).                    *)
ModelKeepsChoices == [][focus = "category" => Category!KeepsChoices]_vars
=============================================================================
