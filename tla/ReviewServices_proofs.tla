----------------------- MODULE ReviewServices_proofs ------------------------
(***************************************************************************)
(* Proofs about the services that a package meets on its way to a release: *)
(* its submission, its category, the CDN review and a finding's            *)
(* withdrawal, each for any number of people, requests and rows.  A        *)
(* behaviour is of one service, so that what is to be proved of a service  *)
(* is proved from its own steps alone.                                     *)
(***************************************************************************)
EXTENDS Services, TLAPS

(* A behaviour stays with its service.                                     *)
LEMMA OneService ==
    ASSUME [Next]_vars
    PROVE  /\ focus' = focus
           /\ focus = "discussion" => [ReviewDiscussion!Next]_(ReviewDiscussion!vars)
           /\ focus = "uploads" => [Submission!Next]_(Submission!vars)
           /\ focus = "cdn" => [CdnSubscription!Next]_(CdnSubscription!vars)
           /\ focus = "category" => [Category!Next]_(Category!vars)
  <1>1. CASE UNCHANGED vars
    BY <1>1 DEF vars, discussionVars, uploadsVars, cdnVars, categoryVars,
       ReviewDiscussion!vars, Submission!vars, CdnSubscription!vars, Category!vars
  <1>2. CASE Next
    BY <1>2, Zenon DEF Next, AccountsStep, ListingStep, CommunityStep, ReviewPolicyStep,
       ReviewDiscussionStep, SubmissionStep, WorkspaceStep, CdnSubscriptionStep, LlmReviewStep,
       ReviewScopeStep, CategoryStep, MalwareScanStep, ReviewHistoryStep
  <1> QED BY <1>1, <1>2

LEMMA OneServiceAtInit ==
    ASSUME Init
    PROVE  /\ focus = "discussion" => ReviewDiscussion!Init
           /\ focus = "uploads" => Submission!Init
           /\ focus = "cdn" => CdnSubscription!Init
           /\ focus = "category" => Category!Init
  BY Zenon DEF Init
-----------------------------------------------------------------------------
(* Submission: packages that come in.                                      *)

UploadsTyped ==
    /\ upload \in [Uploads -> [package : Packages, at : Submission!Steps]]
    /\ quarantine \subseteq Uploads /\ precheck \subseteq Uploads
    /\ artifact \in [Packages -> Uploads \cup {NoUpload}]
    /\ published \in [Uploads -> {"absent", "part", "whole"}]
    /\ announced \subseteq Uploads /\ copying \subseteq Uploads

(* How far an upload has come tells whether it has its object, its row and *)
(* its job.                                                                *)
UploadFits(r) ==
    /\ upload[r].at = "new" => r \notin quarantine
    /\ upload[r].at \in {"stored", "checked", "unknown", "inserted", "queued"} => r \in quarantine
    /\ upload[r].at \in {"inserted", "queued"} => artifact[upload[r].package] = r
    /\ upload[r].at \in {"new", "stored", "checked", "unknown", "inserted"} => r \notin precheck
    /\ upload[r].at \in {"answered", "refused"} /\ r \in quarantine =>
          artifact[upload[r].package] = r
    /\ r \in precheck => r \in quarantine /\ upload[r].at # "refused"

CopyFits(r) ==
    /\ r \in copying => published[r] = "part"
    /\ r \in announced => published[r] = "whole"

UploadsInv ==
    /\ UploadsTyped
    /\ \A r \in Uploads : UploadFits(r) /\ CopyFits(r)

LEMMA UploadsAtInit == Submission!Init => UploadsInv
  BY DEF Submission!Init, UploadsInv, UploadsTyped, UploadFits, CopyFits, Submission!Steps

(* What an upload's own step does to its record.                           *)
LEMMA UploadSteps ==
    ASSUME UploadsTyped, NEW r \in Uploads, NEW s \in Submission!Steps, Submission!Goto(r, s)
    PROVE  /\ upload' \in [Uploads -> [package : Packages, at : Submission!Steps]]
           /\ upload'[r].at = s /\ upload'[r].package = upload[r].package
           /\ \A q \in Uploads \ {r} : upload'[q] = upload[q]
           /\ upload[r].package \in Packages
  BY DEF UploadsTyped, Submission!Goto

LEMMA UploadsStay ==
    ASSUME NoUpload \notin Uploads, UploadsInv, [Submission!Next]_(Submission!vars)
    PROVE  UploadsInv'
  <1>1. CASE Submission!Withdraw \/ UNCHANGED Submission!vars
    BY <1>1 DEF Submission!Withdraw, Submission!vars, Submission!public, UploadsInv, UploadsTyped,
       UploadFits, CopyFits
  <1>2. ASSUME NEW r \in Uploads,
               \/ Submission!RequestStep(r) \/ Submission!TooLarge(r) \/ Submission!Fail(r)
               \/ Submission!Die(r)
        PROVE  UploadsInv'
    <2>1. UNCHANGED <<published, announced, copying>>
      BY <1>2 DEF Submission!RequestStep, Submission!TooLarge, Submission!Fail, Submission!Die,
         Submission!PutQuarantine, Submission!CheckConsent, Submission!FindPackage,
         Submission!Insert, Submission!EnqueuePrecheck, Submission!Announce, Submission!public
    <2>2. PICK s \in Submission!Steps : Submission!Goto(r, s)
      BY <1>2 DEF Submission!RequestStep, Submission!TooLarge, Submission!Fail, Submission!Die,
         Submission!PutQuarantine, Submission!CheckConsent, Submission!FindPackage,
         Submission!Insert, Submission!EnqueuePrecheck, Submission!Announce, Submission!Steps
    <2>3. /\ \A q \in Uploads \ {r} : /\ q \in quarantine' <=> q \in quarantine
                                      /\ q \in precheck' <=> q \in precheck
          /\ \A p \in Packages : artifact'[p] = artifact[p] \/ artifact[p] = NoUpload
          /\ artifact' \in [Packages -> Uploads \cup {NoUpload}]
          /\ quarantine' \subseteq Uploads /\ precheck' \subseteq Uploads
      <3>1. /\ quarantine' \in {quarantine, quarantine \cup {r}, quarantine \ {r}}
            /\ precheck' \in {precheck, precheck \cup {r}}
        BY <1>2 DEF Submission!RequestStep, Submission!TooLarge, Submission!Fail, Submission!Die,
           Submission!PutQuarantine, Submission!CheckConsent, Submission!FindPackage,
           Submission!Insert, Submission!EnqueuePrecheck, Submission!Announce, Submission!Discard
      <3>2. \/ artifact' = artifact
            \/ /\ artifact[upload[r].package] = NoUpload
               /\ artifact' = [artifact EXCEPT ![upload[r].package] = r]
        BY <1>2 DEF Submission!RequestStep, Submission!TooLarge, Submission!Fail, Submission!Die,
           Submission!PutQuarantine, Submission!CheckConsent, Submission!FindPackage,
           Submission!Insert, Submission!EnqueuePrecheck, Submission!Announce, Submission!Package
      <3>3. UploadsTyped
        BY DEF UploadsInv
      <3> QED BY <3>1, <3>2, <3>3 DEF UploadsTyped
    <2>4. /\ upload' \in [Uploads -> [package : Packages, at : Submission!Steps]]
          /\ upload'[r].at = s /\ upload'[r].package = upload[r].package
          /\ \A q \in Uploads \ {r} : upload'[q] = upload[q]
          /\ \A q \in Uploads : upload[q].package \in Packages
      BY <2>2, UploadSteps DEF UploadsInv, UploadsTyped
    <2>5. UploadsTyped' /\ \A q \in Uploads : CopyFits(q)'
      BY <2>1, <2>3, <2>4 DEF UploadsInv, UploadsTyped, CopyFits
    <2>6. ASSUME NEW q \in Uploads, q # r
          PROVE  UploadFits(q)'
      <3>1. UploadFits(q) /\ q # NoUpload
        BY DEF UploadsInv
      <3>2. /\ upload'[q] = upload[q]
            /\ q \in quarantine' <=> q \in quarantine
            /\ q \in precheck' <=> q \in precheck
        BY <2>3, <2>4, <2>6
      <3>3. artifact[upload[q].package] = q => artifact'[upload[q].package] = q
        BY <2>3, <2>4, <3>1
      <3> QED BY <3>1, <3>2, <3>3 DEF UploadFits
    <2>7. UploadFits(r)'
      <3>1. UploadFits(r) /\ UploadsTyped
        BY DEF UploadsInv
      <3>2. CASE Submission!PutQuarantine(r) \/ Submission!TooLarge(r)
        <4>1. /\ upload[r].at = "new" /\ UNCHANGED <<artifact, precheck>>
              /\ \/ quarantine' = quarantine \cup {r} /\ upload'[r].at = "stored"
                 \/ quarantine' = quarantine /\ upload'[r].at = "refused"
          BY <3>1, <3>2, UploadSteps
             DEF Submission!PutQuarantine, Submission!TooLarge, Submission!Steps
        <4> QED BY <2>4, <3>1, <4>1 DEF UploadFits
      <3>3. CASE Submission!CheckConsent(r)
        <4>1. /\ upload[r].at = "stored" /\ UNCHANGED <<artifact, precheck>>
              /\ \/ quarantine' = quarantine /\ upload'[r].at = "checked"
                 \/ quarantine' = quarantine \ {r} /\ upload'[r].at = "refused"
          BY <3>1, <3>3, UploadSteps
             DEF Submission!CheckConsent, Submission!Discard, Submission!Steps
        <4> QED BY <2>4, <3>1, <4>1 DEF UploadFits
      <3>4. CASE Submission!FindPackage(r)
        <4>1. /\ upload[r].at = "checked" /\ UNCHANGED <<artifact, precheck>>
              /\ \/ quarantine' = quarantine /\ upload'[r].at = "unknown"
                 \/ quarantine' = quarantine \ {r} /\ upload'[r].at = "answered"
          BY <3>1, <3>4, UploadSteps
             DEF Submission!FindPackage, Submission!Discard, Submission!Steps
        <4> QED BY <2>4, <3>1, <4>1 DEF UploadFits
      <3>5. CASE Submission!Insert(r)
        <4>1. /\ upload[r].at = "unknown" /\ UNCHANGED precheck
              /\ \/ /\ quarantine' = quarantine /\ upload'[r].at = "inserted"
                    /\ artifact' = [artifact EXCEPT ![upload[r].package] = r]
                 \/ quarantine' = quarantine \ {r} /\ upload'[r].at = "answered"
          BY <3>1, <3>5, UploadSteps
             DEF Submission!Insert, Submission!Discard, Submission!Steps, Submission!Package
        <4> QED BY <2>4, <3>1, <4>1 DEF UploadFits, UploadsTyped
      <3>6. CASE Submission!EnqueuePrecheck(r) \/ Submission!Announce(r)
        <4>1. /\ UNCHANGED <<quarantine, artifact>>
              /\ \/ upload[r].at = "inserted" /\ upload'[r].at = "queued"
                 \/ upload[r].at = "queued" /\ upload'[r].at = "answered" /\ precheck' = precheck
          BY <3>1, <3>6, UploadSteps
             DEF Submission!EnqueuePrecheck, Submission!Announce, Submission!Steps
        <4> QED BY <2>4, <3>1, <4>1 DEF UploadFits
      <3>7. CASE Submission!Fail(r) \/ Submission!Die(r)
        <4>1. /\ UNCHANGED <<artifact, precheck>>
              /\ \/ /\ upload[r].at \in {"stored", "unknown", "inserted"}
                    /\ quarantine' = quarantine \ {r} /\ upload'[r].at = "refused"
                 \/ /\ upload[r].at \in {"stored", "checked", "unknown", "inserted", "queued"}
                    /\ quarantine' = quarantine /\ upload'[r].at = "lost"
          BY <3>1, <3>7, UploadSteps
             DEF Submission!Fail, Submission!Die, Submission!Discard, Submission!Steps
        <4> QED BY <2>4, <3>1, <4>1 DEF UploadFits
      <3> QED BY <1>2, <3>2, <3>3, <3>4, <3>5, <3>6, <3>7 DEF Submission!RequestStep
    <2> QED BY <2>5, <2>6, <2>7 DEF UploadsInv
  <1>3. ASSUME NEW r \in Uploads,
               \/ Submission!Create(r) \/ Submission!Compare(r) \/ Submission!Copy(r)
               \/ Submission!Interrupt(r)
        PROVE  UploadsInv'
    <2>1. UNCHANGED <<upload, quarantine, artifact, precheck>>
      BY <1>3 DEF Submission!Create, Submission!Compare, Submission!Copy, Submission!Interrupt
    <2>2. UploadsTyped'
      BY <1>3, <2>1 DEF UploadsInv, UploadsTyped, Submission!Create, Submission!Compare,
         Submission!Copy, Submission!Interrupt
    <2>3. \A q \in Uploads : CopyFits(q)'
      BY <1>3 DEF UploadsInv, UploadsTyped, CopyFits, Submission!Create, Submission!Compare,
         Submission!Copy, Submission!Interrupt, Submission!Matches
    <2> QED BY <2>1, <2>2, <2>3 DEF UploadsInv, UploadFits
  <1> QED BY <1>1, <1>2, <1>3 DEF Submission!Next

(* Whoever submits the same package at the same time, a queued precheck    *)
(* finds its object and no object is left without an artifact; what is     *)
(* reported as published is the whole package (service.py,                 *)
(* _create_artifact; storage.py, _copy_file_if_absent).                    *)
THEOREM PackagesStay ==
    ASSUME NoUpload \notin Uploads
    PROVE  Spec => []PackagesAreKept
  <1> DEFINE I == focus = "uploads" => UploadsInv
  <1>1. Init => I
    BY OneServiceAtInit, UploadsAtInit
  <1>2. I /\ [Next]_vars => I'
    BY OneService, UploadsStay
  <1>3. I => PackagesAreKept
    BY DEF PackagesAreKept, UploadsInv, UploadFits, CopyFits, UploadsTyped,
       Submission!PrecheckFindsItsPackage, Submission!NothingIsLeftBehind,
       Submission!PublishedIsWhole, Submission!Package
  <1> QED BY <1>1, <1>2, <1>3, PTL DEF Spec
-----------------------------------------------------------------------------
(* ReviewDiscussion: the threads and the release of a finding.             *)

AskTypes ==
    [op : ReviewDiscussion!Kinds \cup {"none", "withdraw"},
     thread : Threads \cup {ReviewDiscussion!Blank.thread}, version : Nat,
     release : Releases \cup {NoRelease}, over : BOOLEAN]

DiscussionTyped ==
    /\ thread \in [Threads -> [made : BOOLEAN, resolved : BOOLEAN, version : Nat, locked : BOOLEAN]]
    /\ finding \in [version : Nat, status : {"open", "false_positive"},
                    release : Releases \cup {NoRelease}]
    /\ release \in [Releases -> {"unpublished", "published", "revoking", "revoked"}]
    /\ stable \in Releases \cup {NoRelease}
    /\ ask \in [Asks -> AskTypes]

(* A finding that is as a withdrawal's page showed it is an open one:      *)
(* whoever dismisses it counts its version up.                             *)
AsksForOpen ==
    \A k \in Asks : ask[k].op = "withdraw" =>
        /\ ask[k].version <= finding.version
        /\ ask[k].version = finding.version => finding.status = "open"

DiscussionInv == DiscussionTyped /\ AsksForOpen

LEMMA DiscussionAtInit == ReviewDiscussion!Init => DiscussionInv
  BY DEF ReviewDiscussion!Init, DiscussionInv, DiscussionTyped, AsksForOpen, AskTypes,
     ReviewDiscussion!Blank

LEMMA BlankFits == ReviewDiscussion!Blank \in AskTypes
  BY DEF ReviewDiscussion!Blank, AskTypes

(* To answer a request, or to lose the answer, changes nothing it asked.   *)
LEMMA OverIsOver ==
    ASSUME DiscussionTyped, NEW k \in Asks, NEW b \in BOOLEAN, ask' = [ask EXCEPT ![k].over = b]
    PROVE  /\ ask' \in [Asks -> AskTypes]
           /\ \A q \in Asks : ask'[q].op = ask[q].op /\ ask'[q].version = ask[q].version
  BY DEF DiscussionTyped, AskTypes

LEMMA RecordOfThread ==
    ASSUME NEW h \in [made : BOOLEAN, resolved : BOOLEAN, version : Nat, locked : BOOLEAN],
           NEW v \in Nat, NEW b \in BOOLEAN
    PROVE  [h EXCEPT !.version = v, !.resolved = b]
               \in [made : BOOLEAN, resolved : BOOLEAN, version : Nat, locked : BOOLEAN]
  OBVIOUS

LEMMA DiscussionStays ==
    ASSUME DiscussionInv, [ReviewDiscussion!Next]_(ReviewDiscussion!vars)
    PROVE  DiscussionInv'
  <1> USE DEF DiscussionInv
  <1>1. CASE UNCHANGED ReviewDiscussion!vars
    BY <1>1 DEF ReviewDiscussion!vars, DiscussionTyped, AsksForOpen
  <1>2. ASSUME NEW t \in Threads, ReviewDiscussion!CreateThread(t)
        PROVE  DiscussionInv'
    BY <1>2 DEF ReviewDiscussion!CreateThread, ReviewDiscussion!risk, DiscussionTyped, AsksForOpen
  <1>3. ASSUME NEW k \in Asks, NEW by \in ReviewDiscussion!Kinds, NEW t \in Threads,
               ReviewDiscussion!AskEvent(k, by, t)
        PROVE  DiscussionInv'
    <2> DEFINE b == [ReviewDiscussion!Blank EXCEPT !.op = by, !.thread = t, !.version = thread[t].version]
    <2>1. b \in AskTypes /\ b.op # "withdraw"
      BY BlankFits DEF AskTypes, DiscussionTyped, ReviewDiscussion!Kinds
    <2>2. ask' = [ask EXCEPT ![k] = b] /\ UNCHANGED <<thread, finding, release, stable>>
      BY <1>3 DEF ReviewDiscussion!AskEvent, ReviewDiscussion!talk, ReviewDiscussion!risk
    <2> HIDE DEF b
    <2> QED BY <2>1, <2>2 DEF DiscussionTyped, AsksForOpen
  <1>4. ASSUME NEW k \in Asks, ReviewDiscussion!AppendEvent(k)
        PROVE  DiscussionInv'
    <2>1. UNCHANGED <<finding, release, stable>> /\ ask' = [ask EXCEPT ![k].over = TRUE]
      BY <1>4 DEF ReviewDiscussion!AppendEvent, ReviewDiscussion!risk, ReviewDiscussion!Close
    <2>2. thread' \in [Threads -> [made : BOOLEAN, resolved : BOOLEAN, version : Nat, locked : BOOLEAN]]
      <3> DEFINE n(t) == [thread[t] EXCEPT !.version = thread[t].version + 1,
                                  !.resolved = ReviewDiscussion!Resolved(ask[k].op, thread[t].resolved)]
      <3>1. \/ thread' = thread
            \/ thread' = [thread EXCEPT ![ask[k].thread] = n(ask[k].thread)]
        BY <1>4 DEF ReviewDiscussion!AppendEvent
      <3>2. ASSUME NEW t \in Threads
            PROVE  n(t) \in [made : BOOLEAN, resolved : BOOLEAN, version : Nat, locked : BOOLEAN]
        <4>1. ReviewDiscussion!Resolved(ask[k].op, thread[t].resolved) \in BOOLEAN
          BY Zenon DEF ReviewDiscussion!Resolved
        <4>2. thread[t] \in [made : BOOLEAN, resolved : BOOLEAN, version : Nat, locked : BOOLEAN]
          BY DEF DiscussionTyped
        <4>3. thread[t].version + 1 \in Nat
          BY <4>2
        <4> QED BY <4>1, <4>2, <4>3, RecordOfThread
      <3> HIDE DEF n
      <3> QED BY <3>1, <3>2 DEF DiscussionTyped
    <2> QED BY <2>1, <2>2, OverIsOver DEF DiscussionTyped, AsksForOpen
  <1>5. ASSUME NEW k \in Asks, ReviewDiscussion!Repeat(k)
        PROVE  DiscussionInv'
    <2>1. ask' = [ask EXCEPT ![k].over = FALSE] /\ UNCHANGED <<thread, finding, release, stable>>
      BY <1>5 DEF ReviewDiscussion!Repeat, ReviewDiscussion!talk, ReviewDiscussion!risk
    <2> QED BY <2>1, OverIsOver DEF DiscussionTyped, AsksForOpen
  <1>6. ASSUME NEW k \in Asks, ReviewDiscussion!AskWithdrawal(k)
        PROVE  DiscussionInv'
    <2> DEFINE b == [ReviewDiscussion!Blank EXCEPT !.op = "withdraw", !.version = finding.version,
                                                   !.release = ReviewDiscussion!StableOf]
    <2>1. b \in AskTypes /\ b.version = finding.version
      BY BlankFits DEF AskTypes, DiscussionTyped, ReviewDiscussion!StableOf
    <2>2. /\ ask' = [ask EXCEPT ![k] = b] /\ UNCHANGED <<thread, finding, release, stable>>
          /\ finding.status = "open"
      BY <1>6 DEF ReviewDiscussion!AskWithdrawal, ReviewDiscussion!talk, ReviewDiscussion!risk
    <2> HIDE DEF b
    <2> QED BY <2>1, <2>2 DEF DiscussionTyped, AsksForOpen
  <1>7. ASSUME NEW k \in Asks, ReviewDiscussion!RequestWithdrawal(k)
        PROVE  DiscussionInv'
    <2>1. /\ UNCHANGED <<thread, stable>> /\ ask' = [ask EXCEPT ![k].over = TRUE]
          /\ \/ UNCHANGED <<finding, release>>
             \/ /\ finding' = [version |-> finding.version + 1, status |-> "open",
                               release |-> ask[k].release]
                /\ release' = [release EXCEPT ![ask[k].release] = "revoking"]
      BY <1>7 DEF ReviewDiscussion!RequestWithdrawal, ReviewDiscussion!talk, ReviewDiscussion!Close
    <2>2. /\ ask[k].release \in Releases \cup {NoRelease} /\ finding.version \in Nat
          /\ \A q \in Asks : ask[q].version \in Nat
      BY DEF DiscussionTyped, AskTypes
    <2>3. /\ finding' \in [version : Nat, status : {"open", "false_positive"},
                           release : Releases \cup {NoRelease}]
          /\ finding'.version = finding.version \/ finding'.version = finding.version + 1
          /\ finding'.status = "open" \/ finding' = finding
      BY <2>1, <2>2 DEF DiscussionTyped
    <2>4. AsksForOpen'
      BY <2>1, <2>2, <2>3, OverIsOver DEF AsksForOpen
    <2> QED BY <2>1, <2>3, <2>4, OverIsOver DEF DiscussionTyped
  <1>8. CASE ReviewDiscussion!Decide \/ ReviewDiscussion!Reopen
    <2>1. /\ UNCHANGED <<finding, release, stable, ask>>
          /\ \/ thread' = thread
             \/ thread' = [t \in Threads |-> IF thread[t].made THEN [thread[t] EXCEPT !.locked = TRUE]
                                             ELSE thread[t]]
      BY <1>8 DEF ReviewDiscussion!Decide, ReviewDiscussion!Reopen, ReviewDiscussion!risk,
         ReviewDiscussion!LockThreads
    <2>2. thread' \in [Threads -> [made : BOOLEAN, resolved : BOOLEAN, version : Nat, locked : BOOLEAN]]
      <3>1. ASSUME NEW t \in Threads
            PROVE  [thread[t] EXCEPT !.locked = TRUE]
                       \in [made : BOOLEAN, resolved : BOOLEAN, version : Nat, locked : BOOLEAN]
        <4>1. thread[t] \in [made : BOOLEAN, resolved : BOOLEAN, version : Nat, locked : BOOLEAN]
          BY DEF DiscussionTyped
        <4> QED BY <4>1
      <3> QED BY <2>1, <3>1 DEF DiscussionTyped
    <2> QED BY <2>1, <2>2 DEF DiscussionTyped, AsksForOpen
  <1>9. CASE ReviewDiscussion!Triage
    <2>1. PICK status \in {"open", "false_positive"} :
              finding' = [finding EXCEPT !.version = finding.version + 1, !.status = status]
      BY <1>9 DEF ReviewDiscussion!Triage
    <2>2. UNCHANGED <<thread, release, stable, ask>>
      BY <1>9 DEF ReviewDiscussion!Triage, ReviewDiscussion!talk
    <2>3. /\ finding' \in [version : Nat, status : {"open", "false_positive"},
                           release : Releases \cup {NoRelease}]
          /\ finding'.version = finding.version + 1 /\ finding.version \in Nat
      <3>1. /\ finding \in [version : Nat, status : {"open", "false_positive"},
                             release : Releases \cup {NoRelease}]
            /\ finding.version + 1 \in Nat
        BY DEF DiscussionTyped
      <3> QED BY <2>1, <3>1
    <2>4. \A q \in Asks : ask[q].version \in Nat
      BY DEF DiscussionTyped, AskTypes
    <2> QED BY <2>2, <2>3, <2>4 DEF DiscussionTyped, AsksForOpen
  <1>10. ASSUME NEW r \in Releases, ReviewDiscussion!PublishRelease(r) \/ ReviewDiscussion!Withdrawn(r)
         PROVE  DiscussionInv'
    BY <1>10 DEF ReviewDiscussion!PublishRelease, ReviewDiscussion!Withdrawn, ReviewDiscussion!talk,
       DiscussionTyped, AsksForOpen
  <1> QED BY <1>1, <1>2, <1>3, <1>4, <1>5, <1>6, <1>7, <1>8, <1>9, <1>10 DEF ReviewDiscussion!Next

(* Only a request that saw the finding as it is, open, of the release that *)
(* is current, has a release withdrawn.                                    *)
LEMMA DiscussionWithdraws ==
    ASSUME DiscussionInv, [ReviewDiscussion!Next]_(ReviewDiscussion!vars)
    PROVE  ReviewDiscussion!WithdrawsWarranted
  <1> USE DEF DiscussionInv
  <1>1. SUFFICES ASSUME NEW r \in Releases, release[r] # "revoking", release'[r] = "revoking"
                 PROVE  stable = r /\ finding.status = "open" /\ finding'.release = r
    BY DEF ReviewDiscussion!WithdrawsWarranted
  <1>2. PICK k \in Asks : ReviewDiscussion!RequestWithdrawal(k)
    BY <1>1 DEF ReviewDiscussion!Next, ReviewDiscussion!vars, DiscussionTyped, ReviewDiscussion!CreateThread,
       ReviewDiscussion!AskEvent, ReviewDiscussion!AppendEvent, ReviewDiscussion!Repeat,
       ReviewDiscussion!AskWithdrawal, ReviewDiscussion!Decide, ReviewDiscussion!Reopen,
       ReviewDiscussion!Triage, ReviewDiscussion!PublishRelease, ReviewDiscussion!Withdrawn,
       ReviewDiscussion!risk
  <1>3. /\ ask[k].op = "withdraw" /\ ReviewDiscussion!IsCurrent(ask[k].release)
        /\ ReviewDiscussion!SeesFinding(k)
        /\ finding' = [version |-> finding.version + 1, status |-> "open", release |-> ask[k].release]
        /\ release' = [release EXCEPT ![ask[k].release] = "revoking"]
    BY <1>1, <1>2 DEF ReviewDiscussion!RequestWithdrawal
  <1> QED BY <1>1, <1>3 DEF ReviewDiscussion!IsCurrent, ReviewDiscussion!SeesFinding, AsksForOpen,
             DiscussionTyped

(* A release is withdrawn in a hurry only while it is the current one and  *)
(* its finding was not dismissed, whoever triages and publishes between    *)
(* the page and the request (repository.py, request_revoke_artifact).      *)
THEOREM WithdrawalsAreWarranted == Spec => WithdrawalIsWarranted
  <1> DEFINE I == focus = "discussion" => DiscussionInv
  <1>1. Init => I
    BY OneServiceAtInit, DiscussionAtInit
  <1>2. I /\ [Next]_vars => I'
    BY OneService, DiscussionStays
  <1>3. I /\ [Next]_vars => [focus = "discussion" => ReviewDiscussion!WithdrawsWarranted]_vars
    BY OneService, DiscussionWithdraws
  <1> QED BY <1>1, <1>2, <1>3, PTL DEF Spec, WithdrawalIsWarranted
-----------------------------------------------------------------------------
(* Category: what a person has chosen.                                     *)

(* A row, or a copy of it, in which a person's category stands tells so:   *)
(* it is not the model's, and it is not the "other" nobody asked for.      *)
Tells(held) ==
    held.source # "ai" /\ (held.category = "other" => held.explicit \/ held.source = "reviewer")

CategoryInv ==
    /\ shelf \in Category!Shelves
    /\ clerk \in [Writers -> [at : {"free", "read"}, patch : Category!PossiblePatches \cup {Category!NoPatch},
                              row : Category!Shelves, chosen : BOOLEAN]]
    /\ \A w \in Writers : clerk[w].at = "read" => clerk[w].patch \in Category!PossiblePatches
    /\ chosen \in BOOLEAN
    /\ chosen => Tells(shelf)
    /\ \A w \in Writers : clerk[w].at = "read" /\ clerk[w].chosen => Tells(clerk[w].row)

CategoriesApart ==
    /\ "other" \notin Official
    /\ None \notin {"user", "reviewer", TRUE, FALSE} \cup Official

LEMMA CategoryAtInit ==
    ASSUME CategoriesApart
    PROVE  Category!Init => CategoryInv
  BY DEF Category!Init, CategoryInv, CategoriesApart, Category!Shelves, Category!Categories,
     Category!Free, Tells

(* What a patch leaves of the row it was read with.                        *)
LEMMA PatchedFits ==
    ASSUME CategoriesApart, NEW held \in Category!Shelves, NEW patch \in Category!PossiblePatches,
           NEW knew \in BOOLEAN, knew => Tells(held)
    PROVE  /\ Category!Patched(held, patch) \in Category!Shelves
           /\ \/ patch.source # None
              \/ patch.explicit = TRUE /\ held.source # "ai"
              \/ knew
              => Tells(Category!Patched(held, patch))
  <1> DEFINE n == Category!Patched(held, patch)
  <1>1. /\ n = [category |-> n.category, source |-> n.source, explicit |-> n.explicit]
        /\ n.category = IF patch.category # None THEN patch.category ELSE held.category
        /\ n.source = IF patch.source # None THEN patch.source ELSE held.source
        /\ n.explicit = IF patch.explicit # None THEN patch.explicit ELSE held.explicit
    BY DEF Category!Patched
  <1>2. /\ held.category \in Official \cup {"other"} /\ held.source \in {"user", "ai", "reviewer"}
        /\ held.explicit \in BOOLEAN
    BY DEF Category!Shelves, Category!Categories
  <1> HIDE DEF n
  <1>3. CASE \E k \in Official, by \in {"user", "reviewer"} : patch = Category!EditOf(k, by)
    <2>1. PICK k \in Official, by \in {"user", "reviewer"} : patch = Category!EditOf(k, by)
      BY <1>3
    <2>2. patch.category = k /\ patch.source = by /\ patch.explicit = TRUE
      BY <2>1 DEF Category!EditOf
    <2>3. n.category = k /\ n.source = by
      BY <1>1, <2>2 DEF CategoriesApart
    <2>4. n.explicit = TRUE
      BY <1>1, <2>2, Zenon DEF CategoriesApart
    <2>5. n \in Category!Shelves
      BY <1>1, <2>3, <2>4 DEF Category!Shelves, Category!Categories
    <2> QED BY <2>3, <2>4, <2>5 DEF Tells, n, CategoriesApart
  <1>4. CASE \E k \in Official, stated \in BOOLEAN : patch = Category!CdnOf(k, stated)
    <2>1. PICK k \in Official, stated \in BOOLEAN : patch = Category!CdnOf(k, stated)
      BY <1>4
    <2>2. patch.category = k /\ patch.source = None /\ patch.explicit = stated
      BY <2>1 DEF Category!CdnOf
    <2>3. n.category = k /\ n.source = held.source
      BY <1>1, <2>2 DEF CategoriesApart
    <2>4. n.explicit \in BOOLEAN
      BY <1>1, <1>2, <2>2, Zenon
    <2>5. n \in Category!Shelves
      BY <1>1, <1>2, <2>3, <2>4 DEF Category!Shelves, Category!Categories
    <2> QED BY <2>2, <2>3, <2>4, <2>5 DEF Tells, n, CategoriesApart
  <1>5. CASE \E k \in Official \cup {None} : patch = Category!FileOf(k)
    <2>1. /\ n.category \in Official \/ n.category = held.category
          /\ n.source = held.source /\ n.explicit = held.explicit
          /\ patch.source = None /\ patch.explicit = None
      BY <1>1, <1>5 DEF Category!FileOf, CategoriesApart
    <2> QED BY <1>1, <1>2, <2>1 DEF Tells, n, Category!Shelves, Category!Categories, CategoriesApart
  <1>6. \/ \E k \in Official, by \in {"user", "reviewer"} : patch = Category!EditOf(k, by)
        \/ \E k \in Official, stated \in BOOLEAN : patch = Category!CdnOf(k, stated)
        \/ \E k \in Official \cup {None} : patch = Category!FileOf(k)
    BY DEF Category!PossiblePatches
  <1> QED BY <1>3, <1>4, <1>5, <1>6

LEMMA CategoryStays ==
    ASSUME CategoriesApart, CategoryInv, [Category!Next]_(Category!vars)
    PROVE  CategoryInv' /\ Category!KeepsChoices
  <1>1. CASE UNCHANGED Category!vars
    BY <1>1 DEF Category!vars, CategoryInv, Tells, Category!KeepsChoices
  <1>2. ASSUME NEW stated \in BOOLEAN, Category!Resubmit(stated)
        PROVE  CategoryInv' /\ Category!KeepsChoices
    <2>1. /\ shelf' \in Category!Shelves /\ shelf'.explicit = stated
          /\ shelf'.category = shelf.category /\ shelf'.source = shelf.source
      BY <1>2 DEF Category!Resubmit, CategoryInv, Category!Shelves
    <2>2. /\ UNCHANGED <<sorting, clerk>>
          /\ chosen' = IF stated THEN chosen \/ shelf.source # "ai"
                       ELSE chosen /\ shelf.category # "other"
      BY <1>2 DEF Category!Resubmit
    <2>3. chosen' \in BOOLEAN
      BY <2>2, Zenon DEF CategoryInv
    <2>4. chosen' => Tells(shelf')
      BY <2>1, <2>2 DEF CategoryInv, Tells
    <2> QED BY <2>1, <2>2, <2>3, <2>4 DEF CategoryInv, Category!KeepsChoices, Tells
  <1>3. ASSUME NEW w \in Writers, NEW patch \in Category!PossiblePatches, Category!ReadShelf(w, patch)
        PROVE  CategoryInv' /\ Category!KeepsChoices
    <2> DEFINE c == [at |-> "read", patch |-> patch, row |-> shelf, chosen |-> chosen]
    <2>1. clerk' = [clerk EXCEPT ![w] = c] /\ UNCHANGED <<shelf, sorting, chosen>>
      BY <1>3 DEF Category!ReadShelf
    <2>2. /\ c \in [at : {"free", "read"}, patch : Category!PossiblePatches \cup {Category!NoPatch},
                    row : Category!Shelves, chosen : BOOLEAN]
          /\ c.patch = patch /\ c.chosen = chosen /\ c.row = shelf
      BY DEF CategoryInv
    <2> HIDE DEF c
    <2> QED BY <2>1, <2>2 DEF CategoryInv, Category!KeepsChoices, Tells
  <1>4. ASSUME NEW w \in Writers, Category!WriteShelf(w)
        PROVE  CategoryInv' /\ Category!KeepsChoices
    <2> DEFINE c == Category!Free(clerk[w].row)
    <2>1. /\ clerk[w].at = "read" /\ clerk' = [clerk EXCEPT ![w] = c] /\ UNCHANGED sorting
          /\ shelf' = Category!Patched(clerk[w].row, clerk[w].patch)
          /\ chosen' = \/ clerk[w].patch.source # None
                       \/ clerk[w].patch.explicit = TRUE /\ clerk[w].row.source # "ai"
                       \/ clerk[w].chosen
      BY <1>4 DEF Category!WriteShelf
    <2>2. /\ c \in [at : {"free", "read"}, patch : Category!PossiblePatches \cup {Category!NoPatch},
                    row : Category!Shelves, chosen : BOOLEAN]
          /\ c.at = "free"
      BY DEF CategoryInv, Category!Free
    <2> HIDE DEF c
    <2>3. /\ clerk[w].row \in Category!Shelves /\ clerk[w].patch \in Category!PossiblePatches
          /\ clerk[w].chosen \in BOOLEAN /\ clerk[w].chosen => Tells(clerk[w].row)
      BY <2>1 DEF CategoryInv
    <2>4. shelf' \in Category!Shelves /\ (chosen' => Tells(shelf'))
      BY <2>1, <2>3, PatchedFits
    <2>5. chosen' \in BOOLEAN
      BY <2>1, <2>3, Zenon
    <2> QED BY <2>1, <2>2, <2>4, <2>5 DEF CategoryInv, Category!KeepsChoices, Tells
  <1>5. ASSUME NEW v \in Reviewed, NEW t \in Tries, NEW answer \in Category!Answers,
               Category!ApplySuggestion(v, t, answer)
        PROVE  CategoryInv' /\ Category!KeepsChoices
    <2>1. UNCHANGED <<clerk, chosen>>
      BY <1>5 DEF Category!ApplySuggestion
    <2>2. CASE shelf' = shelf
      BY <2>1, <2>2 DEF CategoryInv, Category!KeepsChoices, Tells
    <2>3. CASE /\ Category!ShouldApply(shelf, answer.kind, answer.confident)
               /\ shelf' = [shelf EXCEPT !.category = answer.kind, !.source = "ai"]
      <3>1. ~chosen
        BY <2>3 DEF CategoryInv, Tells, Category!ShouldApply
      <3>2. shelf' \in Category!Shelves
        BY <2>3 DEF CategoryInv, Category!Shelves, Category!Answers
      <3> QED BY <2>1, <3>1, <3>2 DEF CategoryInv, Category!KeepsChoices, Tells
    <2> QED BY <1>5, <2>2, <2>3 DEF Category!ApplySuggestion
  <1>6. ASSUME UNCHANGED <<shelf, clerk, chosen>>
        PROVE  CategoryInv' /\ Category!KeepsChoices
    BY <1>6 DEF CategoryInv, Category!KeepsChoices, Tells
  <1>7. ASSUME NEW v \in Reviewed, Category!StageStep(v)
        PROVE  CategoryInv' /\ Category!KeepsChoices
    <2>1. \/ UNCHANGED <<shelf, clerk, chosen>>
          \/ \E t \in Tries, answer \in Category!Answers : Category!ApplySuggestion(v, t, answer)
      BY <1>7 DEF Category!StageStep, Category!StartScanning, Category!LeaveScanning, Category!Execute,
         Category!FailCall, Category!TooLate, Category!Succeed, Category!RefuseAnswer, Category!Attempt
    <2> QED BY <1>5, <1>6, <2>1
  <1> QED BY <1>1, <1>2, <1>3, <1>4, <1>7 DEF Category!Next

(* The category stage never changes what a person has chosen while that    *)
(* stands in the row, however late its answer and however old the copies   *)
(* that are written back (repository.py, apply_category_suggestion).       *)
THEOREM ChoicesAreKept ==
    ASSUME CategoriesApart
    PROVE  Spec => ModelKeepsChoices
  <1> DEFINE I == focus = "category" => CategoryInv
  <1>1. Init => I
    BY OneServiceAtInit, CategoryAtInit
  <1>2. I /\ [Next]_vars => I'
    BY OneService, CategoryStays
  <1>3. I /\ [Next]_vars => [focus = "category" => Category!KeepsChoices]_vars
    BY OneService, CategoryStays
  <1> QED BY <1>1, <1>2, <1>3, PTL DEF Spec, ModelKeepsChoices
-----------------------------------------------------------------------------
(* CdnSubscription: what a consent has asked for.                          *)

CdnOwners == Owners \cup {CdnSubscription!Consent.owner}

CdnPlugins == [on : BOOLEAN, gen : Nat, version : Versions, owner : CdnOwners]

CdnTyped ==
    /\ plugin \in CdnPlugins /\ github \in Versions
    /\ row \in [state : CdnSubscription!States, gen : Nat, requested : Versions, scope : CdnOwners,
                lease : Reviewers \cup {Nobody}, lapsed : BOOLEAN]
    /\ syncer \in [Syncers -> [at : {"idle", "fetched", "read", "written"}, plugin : CdnPlugins,
                               version : Versions]]
    /\ reviewer \in [Reviewers -> [at : {"idle", "claimed", "verified", "submitted"},
                                   version : Versions, gen : Nat, scope : CdnOwners]]
    /\ packages \subseteq Versions

(* Every version that anyone has read is one that GitHub has had.          *)
NoneIsAhead ==
    /\ plugin.version <= github /\ row.requested <= github
    /\ \A s \in Syncers : syncer[s].version <= github /\ syncer[s].plugin.version <= github
    /\ \A r \in Reviewers : reviewer[r].version <= github

WasReviewed(wanted) == \E v \in packages : v >= wanted

(* Who holds the lease of a running request has claimed what it asks for.  *)
CdnInv ==
    /\ CdnTyped /\ NoneIsAhead
    /\ \A r \in Reviewers :
          /\ reviewer[r].at # "idle" /\ row.lease = r /\ row.state = "running"
                => row.requested = reviewer[r].version
          /\ reviewer[r].at = "submitted" => WasReviewed(reviewer[r].version)
    /\ row.state = "submitted" => WasReviewed(row.requested)

VersionsInOrder == Versions \subseteq Nat /\ \E first \in Versions : \A v \in Versions : first <= v

LEMMA CdnAtInit ==
    ASSUME VersionsInOrder
    PROVE  CdnSubscription!Init => CdnInv
  <1> DEFINE c == CdnSubscription!Consent
  <1>1. c.version \in Versions /\ c.on = FALSE /\ c.gen = 0 /\ c \in CdnPlugins
    BY DEF CdnSubscription!Consent, VersionsInOrder, CdnPlugins, CdnOwners
  <1>2. /\ CdnSubscription!NotSyncing = [at |-> "idle", version |-> c.version, plugin |-> c]
        /\ CdnSubscription!NotReviewing = [at |-> "idle", version |-> c.version, gen |-> 0,
                                           scope |-> c.owner]
    BY DEF CdnSubscription!NotSyncing, CdnSubscription!NotReviewing
  <1>3. c.owner \in CdnOwners
    BY DEF CdnOwners
  <1> HIDE DEF c
  <1> QED BY <1>1, <1>2, <1>3 DEF CdnSubscription!Init, c, CdnInv, CdnTyped, NoneIsAhead, VersionsInOrder,
             CdnSubscription!States, CdnPlugins

(* A request that is written anew asks for a version GitHub has had, and   *)
(* nobody has claimed it.                                                  *)
LEMMA RequestStays ==
    ASSUME Nobody \notin Reviewers, CdnInv, NEW state \in {"queued", "idle", "disabled"},
           NEW g \in Nat, NEW v \in Versions, NEW o \in CdnOwners, v <= github,
           row' = CdnSubscription!Requested(state, g, v, o),
           plugin' \in CdnPlugins, plugin'.version <= github,
           syncer' \in [Syncers -> [at : {"idle", "fetched", "read", "written"}, plugin : CdnPlugins,
                                    version : Versions]],
           \A s \in Syncers : syncer'[s].version <= github /\ syncer'[s].plugin.version <= github,
           UNCHANGED <<github, reviewer, packages>>
    PROVE  CdnInv'
  <1>1. /\ row' \in [state : CdnSubscription!States, gen : Nat, requested : Versions, scope : CdnOwners,
                     lease : Reviewers \cup {Nobody}, lapsed : BOOLEAN]
        /\ row'.requested = v /\ row'.lease = Nobody /\ row'.state # "submitted"
    BY DEF CdnSubscription!Requested, CdnSubscription!States
  <1>2. CdnTyped' /\ NoneIsAhead'
    BY <1>1 DEF CdnInv, CdnTyped, NoneIsAhead
  <1> QED BY <1>1, <1>2 DEF CdnInv, WasReviewed

(* A reviewer's step that leaves the plugin alone.                         *)
CdnReviewer == [at : {"idle", "claimed", "verified", "submitted"}, version : Versions, gen : Nat,
                scope : CdnOwners]

LEMMA FinishStays ==
    ASSUME Nobody \notin Reviewers, VersionsInOrder, CdnInv, NEW r \in Reviewers,
           NEW state \in {"blocked", "error", "submitted"}, CdnSubscription!Finish(r, state),
           state = "submitted" => reviewer[r].at = "submitted", reviewer[r].at # "idle",
           UNCHANGED <<plugin, github, syncer, packages>>
    PROVE  CdnInv'
  <1> DEFINE c == CdnSubscription!NotReviewing
  <1>1. /\ row' \in [state : CdnSubscription!States, gen : Nat, requested : Versions, scope : CdnOwners,
                     lease : Reviewers \cup {Nobody}, lapsed : BOOLEAN]
        /\ row'.requested = row.requested
        /\ \/ row' = row
           \/ row'.lease = Nobody /\ row'.state = state /\ row.lease = r /\ row.state = "running"
    BY DEF CdnSubscription!Finish, CdnInv, CdnTyped, CdnSubscription!States
  <1>2. reviewer' = [reviewer EXCEPT ![r] = c]
    BY DEF CdnSubscription!Finish
  <1>3. c.at = "idle" /\ c \in CdnReviewer /\ c.version <= github
    BY DEF CdnInv, CdnTyped, CdnReviewer, CdnSubscription!NotReviewing, CdnSubscription!Consent,
       VersionsInOrder, CdnOwners
  <1> HIDE DEF c
  <1>4. CdnTyped' /\ NoneIsAhead'
    BY <1>1, <1>2, <1>3 DEF CdnInv, CdnTyped, NoneIsAhead, CdnReviewer
  <1>5. row'.state = "submitted" => WasReviewed(row.requested)
    BY <1>1 DEF CdnInv
  <1> QED BY <1>1, <1>2, <1>3, <1>4, <1>5 DEF CdnInv, CdnTyped, WasReviewed

LEMMA CdnStays ==
    ASSUME Nobody \notin Reviewers, VersionsInOrder, CdnInv,
           [CdnSubscription!Next]_(CdnSubscription!vars)
    PROVE  CdnInv'
  <1>1. CASE UNCHANGED CdnSubscription!vars
    BY <1>1 DEF CdnSubscription!vars, CdnInv, CdnTyped, NoneIsAhead, WasReviewed
  <1>2. CASE CdnSubscription!Release
    <2>1. /\ github' = github + 1 /\ github' \in Versions
          /\ UNCHANGED <<plugin, row, syncer, reviewer, packages>>
      BY <1>2 DEF CdnSubscription!Release
    <2>2. \A v \in Versions : v <= github => v <= github'
      BY <2>1 DEF CdnInv, CdnTyped, VersionsInOrder
    <2>3. /\ plugin.version \in Versions /\ row.requested \in Versions
          /\ \A s \in Syncers : syncer[s].version \in Versions /\ syncer[s].plugin.version \in Versions
          /\ \A r \in Reviewers : reviewer[r].version \in Versions
      BY DEF CdnInv, CdnTyped, CdnPlugins
    <2>4. CdnTyped' /\ NoneIsAhead'
      BY <2>1, <2>2, <2>3 DEF CdnInv, CdnTyped, NoneIsAhead
    <2> QED BY <2>1, <2>4 DEF CdnInv, WasReviewed
  <1>3. CASE CdnSubscription!LeaseLapses
    BY <1>3 DEF CdnSubscription!LeaseLapses, CdnInv, CdnTyped, NoneIsAhead, WasReviewed
  <1>4. ASSUME NEW o \in Owners, CdnSubscription!ChangeOwner(o)
        PROVE  CdnInv'
    BY <1>4 DEF CdnSubscription!ChangeOwner, CdnInv, CdnTyped, NoneIsAhead, WasReviewed, CdnPlugins,
       CdnOwners
  <1>5. ASSUME NEW on \in BOOLEAN, NEW v \in {plugin.version, github}, CdnSubscription!Configure(on, v)
        PROVE  CdnInv'
    <2>1. CdnSubscription!NextGen(on) \in Nat
      BY DEF CdnSubscription!NextGen, CdnInv, CdnTyped, CdnPlugins
    <2>2. v \in Versions /\ v <= github /\ github \in Nat
      BY DEF CdnInv, CdnTyped, NoneIsAhead, CdnPlugins, VersionsInOrder
    <2> DEFINE g == CdnSubscription!NextGen(on)
    <2>3. /\ plugin' = [plugin EXCEPT !.on = on, !.gen = g, !.version = v]
          /\ UNCHANGED <<github, syncer, reviewer, packages>>
          /\ \/ row' = row
             \/ \E state \in {"queued", "idle", "disabled"}, o \in {plugin.owner, row.scope} :
                   row' = CdnSubscription!Requested(state, g, v, o)
      BY <1>5 DEF CdnSubscription!Configure
    <2> HIDE DEF g
    <2>4. plugin' \in CdnPlugins /\ plugin'.version <= github
      BY <2>1, <2>2, <2>3 DEF CdnInv, CdnTyped, CdnPlugins, g
    <2>5. CASE row' = row
      BY <2>3, <2>4, <2>5 DEF CdnInv, CdnTyped, NoneIsAhead, WasReviewed
    <2>6. ASSUME NEW state \in {"queued", "idle", "disabled"}, NEW o \in {plugin.owner, row.scope},
                 row' = CdnSubscription!Requested(state, g, v, o)
          PROVE  CdnInv'
      <3>1. o \in CdnOwners /\ g \in Nat
        BY <2>1 DEF CdnInv, CdnTyped, CdnPlugins, g
      <3>2. /\ syncer' \in [Syncers -> [at : {"idle", "fetched", "read", "written"},
                                        plugin : CdnPlugins, version : Versions]]
            /\ \A s \in Syncers : syncer'[s].version <= github /\ syncer'[s].plugin.version <= github
        BY <2>3 DEF CdnInv, CdnTyped, NoneIsAhead
      <3> QED BY <2>2, <2>3, <2>4, <2>6, <3>1, <3>2, RequestStays
    <2> QED BY <2>3, <2>5, <2>6
  <1>6. ASSUME NEW s \in Syncers,
               \/ CdnSubscription!Fetch(s) \/ CdnSubscription!ReadPlugin(s)
               \/ CdnSubscription!WritePlugin(s) \/ CdnSubscription!SyncDies(s)
        PROVE  CdnInv'
    <2>1. UNCHANGED <<row, github, reviewer, packages>>
      BY <1>6 DEF CdnSubscription!Fetch, CdnSubscription!ReadPlugin, CdnSubscription!WritePlugin,
         CdnSubscription!SyncDies
    <2>2. PICK c : /\ syncer' = [syncer EXCEPT ![s] = c]
                   /\ c \in [at : {"idle", "fetched", "read", "written"}, plugin : CdnPlugins,
                             version : Versions]
                   /\ c.version <= github /\ c.plugin.version <= github
                   /\ plugin' \in CdnPlugins /\ plugin'.version <= github
      <3>1. /\ syncer[s] \in [at : {"idle", "fetched", "read", "written"}, plugin : CdnPlugins,
                              version : Versions]
            /\ syncer[s].version <= github /\ syncer[s].plugin.version <= github
            /\ syncer[s].version \in Versions
            /\ plugin \in CdnPlugins /\ plugin.version <= github /\ github \in Versions /\ github <= github
        BY DEF CdnInv, CdnTyped, NoneIsAhead, VersionsInOrder
      <3>2. CASE CdnSubscription!Fetch(s)
        <4> DEFINE c == [syncer[s] EXCEPT !.at = "fetched", !.version = github]
        <4>1. syncer' = [syncer EXCEPT ![s] = c] /\ plugin' = plugin
          BY <3>2 DEF CdnSubscription!Fetch
        <4>2. /\ c \in [at : {"idle", "fetched", "read", "written"}, plugin : CdnPlugins,
                        version : Versions]
              /\ c.version <= github /\ c.plugin.version <= github
          BY <3>1
        <4> HIDE DEF c
        <4> QED BY <3>1, <4>1, <4>2
      <3>3. CASE CdnSubscription!ReadPlugin(s)
        <4> DEFINE c == [syncer[s] EXCEPT !.at = "read", !.plugin = plugin]
        <4>1. syncer' = [syncer EXCEPT ![s] = c] /\ plugin' = plugin
          BY <3>3 DEF CdnSubscription!ReadPlugin
        <4>2. /\ c \in [at : {"idle", "fetched", "read", "written"}, plugin : CdnPlugins,
                        version : Versions]
              /\ c.version <= github /\ c.plugin.version <= github
          BY <3>1
        <4> HIDE DEF c
        <4> QED BY <3>1, <4>1, <4>2
      <3>4. CASE CdnSubscription!WritePlugin(s)
        <4> DEFINE p == [syncer[s].plugin EXCEPT !.version = syncer[s].version]
                   c == [syncer[s] EXCEPT !.at = "written", !.plugin = p]
        <4>1. syncer' = [syncer EXCEPT ![s] = c] /\ plugin' = p
          BY <3>4 DEF CdnSubscription!WritePlugin
        <4>2. p \in CdnPlugins /\ p.version <= github
          BY <3>1 DEF CdnPlugins
        <4> HIDE DEF p
        <4>3. /\ c \in [at : {"idle", "fetched", "read", "written"}, plugin : CdnPlugins,
                        version : Versions]
              /\ c.version <= github /\ c.plugin.version <= github
          BY <3>1, <4>2
        <4> HIDE DEF c
        <4> QED BY <4>1, <4>2, <4>3
      <3>5. CASE CdnSubscription!SyncDies(s)
        <4> DEFINE c == CdnSubscription!NotSyncing
        <4>1. syncer' = [syncer EXCEPT ![s] = c] /\ plugin' = plugin
          BY <3>5 DEF CdnSubscription!SyncDies
        <4>2. /\ c \in [at : {"idle", "fetched", "read", "written"}, plugin : CdnPlugins,
                        version : Versions]
              /\ c.version <= github /\ c.plugin.version <= github
          BY <3>1 DEF CdnSubscription!NotSyncing, CdnSubscription!Consent, VersionsInOrder, CdnPlugins,
             CdnOwners
        <4> HIDE DEF c
        <4> QED BY <3>1, <4>1, <4>2
      <3> QED BY <1>6, <3>2, <3>3, <3>4, <3>5
    <2>3. CdnTyped' /\ NoneIsAhead'
      BY <2>1, <2>2 DEF CdnInv, CdnTyped, NoneIsAhead
    <2> QED BY <2>1, <2>3 DEF CdnInv, WasReviewed
  <1>7. ASSUME NEW s \in Syncers, CdnSubscription!QueueVersion(s)
        PROVE  CdnInv'
    <2>1. /\ UNCHANGED <<plugin, github, reviewer, packages>>
          /\ syncer' = [syncer EXCEPT ![s] = CdnSubscription!NotSyncing]
          /\ \/ row' = row
             \/ row' = CdnSubscription!Requested("queued", row.gen, syncer[s].plugin.version, row.scope)
      BY <1>7 DEF CdnSubscription!QueueVersion
    <2> DEFINE c == CdnSubscription!NotSyncing
    <2>2. /\ c \in [at : {"idle", "fetched", "read", "written"}, plugin : CdnPlugins, version : Versions]
          /\ c.version <= github /\ c.plugin.version <= github
      BY DEF CdnSubscription!NotSyncing, CdnSubscription!Consent, VersionsInOrder, CdnPlugins,
         CdnOwners, CdnInv, CdnTyped
    <2> HIDE DEF c
    <2>3. /\ syncer' \in [Syncers -> [at : {"idle", "fetched", "read", "written"}, plugin : CdnPlugins,
                                      version : Versions]]
          /\ \A q \in Syncers : syncer'[q].version <= github /\ syncer'[q].plugin.version <= github
          /\ plugin' \in CdnPlugins /\ plugin'.version <= github
      BY <2>1, <2>2 DEF CdnInv, CdnTyped, NoneIsAhead, c
    <2>4. CASE row' = row
      BY <2>1, <2>3, <2>4 DEF CdnInv, CdnTyped, NoneIsAhead, WasReviewed
    <2>5. CASE row' = CdnSubscription!Requested("queued", row.gen, syncer[s].plugin.version, row.scope)
      <3>1. /\ syncer[s].plugin.version \in Versions /\ syncer[s].plugin.version <= github
            /\ row.gen \in Nat /\ row.scope \in CdnOwners
        BY DEF CdnInv, CdnTyped, NoneIsAhead, CdnPlugins
      <3> QED BY <2>1, <2>3, <2>5, <3>1, RequestStays
    <2> QED BY <2>1, <2>4, <2>5
  <1>8. ASSUME NEW r \in Reviewers, CdnSubscription!Claim(r)
        PROVE  CdnInv'
    <2> DEFINE c == [at |-> "claimed", version |-> row.requested, gen |-> row.gen, scope |-> row.scope]
    <2>1. /\ row' = [row EXCEPT !.state = "running", !.lease = r, !.lapsed = FALSE]
          /\ reviewer' = [reviewer EXCEPT ![r] = c]
          /\ UNCHANGED <<plugin, github, syncer, packages>>
      BY <1>8 DEF CdnSubscription!Claim
    <2>2. /\ c \in CdnReviewer /\ c.at = "claimed" /\ c.version = row.requested
      BY DEF CdnInv, CdnTyped, CdnReviewer
    <2> HIDE DEF c
    <2>3. /\ row' \in [state : CdnSubscription!States, gen : Nat, requested : Versions,
                       scope : CdnOwners, lease : Reviewers \cup {Nobody}, lapsed : BOOLEAN]
          /\ row'.requested = row.requested /\ row'.lease = r /\ row'.state = "running"
      BY <2>1 DEF CdnInv, CdnTyped, CdnSubscription!States
    <2>4. CdnTyped' /\ NoneIsAhead'
      BY <2>1, <2>2, <2>3 DEF CdnInv, CdnTyped, NoneIsAhead, CdnReviewer
    <2> QED BY <2>1, <2>2, <2>3, <2>4 DEF CdnInv, CdnTyped, WasReviewed
  <1>9. ASSUME NEW r \in Reviewers, CdnSubscription!Verify(r) \/ CdnSubscription!Submit(r)
        PROVE  CdnInv'
    <2>1. UNCHANGED <<plugin, github, syncer>> /\ reviewer[r].at \in {"claimed", "verified"}
      BY <1>9 DEF CdnSubscription!Verify, CdnSubscription!Submit
    <2>2. CASE UNCHANGED packages /\ CdnSubscription!Finish(r, "blocked")
      BY <2>1, <2>2, FinishStays
    <2>3. CASE UNCHANGED <<row, packages>> /\ reviewer' = [reviewer EXCEPT ![r].at = "verified"]
      <3>1. CdnTyped' /\ NoneIsAhead'
        BY <2>1, <2>3 DEF CdnInv, CdnTyped, NoneIsAhead
      <3> QED BY <2>1, <2>3, <3>1 DEF CdnInv, CdnTyped, WasReviewed
    <2>4. CASE /\ UNCHANGED row /\ packages' = packages \cup {github}
               /\ reviewer' = [reviewer EXCEPT ![r].at = "submitted"]
      <3>1. CdnTyped' /\ NoneIsAhead'
        BY <2>1, <2>4 DEF CdnInv, CdnTyped, NoneIsAhead
      <3>2. \A q \in Reviewers : reviewer'[q].version = reviewer[q].version /\ reviewer[q].version <= github
        BY <2>4 DEF CdnInv, CdnTyped, NoneIsAhead
      <3>3. ASSUME NEW q \in Reviewers, reviewer'[q].at = "submitted"
            PROVE  WasReviewed(reviewer[q].version)'
        BY <2>4, <3>2, <3>3, <2>1 DEF CdnInv, CdnTyped, WasReviewed, VersionsInOrder
      <3>4. row.state = "submitted" => WasReviewed(row.requested)'
        BY <2>4 DEF CdnInv, WasReviewed
      <3> QED BY <2>1, <2>4, <3>1, <3>2, <3>3, <3>4 DEF CdnInv, CdnTyped
    <2> QED BY <1>9, <2>2, <2>3, <2>4 DEF CdnSubscription!Verify, CdnSubscription!Submit
  <1>10. ASSUME NEW r \in Reviewers, CdnSubscription!Refuse(r) \/ CdnSubscription!Conclude(r)
         PROVE  CdnInv'
    <2>1. UNCHANGED <<plugin, github, syncer, packages>> /\ reviewer[r].at # "idle"
      BY <1>10 DEF CdnSubscription!Refuse, CdnSubscription!Conclude
    <2>2. PICK state \in {"blocked", "error", "submitted"} :
              /\ CdnSubscription!Finish(r, state)
              /\ state = "submitted" => reviewer[r].at = "submitted"
      BY <1>10 DEF CdnSubscription!Refuse, CdnSubscription!Conclude
    <2> QED BY <2>1, <2>2, FinishStays
  <1>11. ASSUME NEW r \in Reviewers, CdnSubscription!ReviewDies(r)
         PROVE  CdnInv'
    <2> DEFINE c == CdnSubscription!NotReviewing
    <2>1. /\ UNCHANGED <<plugin, github, syncer, packages>>
          /\ reviewer' = [reviewer EXCEPT ![r] = c]
          /\ row' = row \/ row' = [row EXCEPT !.lapsed = TRUE]
      BY <1>11 DEF CdnSubscription!ReviewDies
    <2>2. c.at = "idle" /\ c \in CdnReviewer /\ c.version <= github
      BY DEF CdnInv, CdnTyped, CdnReviewer, CdnSubscription!NotReviewing, CdnSubscription!Consent,
         VersionsInOrder, CdnOwners
    <2> HIDE DEF c
    <2>3. /\ row' \in [state : CdnSubscription!States, gen : Nat, requested : Versions,
                       scope : CdnOwners, lease : Reviewers \cup {Nobody}, lapsed : BOOLEAN]
          /\ row'.requested = row.requested /\ row'.lease = row.lease /\ row'.state = row.state
      BY <2>1 DEF CdnInv, CdnTyped
    <2>4. CdnTyped' /\ NoneIsAhead'
      BY <2>1, <2>2, <2>3 DEF CdnInv, CdnTyped, NoneIsAhead, CdnReviewer
    <2> QED BY <2>1, <2>2, <2>3, <2>4 DEF CdnInv, CdnTyped, WasReviewed
  <1>12. ASSUME NEW on \in BOOLEAN,
                CdnSubscription!SubmitPlugin(on) \/ CdnSubscription!UpdatePluginCdn(on)
         PROVE  CdnInv'
    BY <1>5, <1>12 DEF CdnSubscription!SubmitPlugin, CdnSubscription!UpdatePluginCdn
  <1> QED BY <1>1, <1>2, <1>3, <1>4, <1>6, <1>7, <1>8, <1>9, <1>10, <1>11, <1>12
          DEF CdnSubscription!Next, CdnSubscription!SyncerStep, CdnSubscription!ReviewerStep

(* What a CDN consent asked for is reported as submitted only if that      *)
(* version, or a later one, was submitted, whichever processes stood still *)
(* with an older claim and whatever the consent asks for meanwhile         *)
(* (cdn.py, claim and finish).                                             *)
THEOREM RequestsAreReviewed ==
    ASSUME Nobody \notin Reviewers, VersionsInOrder
    PROVE  Spec => []SubmittedIsReviewed
  <1> DEFINE I == focus = "cdn" => CdnInv
  <1>1. Init => I
    BY OneServiceAtInit, CdnAtInit
  <1>2. I /\ [Next]_vars => I'
    BY OneService, CdnStays
  <1>3. I => SubmittedIsReviewed
    BY DEF SubmittedIsReviewed, CdnInv, WasReviewed, CdnSubscription!SubmittedIsReviewed
  <1> QED BY <1>1, <1>2, <1>3, PTL DEF Spec
-----------------------------------------------------------------------------
(* ReviewDiscussion: what was said in a thread.                            *)

Notes == [kind : ReviewDiscussion!Kinds \cup {"create"}, key : Asks \cup Threads, sees : Nat]
Rows == [made : BOOLEAN, resolved : BOOLEAN, version : Nat, locked : BOOLEAN]

TalkTyped ==
    /\ thread \in [Threads -> Rows] /\ notes \in [Threads -> Seq(Notes)]
    /\ closings \in Seq([Threads -> Nat])
    /\ \A k \in Asks : ask[k].op \in ReviewDiscussion!Kinds =>
          ask[k].thread \in Threads /\ thread[ask[k].thread].made

(* A thread and its events agree, and one that had events when a decision  *)
(* was made has been locked.                                               *)
AddsUp(r, events) ==
    /\ r.made <=> Len(events) > 0
    /\ r.version = Len(events)
    /\ r.resolved <=> ReviewDiscussion!IsResolved(events)
    /\ \A i \in 1..Len(events) : events[i].sees = i - 1

ClosedFits(t) ==
    \A i \in 1..Len(closings) : closings[i][t] > 0 =>
        Len(notes[t]) = closings[i][t] /\ thread[t].locked

TalkInv ==
    /\ TalkTyped
    /\ \A t \in Threads : AddsUp(thread[t], notes[t]) /\ ClosedFits(t)

LEMMA TalkAtInit == DiscussionInv /\ ReviewDiscussion!Init => TalkInv
  <1> SUFFICES ASSUME DiscussionInv, ReviewDiscussion!Init PROVE TalkInv
    OBVIOUS
  <1>1. /\ thread = [t \in Threads |-> [made |-> FALSE, resolved |-> FALSE, version |-> 0,
                                        locked |-> FALSE]]
        /\ notes = [t \in Threads |-> <<>>] /\ closings = <<>>
        /\ ask = [k \in Asks |-> ReviewDiscussion!Blank]
    BY DEF ReviewDiscussion!Init
  <1>2. ReviewDiscussion!Blank.op = "none"
    BY DEF ReviewDiscussion!Blank
  <1>3. TalkTyped
    BY <1>1, <1>2 DEF TalkTyped, Rows, ReviewDiscussion!Kinds
  <1> QED BY <1>1, <1>3 DEF TalkInv, AddsUp, ClosedFits, ReviewDiscussion!IsResolved

(* An event more resolves a thread or opens it again, or does neither.     *)
LEMMA ResolvedAfter ==
    ASSUME NEW events \in Seq(Notes), NEW e \in Notes
    PROVE  ReviewDiscussion!IsResolved(Append(events, e)) <=>
               e.kind = "resolve" \/ (e.kind # "reopen" /\ ReviewDiscussion!IsResolved(events))
  <1> DEFINE n == Len(events)
             all == Append(events, e)
  <1>1. /\ Len(all) = n + 1 /\ n \in Nat /\ all[n + 1] = e
        /\ \A i \in 1..n : all[i] = events[i]
    OBVIOUS
  <1> HIDE DEF all
  <1>2. ASSUME e.kind = "resolve" PROVE ReviewDiscussion!IsResolved(all)
    BY <1>1, <1>2 DEF ReviewDiscussion!IsResolved
  <1>3. ASSUME e.kind # "reopen", ReviewDiscussion!IsResolved(events)
        PROVE  ReviewDiscussion!IsResolved(all)
    <2>1. PICK i \in 1..n : /\ events[i].kind = "resolve"
                            /\ \A j \in 1..n : j > i => events[j].kind # "reopen"
      BY <1>3 DEF ReviewDiscussion!IsResolved
    <2>2. i \in 1..Len(all) /\ all[i].kind = "resolve"
      BY <1>1, <2>1
    <2>3. \A j \in 1..Len(all) : j > i => all[j].kind # "reopen"
      BY <1>1, <1>3, <2>1
    <2> QED BY <2>2, <2>3 DEF ReviewDiscussion!IsResolved
  <1>4. ASSUME ReviewDiscussion!IsResolved(all), e.kind # "resolve"
        PROVE  e.kind # "reopen" /\ ReviewDiscussion!IsResolved(events)
    <2>1. PICK i \in 1..Len(all) : /\ all[i].kind = "resolve"
                                   /\ \A j \in 1..Len(all) : j > i => all[j].kind # "reopen"
      BY <1>4 DEF ReviewDiscussion!IsResolved
    <2>2. i \in 1..n /\ events[i].kind = "resolve" /\ e.kind # "reopen"
      BY <1>1, <1>4, <2>1
    <2>3. \A j \in 1..n : j > i => events[j].kind # "reopen"
      BY <1>1, <2>1
    <2> QED BY <2>2, <2>3 DEF ReviewDiscussion!IsResolved
  <1> QED BY <1>2, <1>3, <1>4 DEF all

(* A thread of which neither the row nor the events change.                *)
LEMMA ThreadsRest ==
    ASSUME TalkInv, UNCHANGED <<thread, notes, closings>>,
           \A k \in Asks : /\ ask'[k].op \in ReviewDiscussion!Kinds
                              => ask'[k].thread \in Threads /\ thread[ask'[k].thread].made
    PROVE  TalkInv'
  BY DEF TalkInv, TalkTyped, ClosedFits

LEMMA CreateAddsUp ==
    ASSUME TalkInv, NEW t \in Threads, ReviewDiscussion!CreateThread(t)
    PROVE  TalkInv'
  <1> DEFINE r == [thread[t] EXCEPT !.made = TRUE, !.version = 1]
             first == <<[kind |-> "create", key |-> t, sees |-> 0]>>
  <1>1. /\ ~thread[t].made /\ UNCHANGED <<closings, ask>>
        /\ thread' = [thread EXCEPT ![t] = r] /\ notes' = [notes EXCEPT ![t] = first]
    BY DEF ReviewDiscussion!CreateThread, TalkInv, TalkTyped
  <1>2. thread[t] \in Rows /\ AddsUp(thread[t], notes[t]) /\ notes[t] \in Seq(Notes)
    BY DEF TalkInv, TalkTyped
  <1>3. r \in Rows /\ r.made /\ r.version = 1 /\ (r.resolved <=> thread[t].resolved)
    BY <1>2 DEF Rows
  <1>4. Len(notes[t]) = 0
    BY <1>1, <1>2 DEF AddsUp
  <1>5. ~thread[t].resolved
    BY <1>2, <1>4 DEF AddsUp, ReviewDiscussion!IsResolved
  <1>6. first \in Seq(Notes) /\ Len(first) = 1 /\ first[1].kind = "create" /\ first[1].sees = 0
    BY DEF Notes
  <1> HIDE DEF r, first
  <1>7. AddsUp(r, first)
    BY <1>3, <1>5, <1>6 DEF AddsUp, ReviewDiscussion!IsResolved
  <1>8. TalkTyped'
    BY <1>1, <1>3, <1>6 DEF TalkInv, TalkTyped
  <1>9. ASSUME NEW u \in Threads PROVE (AddsUp(thread[u], notes[u]) /\ ClosedFits(u))'
    <2>1. CASE u = t
      <3>1. thread'[u] = r /\ notes'[u] = first
        BY <1>1, <2>1 DEF TalkInv, TalkTyped
      <3>2. \A i \in 1..Len(closings) : ~(closings[i][t] > 0)
        <4>1. \A i \in 1..Len(closings) : closings[i][t] \in Nat
          BY DEF TalkInv, TalkTyped
        <4> QED BY <1>4, <4>1 DEF TalkInv, ClosedFits
      <3> QED BY <1>1, <1>7, <2>1, <3>1, <3>2 DEF ClosedFits
    <2>2. CASE u # t
      <3>1. thread'[u] = thread[u] /\ notes'[u] = notes[u] /\ closings' = closings
        BY <1>1, <2>2 DEF TalkInv, TalkTyped
      <3> QED BY <3>1 DEF TalkInv, ClosedFits
    <2> QED BY <2>1, <2>2
  <1> QED BY <1>8, <1>9 DEF TalkInv


LEMMA AppendAddsUp ==
    ASSUME DiscussionInv, TalkInv, NEW k \in Asks, ReviewDiscussion!AppendEvent(k)
    PROVE  TalkInv'
  <1> DEFINE t == ask[k].thread
             what == ask[k].op
             sees == ask[k].version
             e == [kind |-> what, key |-> k, sees |-> sees]
             now == ReviewDiscussion!Resolved(what, thread[t].resolved)
             r == [thread[t] EXCEPT !.version = thread[t].version + 1, !.resolved = now]
  <1>1. /\ what \in ReviewDiscussion!Kinds /\ ask' = [ask EXCEPT ![k].over = TRUE]
        /\ UNCHANGED closings
        /\ \/ UNCHANGED <<thread, notes>>
           \/ /\ ~thread[t].locked /\ thread[t].version = sees
              /\ thread' = [thread EXCEPT ![t] = r]
              /\ notes' = [notes EXCEPT ![t] = Append(notes[t], e)]
    BY DEF ReviewDiscussion!AppendEvent, ReviewDiscussion!Close, ReviewDiscussion!SeesThread,
       TalkInv, TalkTyped
  <1>2. \A q \in Asks : ask'[q].op = ask[q].op /\ ask'[q].thread = ask[q].thread
    BY <1>1 DEF DiscussionInv, DiscussionTyped, AskTypes
  <1>3. t \in Threads /\ thread[t].made /\ thread[t] \in Rows /\ notes[t] \in Seq(Notes)
        /\ AddsUp(thread[t], notes[t]) /\ sees \in Nat
    BY <1>1 DEF TalkInv, TalkTyped, DiscussionInv, DiscussionTyped, AskTypes
  <1>4. CASE UNCHANGED <<thread, notes>>
    BY <1>1, <1>2, <1>4, ThreadsRest DEF TalkInv, TalkTyped
  <1>5. CASE /\ ~thread[t].locked /\ thread[t].version = sees
             /\ thread' = [thread EXCEPT ![t] = r]
             /\ notes' = [notes EXCEPT ![t] = Append(notes[t], e)]
    <2>1. now \in BOOLEAN
          /\ (now <=> what = "resolve" \/ (what # "reopen" /\ thread[t].resolved))
      BY Zenon DEF ReviewDiscussion!Resolved
    <2>2. e \in Notes /\ e.kind = what /\ e.sees = sees
      BY <1>1, <1>3 DEF Notes
    <2> HIDE DEF now, e
    <2>3. /\ r \in Rows /\ r.version = thread[t].version + 1 /\ (r.resolved <=> now)
          /\ (r.made <=> thread[t].made) /\ (r.locked <=> thread[t].locked)
      <3>1. r = [made |-> thread[t].made, resolved |-> now, version |-> thread[t].version + 1,
                 locked |-> thread[t].locked]
        <4>1. thread[t] \in Rows /\ now \in BOOLEAN
          BY <1>3, <2>1
        <4> DEFINE next == [thread[t] EXCEPT !.version = thread[t].version + 1]
        <4>2. next = [made |-> thread[t].made, resolved |-> thread[t].resolved,
                      version |-> thread[t].version + 1, locked |-> thread[t].locked]
          BY <4>1 DEF Rows
        <4>3. r = [next EXCEPT !.resolved = now]
          OBVIOUS
        <4> HIDE DEF next, r
        <4> QED BY <4>2, <4>3
      <3> HIDE DEF r
      <3>2. thread[t].made \in BOOLEAN /\ thread[t].locked \in BOOLEAN /\ thread[t].version \in Nat
        BY <1>3 DEF Rows
      <3>3. r \in Rows
        BY <2>1, <3>1, <3>2 DEF Rows
      <3> QED BY <3>1, <3>3
    <2> HIDE DEF r
    <2> DEFINE all == Append(notes[t], e)
    <2>4. /\ all \in Seq(Notes) /\ Len(all) = Len(notes[t]) + 1 /\ all[Len(notes[t]) + 1] = e
          /\ \A i \in 1..Len(notes[t]) : all[i] = notes[t][i]
      BY <1>3, <2>2
    <2>5. ReviewDiscussion!IsResolved(all) <=> now
      BY <1>3, <2>1, <2>2, ResolvedAfter DEF AddsUp
    <2> HIDE DEF all
    <2>6. AddsUp(r, all)
      <3>1. r.made <=> Len(all) > 0
        BY <1>3, <2>3, <2>4
      <3>2. r.version = Len(all)
        BY <1>3, <2>3, <2>4 DEF AddsUp
      <3>3. ASSUME NEW i \in 1..Len(all) PROVE all[i].sees = i - 1
        <4>1. sees = Len(notes[t]) /\ Len(notes[t]) \in Nat
          BY <1>3, <1>5 DEF AddsUp
        <4>2. CASE i = Len(notes[t]) + 1
          BY <1>3, <2>2, <2>4, <4>1, <4>2
        <4>3. CASE i \in 1..Len(notes[t])
          BY <1>3, <2>4, <4>3 DEF AddsUp
        <4> QED BY <2>4, <4>1, <4>2, <4>3
      <3> QED BY <2>3, <2>5, <3>1, <3>2, <3>3 DEF AddsUp
    <2>7. /\ thread' = [thread EXCEPT ![t] = r] /\ notes' = [notes EXCEPT ![t] = all]
      BY <1>5 DEF all
    <2>8. \A u \in Threads : thread'[u] = (IF u = t THEN r ELSE thread[u])
                             /\ notes'[u] = (IF u = t THEN all ELSE notes[u])
      BY <2>7 DEF TalkInv, TalkTyped
    <2>9. TalkTyped'
      <3>1. thread' \in [Threads -> Rows] /\ notes' \in [Threads -> Seq(Notes)]
        BY <1>3, <2>3, <2>4, <2>7 DEF TalkInv, TalkTyped
      <3>2. ASSUME NEW q \in Asks, ask'[q].op \in ReviewDiscussion!Kinds
            PROVE  ask'[q].thread \in Threads /\ thread'[ask'[q].thread].made
        <4>1. ask[q].thread \in Threads /\ thread[ask[q].thread].made /\ ask'[q].thread = ask[q].thread
          BY <1>2, <3>2 DEF TalkInv, TalkTyped
        <4> QED BY <1>3, <2>3, <2>8, <4>1
      <3> QED BY <1>1, <3>1, <3>2 DEF TalkInv, TalkTyped
    <2>10. ASSUME NEW u \in Threads PROVE (AddsUp(thread[u], notes[u]) /\ ClosedFits(u))'
      <3>1. CASE u = t
        <4>1. \A i \in 1..Len(closings) : ~(closings[i][t] > 0)
          BY <1>3, <1>5 DEF TalkInv, ClosedFits
        <4> QED BY <1>1, <2>6, <2>8, <3>1, <4>1 DEF ClosedFits
      <3>2. CASE u # t
        BY <1>1, <2>8, <3>2 DEF TalkInv, ClosedFits
      <3> QED BY <3>1, <3>2
    <2> QED BY <2>9, <2>10 DEF TalkInv
  <1> QED BY <1>1, <1>4, <1>5

LEMMA DecideAddsUp ==
    ASSUME TalkInv, ReviewDiscussion!Decide
    PROVE  TalkInv'
  <1> DEFINE r(t) == IF thread[t].made THEN [thread[t] EXCEPT !.locked = TRUE] ELSE thread[t]
             lengths == [t \in Threads |-> Len(notes[t])]
  <1>1. /\ thread' = [t \in Threads |-> r(t)] /\ closings' = Append(closings, lengths)
        /\ UNCHANGED <<notes, ask>>
    BY DEF ReviewDiscussion!Decide, ReviewDiscussion!LockThreads
  <1>2. ASSUME NEW t \in Threads
        PROVE  /\ r(t) \in Rows /\ r(t).made = thread[t].made /\ r(t).version = thread[t].version
               /\ r(t).resolved = thread[t].resolved
               /\ thread[t].made \/ thread[t].locked => r(t).locked
    <2>1. thread[t] \in Rows
      BY DEF TalkInv, TalkTyped
    <2>2. CASE thread[t].made
      BY <2>1, <2>2 DEF Rows
    <2>3. CASE ~thread[t].made
      BY <2>1, <2>3
    <2> QED BY <2>2, <2>3
  <1> HIDE DEF r
  <1>3. \A t \in Threads : Len(notes[t]) \in Nat /\ lengths[t] = Len(notes[t])
    BY DEF TalkInv, TalkTyped
  <1>4. lengths \in [Threads -> Nat]
    BY <1>3
  <1> HIDE DEF lengths
  <1>5. /\ closings' \in Seq([Threads -> Nat]) /\ Len(closings') = Len(closings) + 1
        /\ closings'[Len(closings) + 1] = lengths /\ Len(closings) \in Nat
        /\ \A i \in 1..Len(closings) : closings'[i] = closings[i]
    BY <1>1, <1>4 DEF TalkInv, TalkTyped
  <1>6. TalkTyped'
    BY <1>1, <1>2, <1>5 DEF TalkInv, TalkTyped
  <1>7. ASSUME NEW t \in Threads PROVE (AddsUp(thread[t], notes[t]) /\ ClosedFits(t))'
    <2>1. thread'[t] = r(t) /\ notes'[t] = notes[t] /\ AddsUp(thread[t], notes[t])
      BY <1>1 DEF TalkInv
    <2>2. AddsUp(r(t), notes[t])
      BY <1>2, <2>1 DEF AddsUp
    <2>3. ASSUME NEW i \in 1..Len(closings'), closings'[i][t] > 0
          PROVE  Len(notes[t]) = closings'[i][t] /\ r(t).locked
      <3>1. CASE i \in 1..Len(closings)
        BY <1>2, <1>5, <2>3, <3>1 DEF TalkInv, ClosedFits
      <3>2. CASE i = Len(closings) + 1
        BY <1>2, <1>3, <1>5, <2>1, <2>3, <3>2 DEF AddsUp
      <3> QED BY <1>5, <3>1, <3>2
    <2> QED BY <1>1, <2>1, <2>2, <2>3 DEF ClosedFits
  <1> QED BY <1>6, <1>7 DEF TalkInv

LEMMA TalkStays ==
    ASSUME DiscussionInv, TalkInv, [ReviewDiscussion!Next]_(ReviewDiscussion!vars)
    PROVE  TalkInv'
  <1>1. CASE UNCHANGED ReviewDiscussion!vars
    BY <1>1, ThreadsRest DEF ReviewDiscussion!vars, TalkInv, TalkTyped
  <1>2. ASSUME NEW t \in Threads, ReviewDiscussion!CreateThread(t) PROVE TalkInv'
    BY <1>2, CreateAddsUp
  <1>3. ASSUME NEW k \in Asks, ReviewDiscussion!AppendEvent(k) PROVE TalkInv'
    BY <1>3, AppendAddsUp
  <1>4. ASSUME NEW k \in Asks, NEW what \in ReviewDiscussion!Kinds, NEW t \in Threads,
               ReviewDiscussion!AskEvent(k, what, t)
        PROVE  TalkInv'
    <2> DEFINE b == [ReviewDiscussion!Blank EXCEPT !.op = what, !.thread = t, !.version = thread[t].version]
    <2>1. ask' = [ask EXCEPT ![k] = b] /\ thread[t].made /\ UNCHANGED <<thread, notes, closings>>
      BY <1>4 DEF ReviewDiscussion!AskEvent, ReviewDiscussion!talk, ReviewDiscussion!risk
    <2>2. b.thread = t
      BY BlankFits DEF AskTypes
    <2> HIDE DEF b
    <2>3. \A q \in Asks : ask'[q] = IF q = k THEN b ELSE ask[q]
      BY <2>1 DEF DiscussionInv, DiscussionTyped
    <2> QED BY <2>1, <2>2, <2>3, ThreadsRest DEF TalkInv, TalkTyped
  <1>5. ASSUME NEW k \in Asks, ReviewDiscussion!AskWithdrawal(k) PROVE TalkInv'
    <2> DEFINE b == [ReviewDiscussion!Blank EXCEPT !.op = "withdraw", !.version = finding.version,
                                                   !.release = ReviewDiscussion!StableOf]
    <2>1. ask' = [ask EXCEPT ![k] = b] /\ UNCHANGED <<thread, notes, closings>>
      BY <1>5 DEF ReviewDiscussion!AskWithdrawal, ReviewDiscussion!talk, ReviewDiscussion!risk
    <2>2. b.op = "withdraw"
      BY BlankFits DEF AskTypes
    <2> HIDE DEF b
    <2>3. \A q \in Asks : ask'[q] = IF q = k THEN b ELSE ask[q]
      BY <2>1 DEF DiscussionInv, DiscussionTyped
    <2> QED BY <2>1, <2>2, <2>3, ThreadsRest DEF TalkInv, TalkTyped, ReviewDiscussion!Kinds
  <1>6. ASSUME NEW k \in Asks, ReviewDiscussion!Repeat(k) \/ ReviewDiscussion!RequestWithdrawal(k)
        PROVE  TalkInv'
    <2>1. /\ \E b \in BOOLEAN : ask' = [ask EXCEPT ![k].over = b]
          /\ UNCHANGED <<thread, notes, closings>>
      BY <1>6 DEF ReviewDiscussion!Repeat, ReviewDiscussion!RequestWithdrawal, ReviewDiscussion!Close,
         ReviewDiscussion!talk, ReviewDiscussion!risk
    <2>2. \A q \in Asks : ask'[q].op = ask[q].op /\ ask'[q].thread = ask[q].thread
      BY <2>1 DEF DiscussionInv, DiscussionTyped, AskTypes
    <2> QED BY <2>1, <2>2, ThreadsRest DEF TalkInv, TalkTyped
  <1>7. CASE ReviewDiscussion!Decide
    BY <1>7, DecideAddsUp
  <1>8. CASE \/ ReviewDiscussion!Reopen \/ ReviewDiscussion!Triage
             \/ \E r \in Releases : ReviewDiscussion!PublishRelease(r) \/ ReviewDiscussion!Withdrawn(r)
    <2>1. UNCHANGED <<thread, notes, closings, ask>>
      BY <1>8, Zenon DEF ReviewDiscussion!Reopen, ReviewDiscussion!Triage, ReviewDiscussion!PublishRelease,
         ReviewDiscussion!Withdrawn, ReviewDiscussion!talk, ReviewDiscussion!risk
    <2> QED BY <2>1, ThreadsRest DEF TalkInv, TalkTyped
  <1> QED BY <1>1, <1>2, <1>3, <1>4, <1>5, <1>6, <1>7, <1>8 DEF ReviewDiscussion!Next

(* A thread's row is what its events make of it, each written by someone   *)
(* who had seen all before it, and what was said before a decision stays   *)
(* as it was, for any number of threads, people and decisions              *)
(* (advanced_repository.py, append_review_comment_event; repository.py,    *)
(* decide_artifact).                                                       *)
THEOREM ThreadsTellAll == Spec => []ThreadsAddUp
  <1> DEFINE I == focus = "discussion" => DiscussionInv /\ TalkInv
  <1>1. Init => I
    BY OneServiceAtInit, DiscussionAtInit, TalkAtInit
  <1>2. I /\ [Next]_vars => I'
    BY OneService, DiscussionStays, TalkStays
  <1>3. I => ThreadsAddUp
    <2> SUFFICES ASSUME DiscussionInv, TalkInv
                 PROVE  ReviewDiscussion!ThreadIsItsHistory /\ ReviewDiscussion!DecisionClosesThreads
      BY DEF ThreadsAddUp
    <2>1. ReviewDiscussion!DecisionClosesThreads
      BY DEF TalkInv, ClosedFits, ReviewDiscussion!DecisionClosesThreads
    <2>2. ASSUME NEW t \in Threads
          PROVE  thread[t].resolved = ReviewDiscussion!IsResolved(notes[t])
      <3>1. thread[t].resolved \in BOOLEAN /\ ReviewDiscussion!IsResolved(notes[t]) \in BOOLEAN
        BY DEF TalkInv, TalkTyped, Rows, ReviewDiscussion!IsResolved
      <3> QED BY <3>1 DEF TalkInv, AddsUp
    <2> QED BY <2>1, <2>2 DEF TalkInv, AddsUp, ReviewDiscussion!ThreadIsItsHistory
  <1> QED BY <1>1, <1>2, <1>3, PTL DEF Spec
=============================================================================
