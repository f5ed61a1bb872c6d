-------------------------- MODULE CdnSubscription --------------------------
(***************************************************************************)
(* The CDN consent of one plugin and the review it asks for of every       *)
(* version: the owner configures it, workers bring the version over from   *)
(* GitHub and queue its review, and workers take the review, verify the    *)
(* consent and submit the package.  The consent is held twice, in the      *)
(* plugin's metadata and in the row of plugin_cdn_subscriptions.           *)
(***************************************************************************)
EXTENDS Naturals

CONSTANTS
    Syncers,        \* processes and requests that refresh a plugin's metadata
    Reviewers,      \* processes in process_cdn_reviews: 1..n; the first free one is next
    Nobody,         \* no lease
    Owners,         \* who may own the plugin
    Versions,       \* versions a repository goes through, in order
    MaxGen,         \* bound: generations of the consent
    MaxFaults       \* bound: refusals, timeouts, deaths and stalls

VARIABLES
    plugin,         \* market_plugins: the consent, its generation, the version, the owner
    row,            \* plugin_cdn_subscriptions
    github,         \* the version on GitHub
    syncer,         \* what a refresh has read
    reviewer,       \* what a review has read
    packages,       \* the versions submitted
    faults

vars == <<plugin, row, github, syncer, reviewer, packages, faults>>

States == {"none", "idle", "disabled", "queued", "running", "error", "submitted", "blocked"}
Plugin == [on : BOOLEAN, gen : 0..MaxGen, version : Versions, owner : Owners]

Consent == [on |-> FALSE, gen |-> 0, version |-> CHOOSE v \in Versions : \A w \in Versions : v <= w,
            owner |-> CHOOSE o \in Owners : TRUE]
NotSyncing == [at |-> "idle", version |-> Consent.version, plugin |-> Consent]
NotReviewing == [at |-> "idle", version |-> Consent.version, gen |-> 0, scope |-> Consent.owner]

Init ==
    /\ plugin = Consent
    /\ github = Consent.version
    /\ row = [state |-> "none", gen |-> 0, requested |-> Consent.version, scope |-> Consent.owner,
              lease |-> Nobody, lapsed |-> FALSE]
    /\ syncer = [s \in Syncers |-> NotSyncing]
    /\ reviewer = [r \in Reviewers |-> NotReviewing]
    /\ packages = {}
    /\ faults = 0

Fault == faults < MaxFaults /\ faults' = faults + 1

Release ==
    /\ github + 1 \in Versions
    /\ github' = github + 1
    /\ UNCHANGED <<plugin, row, syncer, reviewer, packages, faults>>

ChangeOwner(o) ==
    /\ plugin.owner # o /\ Fault
    /\ plugin' = [plugin EXCEPT !.owner = o]
    /\ UNCHANGED <<row, github, syncer, reviewer, packages>>

Requested(state, gen, version, scope) ==
    [state |-> state, gen |-> gen, requested |-> version, scope |-> scope, lease |-> Nobody,
     lapsed |-> FALSE]

(* _configuration: a new generation for every turn of the switch, and for  *)
(* a consent that is given anew by another owner.                          *)
Unchanged(version) ==
    /\ plugin.on /\ row.scope = plugin.owner /\ row.requested = version
    /\ row.state \in {"queued", "running", "submitted"}

NextGen(on) ==
    IF on # plugin.on \/ (on /\ row.state # "none" /\ row.scope # plugin.owner)
    THEN plugin.gen + 1 ELSE plugin.gen

Configure(on, version) ==
    /\ NextGen(on) <= MaxGen
    /\ plugin' = [plugin EXCEPT !.on = on, !.gen = NextGen(on), !.version = version]
    /\ IF on /\ Unchanged(version)
       THEN UNCHANGED row
       ELSE \E state \in IF on THEN {"queued", "idle"} ELSE {"disabled"} :
               row' = Requested(state, NextGen(on), version, IF on THEN plugin.owner ELSE row.scope)
    /\ UNCHANGED <<github, syncer, reviewer, packages, faults>>

(* The plugin is submitted, again perhaps, with the version that GitHub    *)
(* has, if it answers; or only the switch is turned.                       *)
SubmitPlugin(on) == \E version \in {plugin.version, github} : Configure(on, version)

UpdatePluginCdn(on) ==
    /\ plugin.on # on \/ row.state = "none"
    /\ Configure(on, plugin.version)

(* refresh_plugin_github_metadata: GitHub is asked, ...                    *)
Fetch(s) ==
    /\ syncer[s].at = "idle"
    /\ syncer' = [syncer EXCEPT ![s] = [@ EXCEPT !.at = "fetched", !.version = github]]
    /\ UNCHANGED <<plugin, row, github, reviewer, packages, faults>>

(* ... update_plugin_metadata reads the plugin, ...                        *)
ReadPlugin(s) ==
    /\ syncer[s].at = "fetched"
    /\ syncer' = [syncer EXCEPT ![s] = [@ EXCEPT !.at = "read", !.plugin = plugin]]
    /\ UNCHANGED <<plugin, row, github, reviewer, packages, faults>>

(* ... and writes every column of it back, the consent too.                *)
WritePlugin(s) ==
    /\ syncer[s].at = "read"
    /\ plugin' = [syncer[s].plugin EXCEPT !.version = syncer[s].version]
    /\ syncer' = [syncer EXCEPT ![s] = [@ EXCEPT !.at = "written", !.plugin = plugin']]
    /\ UNCHANGED <<row, github, reviewer, packages, faults>>

(* A bug: the version that was asked for is not looked at.                 *)
RequeuesIdle(seen) ==
    /\ seen.on /\ plugin.on /\ plugin.gen = row.gen /\ row.state = "idle"
    /\ plugin.version = seen.version

(* queue_version, on the plugin the update returned.                       *)
Requeues(seen) ==
    /\ seen.on /\ plugin.on /\ plugin.gen = row.gen /\ row.state # "none"
    /\ plugin.version = seen.version
    /\ row.requested # seen.version \/ row.state = "idle"

QueueVersion(s) ==
    /\ syncer[s].at = "written"
    /\ row' = IF Requeues(syncer[s].plugin)
              THEN Requested("queued", row.gen, syncer[s].plugin.version, row.scope)
              ELSE row
    /\ syncer' = [syncer EXCEPT ![s] = NotSyncing]
    /\ UNCHANGED <<plugin, github, reviewer, packages, faults>>

(* The process dies, or the database refuses, between two of them.         *)
SyncDies(s) ==
    /\ syncer[s].at # "idle" /\ Fault
    /\ syncer' = [syncer EXCEPT ![s] = NotSyncing]
    /\ UNCHANGED <<plugin, row, github, reviewer, packages>>

(* claim: an interrupted review is taken over when its lease has lapsed.   *)
Claim(r) ==
    /\ reviewer[r].at = "idle" /\ \A q \in Reviewers : q < r => reviewer[q].at # "idle"
    /\ row.state \in {"queued", "error", "running"}
    /\ row.lease = Nobody \/ row.lapsed
    /\ plugin.on /\ plugin.gen = row.gen
    /\ row' = [row EXCEPT !.state = "running", !.lease = r, !.lapsed = FALSE]
    /\ reviewer' = [reviewer EXCEPT ![r] = [at |-> "claimed", version |-> row.requested,
                                            gen |-> row.gen, scope |-> row.scope]]
    /\ UNCHANGED <<plugin, github, syncer, packages, faults>>

(* A bug: a result is stored whatever has become of the request.           *)
FinishAnyhow(r, state) ==
    /\ row' = [row EXCEPT !.state = state, !.lease = Nobody, !.lapsed = FALSE]
    /\ reviewer' = [reviewer EXCEPT ![r] = NotReviewing]

(* finish: only under the lease of the claim.                              *)
Finish(r, state) ==
    /\ row' = IF row.lease = r /\ row.state = "running"
              THEN [row EXCEPT !.state = state, !.lease = Nobody, !.lapsed = FALSE]
              ELSE row
    /\ reviewer' = [reviewer EXCEPT ![r] = NotReviewing]

(* process_claim: the plugin is read and verify_subscription is asked.     *)
Verified(claim) ==
    /\ plugin.version = claim.version
    /\ plugin.on /\ plugin.gen = claim.gen /\ plugin.owner = claim.scope

Verify(r) ==
    /\ reviewer[r].at = "claimed"
    /\ IF Verified(reviewer[r])
       THEN /\ reviewer' = [reviewer EXCEPT ![r].at = "verified"]
            /\ UNCHANGED row
       ELSE Finish(r, "blocked")
    /\ UNCHANGED <<plugin, github, syncer, packages, faults>>

(* GitHub refuses for good or for now, or the 180 seconds are over.        *)
Refuse(r) ==
    /\ reviewer[r].at = "verified" /\ Fault
    /\ \E state \in {"blocked", "error"} : Finish(r, state)
    /\ UNCHANGED <<plugin, github, syncer, packages>>

(* submit_github: the package is that of the branch's present commit; the  *)
(* same package is submitted only once.                                    *)
Submit(r) ==
    /\ reviewer[r].at = "verified"
    /\ IF plugin.on /\ plugin.gen = reviewer[r].gen
       THEN /\ packages' = packages \cup {github}
            /\ reviewer' = [reviewer EXCEPT ![r].at = "submitted"]
            /\ UNCHANGED row
       ELSE Finish(r, "blocked") /\ UNCHANGED packages
    /\ UNCHANGED <<plugin, github, syncer, faults>>

Conclude(r) ==
    /\ reviewer[r].at = "submitted"
    /\ Finish(r, "submitted")
    /\ UNCHANGED <<plugin, github, syncer, packages, faults>>

(* A process dies, or stands still for longer than the five minutes.       *)
ReviewDies(r) ==
    /\ reviewer[r].at # "idle" /\ Fault
    /\ reviewer' = [reviewer EXCEPT ![r] = NotReviewing]
    /\ row' = IF row.lease = r THEN [row EXCEPT !.lapsed = TRUE] ELSE row
    /\ UNCHANGED <<plugin, github, syncer, packages>>

LeaseLapses ==
    /\ row.lease # Nobody /\ ~row.lapsed /\ Fault
    /\ row' = [row EXCEPT !.lapsed = TRUE]
    /\ UNCHANGED <<plugin, github, syncer, reviewer, packages>>

SyncerStep(s) == Fetch(s) \/ ReadPlugin(s) \/ WritePlugin(s) \/ QueueVersion(s)
ReviewerStep(r) == Claim(r) \/ Verify(r) \/ Submit(r) \/ Conclude(r)

Next ==
    \/ Release \/ LeaseLapses
    \/ \E o \in Owners : ChangeOwner(o)
    \/ \E on \in BOOLEAN : SubmitPlugin(on) \/ UpdatePluginCdn(on)
    \/ \E s \in Syncers : SyncerStep(s) \/ SyncDies(s)
    \/ \E r \in Reviewers : ReviewerStep(r) \/ Refuse(r) \/ ReviewDies(r)
-----------------------------------------------------------------------------
TypeOK ==
    /\ plugin \in Plugin
    /\ row \in [state : States, gen : 0..MaxGen, requested : Versions, scope : Owners,
                lease : Reviewers \cup {Nobody}, lapsed : BOOLEAN]
    /\ github \in Versions
    /\ syncer \in [Syncers -> [at : {"idle", "fetched", "read", "written"}, plugin : Plugin,
                               version : Versions]]
    /\ reviewer \in [Reviewers -> [at : {"idle", "claimed", "verified", "submitted"},
                                   version : Versions, gen : 0..MaxGen, scope : Owners]]
    /\ packages \subseteq Versions
    /\ faults \in 0..MaxFaults

(* A request is reported as submitted only if a package of the version it  *)
(* asks for, or of a later one, was submitted: a late result of an older   *)
(* claim settles nothing (cdn.py, finish).                                 *)
SubmittedIsReviewed ==
    row.state = "submitted" => \E v \in packages : v >= row.requested

(* As long as the consent stands, the plugin's newest version is asked for *)
(* and the request comes to an end.                                        *)
Standing == plugin.on /\ plugin.gen = row.gen
Answered == row.requested = github /\ row.state \in {"submitted", "blocked"}
VersionsAreAnswered == Standing ~> Answered \/ ~Standing
=============================================================================
