---------------------------- MODULE Submission -----------------------------
(***************************************************************************)
(* How a package comes in: the consent is checked, the stream is stored    *)
(* under a quarantine key of its own, the artifact's row is inserted and   *)
(* its precheck queued.  The objects are files of LocalArtifactStorage: a  *)
(* quarantine object appears whole, a published one grows in place.        *)
(***************************************************************************)
EXTENDS Naturals, FiniteSets

CONSTANTS
    Uploads,      \* submissions, each with an artifact id and key of its own
    Packages,      \* archives, by their sha256
    NoUpload,
    MaxMishaps     \* bound: refusals, failures and deaths

VARIABLES
    consent,       \* cdn_enabled, and of the generation the caller read
    upload,       \* a submission: its package and its step
    quarantine,    \* keys that hold an object
    artifact,      \* which upload's artifact holds a package
    precheck,      \* artifacts with a precheck job
    published,     \* the public copy of an artifact: absent, part or whole
    announced,     \* artifacts reported as published
    copying,       \* artifacts some process is writing the public copy of
    mishaps

vars == <<consent, upload, quarantine, artifact, precheck, published, announced, copying, mishaps>>

Steps == {"new", "stored", "checked", "unknown", "inserted", "queued", "answered", "refused",
          "lost"}

Init ==
    /\ consent = TRUE
    /\ upload \in [Uploads -> [package : Packages, at : {"new"}]]
    /\ quarantine = {} /\ precheck = {} /\ announced = {} /\ copying = {}
    /\ artifact = [p \in Packages |-> NoUpload]
    /\ published = [r \in Uploads |-> "absent"]
    /\ mishaps = 0

Mishap == mishaps < MaxMishaps /\ mishaps' = mishaps + 1
Goto(r, step) == upload' = [upload EXCEPT ![r].at = step]
Package(r) == upload[r].package
public == <<published, announced, copying>>

Withdraw ==
    /\ consent /\ Mishap
    /\ consent' = FALSE
    /\ UNCHANGED <<upload, quarantine, artifact, precheck, public>>

(* put_quarantine: the temporary file is linked under the key when it is   *)
(* complete, or the stream is too large and it is removed.                 *)
PutQuarantine(r) ==
    /\ upload[r].at = "new"
    /\ IF consent
       THEN quarantine' = quarantine \cup {r} /\ Goto(r, "stored")
       ELSE Goto(r, "refused") /\ UNCHANGED quarantine
    /\ UNCHANGED <<consent, artifact, precheck, public, mishaps>>

TooLarge(r) ==
    /\ upload[r].at = "new" /\ Mishap
    /\ Goto(r, "refused")
    /\ UNCHANGED <<consent, quarantine, artifact, precheck, public>>

(* A bug: the object of the artifact that is answered is deleted.          *)
DiscardAnswered(r) ==
    quarantine' = quarantine \ {IF artifact[Package(r)] = NoUpload THEN r ELSE artifact[Package(r)]}

(* A bug: the object is kept, as if the answer were the upload's own.     *)
Keep(r) == UNCHANGED quarantine

(* delete_quarantine of the upload's own key.                             *)
Discard(r) == quarantine' = quarantine \ {r}

(* _create_artifact: the consent again, ...                                *)
CheckConsent(r) ==
    /\ upload[r].at = "stored"
    /\ IF consent
       THEN Goto(r, "checked") /\ UNCHANGED quarantine
       ELSE Goto(r, "refused") /\ Discard(r)
    /\ UNCHANGED <<consent, artifact, precheck, public, mishaps>>

(* ... the same package, which answers the upload, ...                    *)
FindPackage(r) ==
    /\ upload[r].at = "checked"
    /\ IF artifact[Package(r)] # NoUpload
       THEN Goto(r, "answered") /\ Discard(r)
       ELSE Goto(r, "unknown") /\ UNCHANGED quarantine
    /\ UNCHANGED <<consent, artifact, precheck, public, mishaps>>

(* ... the row, which another upload may have inserted meanwhile, ...     *)
Insert(r) ==
    /\ upload[r].at = "unknown"
    /\ IF artifact[Package(r)] # NoUpload
       THEN Goto(r, "answered") /\ Discard(r) /\ UNCHANGED artifact
       ELSE /\ artifact' = [artifact EXCEPT ![Package(r)] = r]
            /\ Goto(r, "inserted") /\ UNCHANGED quarantine
    /\ UNCHANGED <<consent, precheck, public, mishaps>>

(* ... and the job.                                                        *)
EnqueuePrecheck(r) ==
    /\ upload[r].at = "inserted"
    /\ precheck' = precheck \cup {r}
    /\ Goto(r, "queued")
    /\ UNCHANGED <<consent, quarantine, artifact, public, mishaps>>

Announce(r) ==
    /\ upload[r].at = "queued"
    /\ Goto(r, "answered")
    /\ UNCHANGED <<consent, quarantine, artifact, precheck, public, mishaps>>

(* The database fails: before the lookup is done the object stays, in the  *)
(* guarded part it is deleted, the row is not; an announcement is lost.    *)
Fail(r) ==
    /\ Mishap
    /\ \/ upload[r].at \in {"stored", "unknown", "inserted"} /\ Goto(r, "refused") /\ Discard(r)
       \/ upload[r].at \in {"checked", "queued"} /\ Goto(r, "lost") /\ UNCHANGED quarantine
    /\ UNCHANGED <<consent, artifact, precheck, public>>

Die(r) ==
    /\ upload[r].at \in {"stored", "checked", "unknown", "inserted", "queued"} /\ Mishap
    /\ Goto(r, "lost")
    /\ UNCHANGED <<consent, quarantine, artifact, precheck, public>>

(* publish_if_absent of an accepted artifact: _copy_file_if_absent creates *)
(* the file exclusively, or compares the one that is there.                *)
Create(r) ==
    /\ r \in precheck /\ published[r] = "absent"
    /\ published' = [published EXCEPT ![r] = "part"]
    /\ copying' = copying \cup {r}
    /\ UNCHANGED <<consent, upload, quarantine, artifact, precheck, announced, mishaps>>

(* A bug: a file that is there is taken for the package.                   *)
MatchesByName(r) == published[r] # "absent"

Matches(r) == published[r] = "whole"

Compare(r) ==
    /\ Matches(r)
    /\ announced' = announced \cup {r}
    /\ UNCHANGED <<consent, upload, quarantine, artifact, precheck, published, copying, mishaps>>

Copy(r) ==
    /\ r \in copying
    /\ published' = [published EXCEPT ![r] = "whole"]
    /\ copying' = copying \ {r}
    /\ announced' = announced \cup {r}
    /\ UNCHANGED <<consent, upload, quarantine, artifact, precheck, mishaps>>

(* A failed copy is removed; one whose process dies stays as it is.        *)
Interrupt(r) ==
    /\ r \in copying /\ Mishap
    /\ copying' = copying \ {r}
    /\ \/ published' = [published EXCEPT ![r] = "absent"]
       \/ UNCHANGED published
    /\ UNCHANGED <<consent, upload, quarantine, artifact, precheck, announced>>

RequestStep(r) ==
    \/ PutQuarantine(r) \/ CheckConsent(r) \/ FindPackage(r) \/ Insert(r)
    \/ EnqueuePrecheck(r) \/ Announce(r)

Next ==
    \/ Withdraw
    \/ \E r \in Uploads :
          \/ RequestStep(r) \/ TooLarge(r) \/ Fail(r) \/ Die(r)
          \/ Create(r) \/ Compare(r) \/ Copy(r) \/ Interrupt(r)
-----------------------------------------------------------------------------
TypeOK ==
    /\ consent \in BOOLEAN
    /\ upload \in [Uploads -> [package : Packages, at : Steps]]
    /\ quarantine \subseteq Uploads /\ precheck \subseteq Uploads
    /\ announced \subseteq Uploads /\ copying \subseteq Uploads
    /\ artifact \in [Packages -> Uploads \cup {NoUpload}]
    /\ published \in [Uploads -> {"absent", "part", "whole"}]
    /\ mishaps \in 0..MaxMishaps

(* A queued precheck finds its package in the quarantine, whoever submits  *)
(* the same package at the same time (service.py, _create_artifact).       *)
PrecheckFindsItsPackage == precheck \subseteq quarantine

(* An object in the quarantine has an artifact once its upload is         *)
(* through, unless the upload was cut off by a death or a failed lookup.  *)
NothingIsLeftBehind ==
    \A r \in quarantine :
        upload[r].at \in {"answered", "refused"} => artifact[Package(r)] = r

(* What is reported as published is the whole package, though a copy that  *)
(* was cut off may lie under its name (storage.py, _copy_file_if_absent).  *)
PublishedIsWhole == \A r \in announced : published[r] = "whole"
=============================================================================
