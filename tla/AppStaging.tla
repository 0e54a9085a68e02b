----------------------------- MODULE AppStaging -----------------------------
(***************************************************************************)
(* Staging, deployment and removal of one application: the requests that   *)
(* the epinio server handles for it, each a sequence of accesses to the    *)
(* stores it has no lock over.  The stores are                             *)
(*                                                                         *)
(*   cr       the application's custom resource (spec.stageid, .blobuid,   *)
(*            .imageurl, .origin), with kubernetes' optimistic concurrency *)
(*   job      the staging jobs, one per stage id, in epinio's namespace    *)
(*   jobenv   the secret that holds a job's environment, same name         *)
(*   store    the source archives ("blobs") in the S3 bucket               *)
(*   built    the images in the container registry                         *)
(*   release  the helm release that runs the application                   *)
(*                                                                         *)
(* One action is one access to a store, so that the requests of several    *)
(* users interleave where the server lets them.                            *)
(*                                                                         *)
(* Abstractions.  A stage id is unique (randstr.Hex16), and so is a blob.  *)
(* The resource version of the CR is not counted: "stale" holds the        *)
(* requests about to write a copy of the CR that is older than the CR.     *)
(* Local variables are reset when no longer used.  The order in which      *)
(* kubernetes lists jobs is not specified and is chosen freely.  The user  *)
(* environment, builder image, scripts, routes and volumes are left out:   *)
(* a step that fails on them is Fail or DeployRefused.                     *)
(***************************************************************************)
EXTENDS Naturals

CONSTANTS
  Req,      \* slots for requests: as many are served at the same time (bound)
  Stage,    \* stage ids
  Blob,     \* blob uids
  None,     \* the empty string of an unset field
  Ops,      \* kinds of requests that clients send
  MaxTries, \* attempts of UpdateImageURL (3 in the code)
  TTL,      \* whether finished jobs expire (TTLSecondsAfterFinished)
  Faults    \* whether a request may fail between any two accesses

AllOps == {"stage", "push", "sourcepatch", "deploy", "redeploy", "restart", "delete"}

ASSUME ConstantsAssumption ==
  /\ None \notin Stage \cup Blob
  /\ Ops \subseteq AllOps
  /\ MaxTries \in Nat \ {0}
  /\ TTL \in BOOLEAN /\ Faults \in BOOLEAN

VARIABLES cr, job, jobenv, store, built, release, stale, req

vars == <<cr, job, jobenv, store, built, release, stale, req>>
-----------------------------------------------------------------------------
(* Data *)

\* An image reference, registry/name:tag.  The images epinio builds carry
\* their stage id as tag, an image that a user brings is "ext".
Image == [repo : {"own", "ext", "none"}, tag : Stage \cup {None}]
NoImage == [repo |-> "none", tag |-> None]
ExtImage == [repo |-> "ext", tag |-> None]
ImageOf(s) == [repo |-> "own", tag |-> s]

CR == [exists : BOOLEAN, stageid : Stage \cup {None}, blobuid : Blob \cup {None},
       imageurl : Image, git : BOOLEAN]
NoCR == [exists |-> FALSE, stageid |-> None, blobuid |-> None,
         imageurl |-> NoImage, git |-> FALSE]

NoJob == [st |-> "none", blob |-> None, prev |-> None]
JobState == {"none", "pending", "building", "complete", "failed", "gone"}
Job == [st : JobState, blob : Blob \cup {None}, prev : Stage \cup {None}]

Release == [exists : BOOLEAN, stage : Stage \cup {None}, image : Image]
NoRelease == [exists |-> FALSE, stage |-> None, image |-> NoImage]

Listed == {s \in Stage : job[s].st \notin {"none", "gone"}}
Active == {s \in Stage : job[s].st \in {"pending", "building"}}
Finished == {s \in Stage : job[s].st \in {"complete", "failed"}}

\* What a request holds in its local variables: its copy of the CR, the stage
\* id it creates or names, the blob it stages, the previous stage id, the image
\* it deploys, the stage id an unstage keeps (keep), and the jobs (ids), the job
\* whose secret is next (cur) and the blobs (dead) which that unstage still has
\* to delete.
PCs == {"idle", "check", "resolve", "repack", "secret", "job", "patch", "await", "get",
        "image", "reget", "lookup", "helm", "swap", "list", "unstage", "env",
        "origin", "remove", "delcr", "delimage"}
Request ==
  [op : AllOps \cup {"none"}, pc : PCs, copy : CR, uid : Stage \cup {None},
   blob : Blob \cup {None}, prev : Stage \cup {None}, img : Image, tries : Nat,
   keep : Stage \cup {None}, ids : SUBSET Stage, cur : Stage \cup {None},
   dead : SUBSET Blob]
Idle ==
  [op |-> "none", pc |-> "idle", copy |-> NoCR, uid |-> None, blob |-> None,
   prev |-> None, img |-> NoImage, tries |-> 0, keep |-> None, ids |-> {},
   cur |-> None, dead |-> {}]

At(r, pc) == req[r].pc = pc
Become(r, new) == req' = [req EXCEPT ![r] = new]
End(r) == Become(r, Idle)
Goto(r, pc) == Become(r, [req[r] EXCEPT !.pc = pc])
Start(r, op) == At(r, "idle") /\ op \in Ops

\* A write of the CR makes the copies old that other requests are about to write.
WriteCR(new) == cr' = new /\ stale' = {r \in Req : At(r, "image")}

FreshStage(s) ==
  /\ job[s].st = "none" /\ s \notin jobenv
  /\ \A q \in Req : req[q].uid # s

Stores(b) == store' = [store EXCEPT ![b] = "stored"]
-----------------------------------------------------------------------------
(* Before any request *)

Init ==
  /\ cr = [NoCR EXCEPT !.exists = TRUE]
  /\ job = [s \in Stage |-> NoJob]
  /\ jobenv = {}
  /\ store = [b \in Blob |-> "none"]
  /\ built = {ExtImage}
  /\ release = NoRelease
  /\ stale = {}
  /\ req = [r \in Req |-> Idle]

\* The user creates the application's resource anew, after a deletion.
CreateApp ==
  /\ ~cr.exists
  /\ WriteCR([NoCR EXCEPT !.exists = TRUE])
  /\ UNCHANGED <<job, jobenv, store, built, release, req>>

\* A source archive is uploaded, its uid handed to the client.
Upload(b) ==
  /\ store[b] = "none"
  /\ Stores(b)
  /\ UNCHANGED <<cr, job, jobenv, built, release, stale, req>>
-----------------------------------------------------------------------------
(* Staging: Stage, stageForAsyncDeploy (push), SourcePatch *)

\* The stage id is drawn later in the code; it is chosen here so that the bound on
\* stage ids only ever keeps a request from starting.
BeginStage(r, op, s, b) ==
  /\ Start(r, op) /\ op \in {"stage", "push"} /\ cr.exists /\ FreshStage(s)
  /\ b = None => op = "stage"
  /\ b # None => store[b] # "none"
  /\ Become(r, [req[r] EXCEPT !.op = op, !.pc = "check", !.copy = cr,
                              !.uid = s, !.blob = b])
  /\ UNCHANGED <<cr, job, jobenv, store, built, release, stale>>

\* IsCurrentlyStaging: the loop of stagingStatus overwrites one map entry with
\* the state of each listed job, so that the last one decides.
CheckStaging(r) ==
  /\ At(r, "check")
  /\ \/ (Listed = {} \/ Finished # {}) /\ Goto(r, "resolve")
     \/ Active # {} /\ End(r)
  /\ UNCHANGED <<cr, job, jobenv, store, built, release, stale>>

\* The previous stage id is taken from the copy of the CR.
Assemble(r, b) ==
  Become(r, [req[r] EXCEPT !.pc = "secret", !.blob = b, !.copy = NoCR,
                           !.prev = IF req[r].copy.stageid = None THEN req[r].uid
                                    ELSE req[r].copy.stageid])

\* A new archive is stored and staged.
AssembleNew(r) == \E b \in Blob : store[b] = "none" /\ Stores(b) /\ Assemble(r, b)

\* resolveBlobUID: the blob of the request, else of the CR; when it is not in
\* the store, a clone of the git origin, which may fail.
WantedBlob(r) == IF req[r].blob # None THEN req[r].blob ELSE req[r].copy.blobuid
BlobThere(b) == b # None /\ store[b] = "stored"
ResolveBlob(r) ==
  /\ At(r, "resolve")
  /\ \/ /\ BlobThere(WantedBlob(r))
        /\ Assemble(r, WantedBlob(r)) /\ UNCHANGED store
     \/ /\ ~BlobThere(WantedBlob(r))
        /\ req[r].op = "stage" /\ req[r].copy.git
        /\ AssembleNew(r)
     \/ /\ ~BlobThere(WantedBlob(r))
        /\ End(r) /\ UNCHANGED store
  /\ UNCHANGED <<cr, job, jobenv, built, release, stale>>

BeginSourcePatch(r, s) ==
  /\ Start(r, "sourcepatch") /\ cr.exists /\ cr.blobuid # None /\ FreshStage(s)
  /\ Become(r, [req[r] EXCEPT !.op = "sourcepatch", !.pc = "repack", !.copy = cr,
                              !.uid = s])
  /\ UNCHANGED <<cr, job, jobenv, store, built, release, stale>>

\* The blob of the CR is downloaded, patched, and uploaded as a new one, each of
\* which may fail.  There is no check for a staging in progress.
RepackBlob(r) ==
  /\ At(r, "repack")
  /\ \/ BlobThere(req[r].copy.blobuid) /\ AssembleNew(r)
     \/ End(r) /\ UNCHANGED store
  /\ UNCHANGED <<cr, job, jobenv, built, release, stale>>

\* Mutant: the environment secret is never created.
CreateNoJobEnv(r) ==
  At(r, "secret") /\ Goto(r, "job")
  /\ UNCHANGED <<cr, job, jobenv, store, built, release, stale>>

\* executeStage
CreateJobEnv(r) ==
  /\ At(r, "secret")
  /\ jobenv' = jobenv \cup {req[r].uid}
  /\ Goto(r, "job")
  /\ UNCHANGED <<cr, job, store, built, release, stale>>

CreateJob(r) ==
  /\ At(r, "job")
  /\ job' = [job EXCEPT ![req[r].uid] =
               [st |-> "pending", blob |-> req[r].blob, prev |-> req[r].prev]]
  /\ Become(r, [req[r] EXCEPT !.pc = "patch", !.prev = None])
  /\ UNCHANGED <<cr, jobenv, store, built, release, stale>>

\* Mutant: the blob uid is forgotten in the patch.
PatchAppNoBlob(r) ==
  /\ At(r, "patch") /\ cr.exists
  /\ WriteCR([cr EXCEPT !.stageid = req[r].uid]) /\ End(r)
  /\ UNCHANGED <<job, jobenv, store, built, release>>

\* updateApp: a merge patch of the stage id and the blob uid, valid whatever
\* the resource version.
PatchApp(r) ==
  /\ At(r, "patch")
  /\ IF cr.exists
     THEN /\ WriteCR([cr EXCEPT !.stageid = req[r].uid, !.blobuid = req[r].blob])
          /\ IF req[r].op = "stage" THEN End(r)
             ELSE Become(r, [req[r] EXCEPT !.pc = "await", !.blob = None])
     ELSE End(r) /\ UNCHANGED <<cr, stale>>
  /\ UNCHANGED <<job, jobenv, store, built, release>>

\* waitForStagingCompletion; a job that is gone is an error.  The wait times out
\* after duration.ToAppBuilt.
AwaitJob(r) ==
  /\ At(r, "await")
  /\ \/ job[req[r].uid].st = "complete"
        /\ Become(r, [req[r] EXCEPT !.pc = "get", !.img = ImageOf(req[r].uid)])
     \/ job[req[r].uid].st # "complete" /\ End(r)
  /\ UNCHANGED <<cr, job, jobenv, store, built, release, stale>>
-----------------------------------------------------------------------------
(* Deployment: Deploy, runAsyncDeployment, asyncDeploy, Restart, and the    *)
(* DeployApp that every change of a running application ends in.            *)

\* Deploy of the push protocol: the client names a stage whose build it saw
\* complete, or no stage and an image of its own.
BeginDeploy(r, s) ==
  /\ Start(r, "deploy")
  /\ cr.exists
  /\ s # None => ImageOf(s) \in built
  /\ Become(r, [req[r] EXCEPT !.op = "deploy", !.pc = "image", !.copy = cr, !.uid = s,
                              !.img = IF s = None THEN ExtImage ELSE ImageOf(s), !.tries = 1])
  /\ UNCHANGED <<cr, job, jobenv, store, built, release, stale>>

\* An environment, binding, scale or setting changed: the workload is redeployed.
BeginRedeploy(r) ==
  /\ Start(r, "redeploy")
  /\ release.exists /\ cr.exists
  /\ Become(r, [req[r] EXCEPT !.op = "redeploy", !.pc = "lookup"])
  /\ UNCHANGED <<cr, job, jobenv, store, built, release, stale>>

\* Restart: an image without the CR's stage id in its name is taken for an older
\* build, and the tag replaced by the stage id.
BeginRestart(r) ==
  /\ Start(r, "restart") /\ cr.exists
  /\ Become(r, [req[r] EXCEPT
       !.op = "restart",
       !.pc = IF cr.stageid \in {None, cr.imageurl.tag} THEN "lookup" ELSE "get",
       !.img = IF cr.stageid \in {None, cr.imageurl.tag} THEN NoImage
               ELSE [cr.imageurl EXCEPT !.tag = cr.stageid]])
  /\ UNCHANGED <<cr, job, jobenv, store, built, release, stale>>

FetchApp(r) ==
  /\ At(r, "get")
  /\ IF cr.exists
     THEN Become(r, [req[r] EXCEPT !.pc = "image", !.copy = cr, !.tries = 1])
     ELSE End(r)
  /\ UNCHANGED <<cr, job, jobenv, store, built, release, stale>>

\* Mutant: the copy is written whatever the resource version.
UpdateImageURLBlind(r) ==
  /\ At(r, "image") /\ cr.exists
  /\ cr' = [req[r].copy EXCEPT !.imageurl = req[r].img]
  /\ Become(r, [req[r] EXCEPT !.pc = "lookup", !.copy = NoCR, !.tries = 0])
  /\ UNCHANGED <<job, jobenv, store, built, release, stale>>

\* Mutant: a conflict is retried for ever.
UpdateImageURLForever(r) ==
  /\ At(r, "image")
  /\ IF r \in stale
     THEN Goto(r, "get") /\ stale' = stale \ {r} /\ UNCHANGED cr
     ELSE /\ cr' = [req[r].copy EXCEPT !.imageurl = req[r].img]
          /\ stale' = {q \in Req \ {r} : At(q, "image")}
          /\ Become(r, [req[r] EXCEPT !.pc = "lookup", !.copy = NoCR])
  /\ UNCHANGED <<job, jobenv, store, built, release>>

\* UpdateImageURL: the whole copy is written back, which kubernetes refuses as a
\* conflict when the CR changed since it was read; read again, at most MaxTries.
UpdateImageURL(r) ==
  /\ At(r, "image")
  /\ \/ /\ cr.exists /\ r \notin stale
        /\ cr' = [req[r].copy EXCEPT !.imageurl = req[r].img]
        /\ stale' = {q \in Req \ {r} : At(q, "image")}
        /\ IF req[r].op = "sourcepatch"
           THEN Become(r, [req[r] EXCEPT !.pc = "swap", !.copy = NoCR, !.tries = 0])
           ELSE Become(r, [req[r] EXCEPT !.pc = "lookup", !.copy = NoCR, !.tries = 0,
                                         !.img = NoImage])
     \/ /\ cr.exists /\ r \in stale /\ req[r].tries < MaxTries
        /\ Become(r, [req[r] EXCEPT !.pc = "reget", !.copy = NoCR])
        /\ stale' = stale \ {r} /\ UNCHANGED cr
     \/ /\ ~cr.exists \/ (r \in stale /\ req[r].tries = MaxTries)
        /\ End(r) /\ stale' = stale \ {r} /\ UNCHANGED cr
  /\ UNCHANGED <<job, jobenv, store, built, release>>

RefetchApp(r) ==
  /\ At(r, "reget")
  /\ IF cr.exists
     THEN Become(r, [req[r] EXCEPT !.pc = "image", !.copy = cr, !.tries = @ + 1])
     ELSE End(r)
  /\ UNCHANGED <<cr, job, jobenv, store, built, release, stale>>

\* The routes or the git configuration of the origin are refused: the latter
\* before the deployment by Deploy, after it by runAsyncDeployment.
DeployRefused(r) ==
  /\ \/ At(r, "lookup") /\ req[r].op \in {"deploy", "push"}
     \/ At(r, "origin") /\ req[r].op = "push"
  /\ End(r)
  /\ UNCHANGED <<cr, job, jobenv, store, built, release, stale>>

\* deployApp reads the CR again; the expected stage id, if any, must match.
LookupApp(r) ==
  /\ At(r, "lookup")
  /\ IF cr.exists /\ req[r].uid \in {None, cr.stageid} /\ cr.imageurl # NoImage
     THEN Become(r, [req[r] EXCEPT !.pc = "helm", !.uid = None,
                                   !.keep = cr.stageid, !.img = cr.imageurl])
     ELSE End(r)
  /\ UNCHANGED <<cr, job, jobenv, store, built, release, stale>>

AfterDeploy(r) ==
  IF req[r].op \in {"deploy", "push"}
  THEN Become(r, [Idle EXCEPT !.op = req[r].op, !.pc = "origin"])
  ELSE End(r)

\* Mutant: stage and image swapped in the chart parameters.
HelmDeploySwapped(r) ==
  /\ At(r, "helm") /\ req[r].img \in built
  /\ release' = [exists |-> TRUE, stage |-> req[r].img, image |-> req[r].keep]
  /\ End(r)
  /\ UNCHANGED <<cr, job, jobenv, store, built, stale>>

\* helm.Deploy: atomic, so that an image which cannot be pulled leaves the
\* release as it was.
HelmDeploy(r) ==
  /\ At(r, "helm")
  /\ \/ /\ req[r].img \in built
        /\ release' = [exists |-> TRUE, stage |-> req[r].keep, image |-> req[r].img]
        /\ IF req[r].keep # None
           THEN Become(r, [req[r] EXCEPT !.pc = "list", !.img = NoImage])
           ELSE AfterDeploy(r)
     \/ req[r].img \notin built /\ End(r) /\ UNCHANGED release
  /\ UNCHANGED <<cr, job, jobenv, store, built, stale>>

\* swapPodImage: bypasses helm, the release keeps its stage id.
SwapPodImage(r) ==
  /\ At(r, "swap")
  /\ release' = IF release.exists THEN [release EXCEPT !.image = req[r].img] ELSE release
  /\ End(r)
  /\ UNCHANGED <<cr, job, jobenv, store, built, stale>>

SetOrigin(r) ==
  /\ At(r, "origin")
  /\ IF cr.exists
     THEN \E g \in BOOLEAN : WriteCR([cr EXCEPT !.git = g])
     ELSE UNCHANGED <<cr, stale>>
  /\ End(r)
  /\ UNCHANGED <<job, jobenv, store, built, release>>
-----------------------------------------------------------------------------
(* Unstage: what a deployment and a deletion do with the staging resources *)

\* Mutant: the blob that the kept job shares with others is deleted.
UnstageListShared(r) ==
  /\ At(r, "list")
  /\ LET others == Listed \ {req[r].keep}
     IN  Become(r, [req[r] EXCEPT !.pc = "unstage", !.ids = others,
                                  !.dead = {job[s].blob : s \in others}])
  /\ UNCHANGED <<cr, job, jobenv, store, built, release, stale>>

\* One listing serves the whole of Unstage: the jobs other than the one kept,
\* and the blobs of the listed jobs other than the blob of the one kept, which
\* is unknown when that job is not in the list.
UnstageList(r) ==
  /\ At(r, "list")
  /\ LET k == req[r].keep
         kept == IF k \in Listed THEN {job[k].blob} ELSE {}
     IN  Become(r, [req[r] EXCEPT !.pc = "unstage", !.ids = Listed \ {k},
                                  !.dead = {job[s].blob : s \in Listed} \ kept])
  /\ UNCHANGED <<cr, job, jobenv, store, built, release, stale>>

\* Mutant: "not found" of the job is ignored, and its secret deleted.
UnstageJobIgnore(r, s) ==
  /\ At(r, "unstage") /\ s \in req[r].ids
  /\ job' = [job EXCEPT ![s].st = "gone"]
  /\ Become(r, [req[r] EXCEPT !.pc = "env", !.cur = s, !.ids = @ \ {s}])
  /\ UNCHANGED <<cr, jobenv, store, built, release, stale>>

\* Mutant: the secret of the job is not deleted.
UnstageJobOnly(r, s) ==
  /\ At(r, "unstage") /\ s \in req[r].ids \cap Listed
  /\ job' = [job EXCEPT ![s].st = "gone"]
  /\ Become(r, [req[r] EXCEPT !.ids = @ \ {s}])
  /\ UNCHANGED <<cr, jobenv, store, built, release, stale>>

\* A job that is gone already is an error and ends the request, for a deletion
\* too: that error is ignored there, and the rest of Unstage skipped.
UnstageJob(r, s) ==
  /\ At(r, "unstage") /\ s \in req[r].ids
  /\ IF s \in Listed
     THEN /\ job' = [job EXCEPT ![s].st = "gone"]
          /\ Become(r, [req[r] EXCEPT !.pc = "env", !.cur = s, !.ids = @ \ {s}])
     ELSE End(r) /\ UNCHANGED job
  /\ UNCHANGED <<cr, jobenv, store, built, release, stale>>

UnstageEnv(r) ==
  /\ At(r, "env")
  /\ IF req[r].cur \in jobenv
     THEN /\ jobenv' = jobenv \ {req[r].cur}
          /\ Become(r, [req[r] EXCEPT !.pc = "unstage", !.cur = None])
     ELSE End(r) /\ UNCHANGED jobenv
  /\ UNCHANGED <<cr, job, store, built, release, stale>>

\* CleanupS3Blobs: deleting a blob that is not there succeeds; a quota error
\* leaves the blob and goes on with a warning.
UnstageBlob(r, b) ==
  /\ At(r, "unstage") /\ req[r].ids = {} /\ b \in req[r].dead
  /\ store' \in {store, [store EXCEPT ![b] = "deleted"]}
  /\ Become(r, [req[r] EXCEPT !.dead = @ \ {b}])
  /\ UNCHANGED <<cr, job, jobenv, built, release, stale>>

UnstageDone(r) ==
  /\ At(r, "unstage") /\ req[r].ids = {} /\ req[r].dead = {}
  /\ AfterDeploy(r)
  /\ UNCHANGED <<cr, job, jobenv, store, built, release, stale>>
-----------------------------------------------------------------------------
(* Deletion.  An image to be deleted is noted before anything else. *)

BeginDelete(r, deleteImage) ==
  /\ Start(r, "delete") /\ cr.exists
  /\ Become(r, [req[r] EXCEPT !.op = "delete", !.pc = "remove",
                              !.img = IF deleteImage THEN cr.imageurl ELSE NoImage])
  /\ UNCHANGED <<cr, job, jobenv, store, built, release, stale>>

\* Mutant: every error of helm is taken for "release: not found".
RemoveReleaseIgnore(r) ==
  /\ At(r, "remove")
  /\ release' \in {release, NoRelease}
  /\ Goto(r, "delcr")
  /\ UNCHANGED <<cr, job, jobenv, store, built, stale>>

RemoveRelease(r) ==
  /\ At(r, "remove")
  /\ release' = NoRelease
  /\ Goto(r, "delcr")
  /\ UNCHANGED <<cr, job, jobenv, store, built, stale>>

DeleteCR(r) ==
  /\ At(r, "delcr")
  /\ IF cr.exists
     THEN WriteCR(NoCR) /\ Goto(r, IF req[r].img = NoImage THEN "list" ELSE "delimage")
     ELSE End(r) /\ UNCHANGED <<cr, stale>>
  /\ UNCHANGED <<job, jobenv, store, built, release>>

\* An error of the registry is logged and the deletion goes on.
DeleteImage(r) ==
  /\ At(r, "delimage")
  /\ built' \in {built, built \ {req[r].img}}
  /\ Become(r, [req[r] EXCEPT !.pc = "list", !.img = NoImage])
  /\ UNCHANGED <<cr, job, jobenv, store, release, stale>>
-----------------------------------------------------------------------------
(* Kubernetes, and failures *)

\* The download-s3-blob container of the job fetches the blob.
JobDownloads(s) ==
  /\ job[s].st = "pending" /\ store[job[s].blob] = "stored"
  /\ job' = [job EXCEPT ![s].st = "building"]
  /\ UNCHANGED <<cr, jobenv, store, built, release, stale, req>>

JobCompletes(s) ==
  /\ job[s].st = "building"
  /\ job' = [job EXCEPT ![s].st = "complete"]
  /\ built' = built \cup {ImageOf(s)}
  /\ UNCHANGED <<cr, jobenv, store, release, stale, req>>

\* BackoffLimit 0: one failure of the pod fails the job.
JobFails(s) ==
  /\ s \in Active
  /\ job' = [job EXCEPT ![s].st = "failed"]
  /\ UNCHANGED <<cr, jobenv, store, built, release, stale, req>>

JobExpires(s) ==
  /\ TTL /\ s \in Finished
  /\ job' = [job EXCEPT ![s].st = "gone"]
  /\ UNCHANGED <<cr, jobenv, store, built, release, stale, req>>

\* An access to a store fails, or the server stops: nothing is undone.
Fail(r) ==
  /\ Faults /\ ~At(r, "idle")
  /\ End(r) /\ stale' = stale \ {r}
  /\ UNCHANGED <<cr, job, jobenv, store, built, release>>
-----------------------------------------------------------------------------
Begin(r) ==
  \/ \E op \in {"stage", "push"}, s \in Stage, b \in Blob \cup {None} :
        BeginStage(r, op, s, b)
  \/ \E s \in Stage : BeginSourcePatch(r, s)
  \/ \E s \in Stage \cup {None} : BeginDeploy(r, s)
  \/ BeginRedeploy(r)
  \/ BeginRestart(r)
  \/ \E di \in BOOLEAN : BeginDelete(r, di)

\* What a request in progress does next.
Proceed(r) ==
  \/ CheckStaging(r) \/ ResolveBlob(r) \/ RepackBlob(r)
  \/ CreateJobEnv(r) \/ CreateJob(r) \/ PatchApp(r) \/ AwaitJob(r)
  \/ FetchApp(r) \/ UpdateImageURL(r) \/ RefetchApp(r) \/ DeployRefused(r)
  \/ LookupApp(r) \/ HelmDeploy(r) \/ SwapPodImage(r) \/ SetOrigin(r)
  \/ UnstageList(r)
  \/ \E s \in Stage : UnstageJob(r, s)
  \/ UnstageEnv(r)
  \/ \E b \in Blob : UnstageBlob(r, b)
  \/ UnstageDone(r)
  \/ RemoveRelease(r) \/ DeleteCR(r) \/ DeleteImage(r)

Kubernetes ==
  \E s \in Stage : JobDownloads(s) \/ JobCompletes(s) \/ JobFails(s) \/ JobExpires(s)

Next ==
  \/ CreateApp
  \/ \E b \in Blob : Upload(b)
  \/ \E r \in Req : Begin(r) \/ Proceed(r) \/ Fail(r)
  \/ Kubernetes

Spec == Init /\ [][Next]_vars

\* A handler that has begun is run to its end by the Go runtime: it returns from
\* each access to a store, with a result or with an error.  Nothing is assumed
\* of clients and of the jobs.
FairSpec == Spec /\ \A r \in Req : WF_vars(Proceed(r))
-----------------------------------------------------------------------------
(* Properties *)

TypeOK ==
  /\ cr \in CR
  /\ job \in [Stage -> Job]
  /\ jobenv \subseteq Stage
  /\ store \in [Blob -> {"none", "stored", "deleted"}]
  /\ built \subseteq Image
  /\ release \in Release
  /\ stale \subseteq Req
  /\ req \in [Req -> Request]

\* Every staging job finds the secret with its environment: executeStage creates
\* the secret before the job, Unstage deletes it after the job, and no other
\* request deletes the secret of a job that is still there.
JobHasEnv == Listed \subseteq jobenv

\* The secret that an Unstage deletes after its job is there: of the requests
\* that unstage the same job only the one that deleted the job goes on to its
\* secret, so that DeleteSecret never ends a request with "not found".
UnstageFindsEnv ==
  /\ \A r \in Req : At(r, "env") => req[r].cur \in jobenv
  /\ \A q, r \in Req : At(q, "env") /\ At(r, "env") /\ req[q].cur = req[r].cur => q = r

\* The stage id and the blob uid of the CR belong to one attempt, whose job was
\* created: concurrent stagings and image updates never mix two attempts.
CRNamesOneAttempt ==
  cr.stageid # None => job[cr.stageid].st # "none" /\ cr.blobuid = job[cr.stageid].blob

\* Once a staging is recorded in the CR only another staging replaces it:
\* UpdateImageURL, which writes back a copy of the whole CR, never undoes it.
StagingNotLost ==
  [][cr.exists /\ cr'.exists /\ cr'.stageid # cr.stageid
       => \E r \in Req : At(r, "patch") /\ cr'.stageid = req[r].uid]_vars

\* The Unstage of a deployment leaves the job it is told to keep, the secret of
\* that job and the blob it was built from, even if other jobs share the blob.
UnstageSparesKept ==
  [][\A r \in Req :
       /\ req[r].pc \in {"unstage", "env"} /\ req'[r] # req[r]
       /\ req[r].keep \in Listed
       => LET k == req[r].keep
          IN  /\ job'[k] = job[k] /\ k \in jobenv'
              /\ store'[job[k].blob] = store[job[k].blob]]_vars

\* When requests are served one at a time the sources named by the CR stay in
\* the store, so that the application can be staged again, also after requests
\* that stopped halfway.
SourceKept == cr.blobuid # None => store[cr.blobuid] = "stored"

\* A release never outlives the CR of its application: Delete removes the
\* workload before the CR, and no deployment starts without one.
NoOrphanWorkload == release.exists => cr.exists

\* A secret whose job was deleted is deleted, too.  "Note: The secret is deleted
\* with the job in function `Unstage()`" (stage.go, executeStage).
EnvFollowsJob == \A s \in Stage : job[s].st = "gone" ~> s \notin jobenv

\* Every request ends; in particular the retries of UpdateImageURL do, however
\* often other requests write the CR.
RequestsEnd == \A r \in Req : ~At(r, "idle") ~> At(r, "idle")
=============================================================================
