-------------------------- MODULE AppStagingProofs --------------------------
(***************************************************************************)
(* Proofs about AppStaging, for any number of requests, stages and blobs.  *)
(*                                                                         *)
(* Neither JobHasEnv nor CRNamesOneAttempt is inductive: that a job finds  *)
(* its secret depends on what the requests between the creation of the     *)
(* secret and of the job, and between the deletion of the job and of the   *)
(* secret, hold in their local variables; that the CR names one attempt    *)
(* depends on the copies of it that are about to be written back.          *)
(*                                                                         *)
(* The second half is about what a staging leaves behind. KeepInv says     *)
(* what the list of an Unstage spares, for any number of requests. That    *)
(* the source and the workload of an application survive is true only of   *)
(* requests that follow one another (OneAtATime): WorkloadInv and          *)
(* SourceInv say what the one request under way knows at each place.       *)
(***************************************************************************)
EXTENDS AppStaging, TLAPS

\* A staging job names a blob, and so does a request about to create one.
BlobInv ==
  /\ \A s \in Stage : job[s].st # "none" => job[s].blob \in Blob
  /\ \A r \in Req : req[r].pc \in {"secret", "job"} => req[r].blob \in Blob

\* A request that stages has drawn its stage id, and has not created the job.
Preparing(r) == req[r].pc \in {"check", "resolve", "repack", "secret", "job"}

\* Nobody else uses the stage id that a request has drawn.
PreparingInv ==
  /\ \A r \in Req : Preparing(r) =>
       /\ req[r].uid \in Stage /\ job[req[r].uid].st = "none"
       /\ At(r, "job") => req[r].uid \in jobenv
  /\ \A q, r \in Req : Preparing(q) /\ Preparing(r) /\ req[q].uid = req[r].uid => q = r

\* The secret that an Unstage deletes belongs to a job that it has deleted.
UnstagingInv ==
  \A r \in Req : At(r, "env") => req[r].cur \in Stage /\ job[req[r].cur].st = "gone"

\* A request records in the CR the attempt whose job it created.
PatchInv ==
  \A r \in Req : At(r, "patch") =>
    /\ req[r].uid \in Stage /\ job[req[r].uid].st # "none"
    /\ job[req[r].uid].blob = req[r].blob

\* A copy that is written back and is not stale is the CR.
CopyInv == \A r \in Req : At(r, "image") /\ r \notin stale => req[r].copy = cr

-----------------------------------------------------------------------------
(* Types *)

\* The places and the operations that the actions name
LEMMA Names ==
  /\ "idle" \in PCs /\ "check" \in PCs /\ "resolve" \in PCs /\ "repack" \in PCs
  /\ "secret" \in PCs /\ "job" \in PCs /\ "patch" \in PCs /\ "await" \in PCs /\ "get" \in PCs
  /\ "image" \in PCs /\ "reget" \in PCs /\ "lookup" \in PCs /\ "helm" \in PCs /\ "swap" \in PCs
  /\ "list" \in PCs /\ "unstage" \in PCs /\ "env" \in PCs /\ "origin" \in PCs
  /\ "remove" \in PCs /\ "delcr" \in PCs /\ "delimage" \in PCs
  /\ "stage" \in AllOps /\ "push" \in AllOps /\ "sourcepatch" \in AllOps /\ "deploy" \in AllOps
  /\ "redeploy" \in AllOps /\ "restart" \in AllOps /\ "delete" \in AllOps
BY DEF PCs, AllOps

\* The constant values that the actions assign have their types.
LEMMA ConstantTypes ==
  /\ NoImage \in Image /\ ExtImage \in Image /\ NoCR \in CR /\ NoRelease \in Release
  /\ Idle \in Request
  /\ \A s \in Stage \cup {None} : ImageOf(s) \in Image
<1>1. NoImage \in Image /\ ExtImage \in Image /\ \A s \in Stage \cup {None} : ImageOf(s) \in Image
  BY DEF NoImage, ExtImage, Image, ImageOf
<1>2. NoCR \in CR
  BY <1>1 DEF NoCR, CR
<1>3. NoRelease \in Release
  BY <1>1 DEF NoRelease, Release
<1>4. Idle \in Request
  BY <1>1, <1>2 DEF Idle, Request, PCs
<1> QED BY <1>1, <1>2, <1>3, <1>4

\* A request that becomes another leaves the table of requests well typed.
LEMMA BecomeType ==
  ASSUME NEW r \in Req, NEW new \in Request, req \in [Req -> Request], Become(r, new)
  PROVE  req' \in [Req -> Request]
BY DEF Become

\* So does one that goes on to create its job (the end of resolveBlobUID).
LEMMA AssembleType ==
  ASSUME NEW r \in Req, NEW b \in Blob, req \in [Req -> Request], Assemble(r, b)
  PROVE  req' \in [Req -> Request]
<1> DEFINE prev == IF req[r].copy.stageid = None THEN req[r].uid ELSE req[r].copy.stageid
<1>1. prev \in Stage \cup {None}
  BY DEF Request, CR
<1> HIDE DEF prev
<1>2. [req[r] EXCEPT !.pc = "secret", !.blob = b, !.copy = NoCR, !.prev = prev] \in Request
  BY <1>1, Names, ConstantTypes DEF Request
<1> QED BY <1>2, BecomeType DEF Assemble, prev

\* Every step keeps the types.  Unstage deletes the blobs of listed jobs, so that each
\* job must name one (BlobInv); the secret is named after the drawn stage id.
LEMMA TypeStep == TypeOK /\ BlobInv /\ PreparingInv /\ [Next]_vars => TypeOK'
<1> SUFFICES ASSUME TypeOK, BlobInv, PreparingInv, [Next]_vars PROVE TypeOK'
  OBVIOUS
<1>r. \A r \in Req :
        /\ req[r] \in Request
        /\ req[r].uid \in Stage \cup {None} /\ req[r].blob \in Blob \cup {None}
        /\ req[r].prev \in Stage \cup {None} /\ req[r].keep \in Stage \cup {None}
        /\ req[r].img \in Image /\ req[r].copy \in CR /\ req[r].tries \in Nat
  BY DEF TypeOK, Request
<1>c. /\ cr \in CR /\ cr.imageurl \in Image
      /\ cr.stageid \in Stage \cup {None} /\ cr.blobuid \in Blob \cup {None}
  BY DEF TypeOK, CR
<1>1. ASSUME CreateApp PROVE TypeOK'
  BY <1>1, ConstantTypes DEF CreateApp, TypeOK, WriteCR, CR
<1>2. ASSUME NEW b \in Blob, Upload(b) PROVE TypeOK'
  BY <1>2, ConstantTypes DEF Upload, TypeOK, Stores
<1>3. ASSUME NEW r \in Req, NEW op \in {"stage", "push"},
           NEW s \in Stage, NEW b \in Blob \cup {None}, BeginStage(r, op, s, b) PROVE TypeOK'
  <2>1. [req[r] EXCEPT !.op = op, !.pc = "check", !.copy = cr, !.uid = s, !.blob = b] \in Request
    BY <1>r, <1>c, Names, ConstantTypes DEF Request
  <2>2. req' \in [Req -> Request]
    BY <1>3, <2>1, BecomeType, ConstantTypes DEF BeginStage, TypeOK
  <2> QED BY <1>3, <2>2, ConstantTypes DEF BeginStage, TypeOK
<1>4. ASSUME NEW r \in Req, NEW s \in Stage, BeginSourcePatch(r, s) PROVE TypeOK'
  <2>1. [req[r] EXCEPT !.op = "sourcepatch", !.pc = "repack", !.copy = cr, !.uid = s] \in Request
    BY <1>r, <1>c, Names, ConstantTypes DEF Request
  <2>2. req' \in [Req -> Request]
    BY <1>4, <2>1, BecomeType, ConstantTypes DEF BeginSourcePatch, TypeOK
  <2> QED BY <1>4, <2>2, ConstantTypes DEF BeginSourcePatch, TypeOK
<1>5. ASSUME NEW r \in Req, NEW s \in Stage \cup {None}, BeginDeploy(r, s) PROVE TypeOK'
  <2> DEFINE img == IF s = None THEN ExtImage ELSE ImageOf(s)
  <2>1. img \in Image /\ "deploy" \in AllOps /\ "image" \in PCs /\ 1 \in Nat
    BY ConstantTypes DEF AllOps, PCs
  <2> HIDE DEF img
  <2>2. [req[r] EXCEPT !.op = "deploy", !.pc = "image", !.copy = cr, !.uid = s,
                       !.img = img, !.tries = 1] \in Request
    <3>1. req[r] \in Request /\ cr \in CR
      BY <1>r, <1>c
    <3> QED BY <2>1, <3>1 DEF Request
  <2>3. req' \in [Req -> Request]
    <3>1. Become(r, [req[r] EXCEPT !.op = "deploy", !.pc = "image", !.copy = cr, !.uid = s,
                                   !.img = img, !.tries = 1])
      BY <1>5 DEF BeginDeploy, img
    <3>2. req \in [Req -> Request]
      BY DEF TypeOK
    <3> QED BY <2>2, <3>1, <3>2, BecomeType
  <2> QED BY <1>5, <2>3 DEF BeginDeploy, TypeOK
<1>6. ASSUME NEW r \in Req, BeginRedeploy(r) PROVE TypeOK'
  <2>1. [req[r] EXCEPT !.op = "redeploy", !.pc = "lookup"] \in Request
    BY <1>r, <1>c, Names, ConstantTypes DEF Request
  <2>2. req' \in [Req -> Request]
    BY <1>6, <2>1, BecomeType, ConstantTypes DEF BeginRedeploy, TypeOK
  <2> QED BY <1>6, <2>2, ConstantTypes DEF BeginRedeploy, TypeOK
<1>7. ASSUME NEW r \in Req, BeginRestart(r) PROVE TypeOK'
  <2> DEFINE pc == IF cr.stageid \in {None, cr.imageurl.tag} THEN "lookup" ELSE "get"
             img == IF cr.stageid \in {None, cr.imageurl.tag} THEN NoImage
                    ELSE [cr.imageurl EXCEPT !.tag = cr.stageid]
  <2>1. pc \in PCs
    BY DEF PCs
  <2>2. [cr.imageurl EXCEPT !.tag = cr.stageid] \in Image
    BY <1>c DEF Image
  <2>3. img \in Image
    BY <2>2, ConstantTypes
  <2> HIDE DEF pc, img
  <2>4. [req[r] EXCEPT !.op = "restart", !.pc = pc, !.img = img] \in Request
    <3>1. req[r] \in Request /\ "restart" \in AllOps
      BY <1>r DEF AllOps
    <3> QED BY <2>1, <2>3, <3>1 DEF Request
  <2>5. req' \in [Req -> Request]
    <3>1. Become(r, [req[r] EXCEPT !.op = "restart", !.pc = pc, !.img = img])
      BY <1>7 DEF BeginRestart, pc, img
    <3>2. req \in [Req -> Request]
      BY DEF TypeOK
    <3> QED BY <2>4, <3>1, <3>2, BecomeType
  <2> QED BY <1>7, <2>5 DEF BeginRestart, TypeOK
<1>8. ASSUME NEW r \in Req, NEW di \in BOOLEAN, BeginDelete(r, di) PROVE TypeOK'
  <2> DEFINE img == IF di THEN cr.imageurl ELSE NoImage
  <2>1. img \in Image /\ "delete" \in AllOps /\ "remove" \in PCs
    BY <1>c, ConstantTypes DEF AllOps, PCs
  <2> HIDE DEF img
  <2>2. [req[r] EXCEPT !.op = "delete", !.pc = "remove", !.img = img] \in Request
    BY <1>r, <2>1 DEF Request
  <2>3. req' \in [Req -> Request]
    BY <1>8, <2>2, BecomeType DEF BeginDelete, TypeOK, img
  <2> QED BY <1>8, <2>3 DEF BeginDelete, TypeOK
<1>9. ASSUME NEW r \in Req, CheckStaging(r) PROVE TypeOK'
  <2>1. [req[r] EXCEPT !.pc = "resolve"] \in Request
    BY <1>r, <1>c, Names, ConstantTypes DEF Request
  <2>2. req' \in [Req -> Request]
    BY <1>9, <2>1, BecomeType, ConstantTypes DEF CheckStaging, TypeOK, Goto, End
  <2> QED BY <1>9, <2>2, ConstantTypes DEF CheckStaging, TypeOK
<1>10. ASSUME NEW r \in Req, ResolveBlob(r) PROVE TypeOK'
  <2>1. WantedBlob(r) \in Blob \cup {None}
    BY <1>r DEF WantedBlob, Request, CR
  <2>2. ASSUME NEW b \in Blob, Assemble(r, b) PROVE req' \in [Req -> Request]
    BY <2>2, AssembleType DEF TypeOK
  <2>3. req' \in [Req -> Request] /\ store' \in [Blob -> {"none", "stored", "deleted"}]
    BY <1>10, <2>1, <2>2, BecomeType, ConstantTypes
    DEF ResolveBlob, AssembleNew, BlobThere, End, Stores, TypeOK
  <2> QED BY <1>10, <2>3 DEF ResolveBlob, TypeOK
<1>11. ASSUME NEW r \in Req, RepackBlob(r) PROVE TypeOK'
  <2>1. ASSUME NEW b \in Blob, Assemble(r, b) PROVE req' \in [Req -> Request]
    BY <2>1, AssembleType DEF TypeOK
  <2>2. req' \in [Req -> Request] /\ store' \in [Blob -> {"none", "stored", "deleted"}]
    BY <1>11, <2>1, BecomeType, ConstantTypes
    DEF RepackBlob, AssembleNew, End, Stores, TypeOK
  <2> QED BY <1>11, <2>2 DEF RepackBlob, TypeOK
<1>12. ASSUME NEW r \in Req, CreateJobEnv(r) PROVE TypeOK'
  <2>1. [req[r] EXCEPT !.pc = "job"] \in Request
    BY <1>r, <1>c, Names, ConstantTypes DEF Request
  <2>2. req' \in [Req -> Request]
    BY <1>12, <2>1, BecomeType, ConstantTypes DEF CreateJobEnv, TypeOK, Goto
  <2>3. req[r].uid \in Stage
    BY <1>12 DEF CreateJobEnv, PreparingInv, Preparing, At
  <2> QED BY <1>12, <2>2, <2>3 DEF CreateJobEnv, TypeOK
<1>13. ASSUME NEW r \in Req, CreateJob(r) PROVE TypeOK'
  <2>1. [req[r] EXCEPT !.pc = "patch", !.prev = None] \in Request
    BY <1>r, <1>c, Names, ConstantTypes DEF Request
  <2>2. req' \in [Req -> Request]
    BY <1>13, <2>1, BecomeType, ConstantTypes DEF CreateJob, TypeOK
  <2>3. [st |-> "pending", blob |-> req[r].blob, prev |-> req[r].prev] \in Job
    BY <1>r DEF Job, JobState
  <2>4. job' \in [Stage -> Job]
    BY <1>13, <2>3 DEF CreateJob, TypeOK
  <2> QED BY <1>13, <2>2, <2>4 DEF CreateJob, TypeOK
<1>14. ASSUME NEW r \in Req, PatchApp(r) PROVE TypeOK'
  <2>1. [req[r] EXCEPT !.pc = "await", !.blob = None] \in Request
    BY <1>r, <1>c, Names, ConstantTypes DEF Request
  <2>2. req' \in [Req -> Request]
    BY <1>14, <2>1, BecomeType, ConstantTypes DEF PatchApp, TypeOK, End
  <2>3. [cr EXCEPT !.stageid = req[r].uid, !.blobuid = req[r].blob] \in CR
    BY <1>r, <1>c DEF CR
  <2> QED BY <1>14, <2>2, <2>3 DEF PatchApp, WriteCR, TypeOK
<1>15. ASSUME NEW r \in Req, AwaitJob(r) PROVE TypeOK'
  <2>1. CASE End(r)
    BY <1>15, <2>1, BecomeType, ConstantTypes DEF AwaitJob, End, TypeOK
  <2>2. CASE Become(r, [req[r] EXCEPT !.pc = "get", !.img = ImageOf(req[r].uid)])
    <3>1. [req[r] EXCEPT !.pc = "get", !.img = ImageOf(req[r].uid)] \in Request
      BY <1>r, Names, ConstantTypes DEF Request
    <3>2. req' \in [Req -> Request]
      BY <2>2, <3>1, BecomeType DEF TypeOK
    <3> QED BY <1>15, <3>2 DEF AwaitJob, TypeOK
  <2> QED BY <1>15, <2>1, <2>2 DEF AwaitJob
<1>16. ASSUME NEW r \in Req, FetchApp(r) PROVE TypeOK'
  <2>1. [req[r] EXCEPT !.pc = "image", !.copy = cr, !.tries = 1] \in Request
    BY <1>r, <1>c, Names, ConstantTypes DEF Request
  <2>2. req' \in [Req -> Request]
    BY <1>16, <2>1, BecomeType, ConstantTypes DEF FetchApp, TypeOK, End
  <2> QED BY <1>16, <2>2, ConstantTypes DEF FetchApp, TypeOK
<1>17. ASSUME NEW r \in Req, UpdateImageURL(r) PROVE TypeOK'
  <2>1. [req[r] EXCEPT !.pc = "swap", !.copy = NoCR, !.tries = 0] \in Request
    BY <1>r, <1>c, Names, ConstantTypes DEF Request
  <2>2. [req[r] EXCEPT !.pc = "lookup", !.copy = NoCR, !.tries = 0, !.img = NoImage] \in Request
    BY <1>r, <1>c, Names, ConstantTypes DEF Request
  <2>3. [req[r] EXCEPT !.pc = "reget", !.copy = NoCR] \in Request
    BY <1>r, <1>c, Names, ConstantTypes DEF Request
  <2>4. req' \in [Req -> Request]
    BY <1>17, <2>1, <2>2, <2>3, BecomeType, ConstantTypes DEF UpdateImageURL, TypeOK, End
  <2>5. [req[r].copy EXCEPT !.imageurl = req[r].img] \in CR
    BY <1>r DEF CR
  <2> QED BY <1>17, <2>4, <2>5 DEF UpdateImageURL, TypeOK
<1>18. ASSUME NEW r \in Req, RefetchApp(r) PROVE TypeOK'
  <2>1. [req[r] EXCEPT !.pc = "image", !.copy = cr, !.tries = @ + 1] \in Request
    <3>1. req[r].tries + 1 \in Nat /\ "image" \in PCs
      BY <1>r DEF PCs
    <3> QED BY <1>r, <1>c, <3>1 DEF Request
  <2>2. req' \in [Req -> Request]
    BY <1>18, <2>1, BecomeType, ConstantTypes DEF RefetchApp, TypeOK, End
  <2> QED BY <1>18, <2>2, ConstantTypes DEF RefetchApp, TypeOK
<1>19. ASSUME NEW r \in Req, DeployRefused(r) PROVE TypeOK'
  <2>1. req' \in [Req -> Request]
    BY <1>19, BecomeType, ConstantTypes DEF DeployRefused, TypeOK, End
  <2> QED BY <1>19, <2>1, ConstantTypes DEF DeployRefused, TypeOK
<1>20. ASSUME NEW r \in Req, LookupApp(r) PROVE TypeOK'
  <2>1. [req[r] EXCEPT !.pc = "helm", !.uid = None, !.keep = cr.stageid,
                       !.img = cr.imageurl] \in Request
    BY <1>r, <1>c, Names DEF Request
  <2>2. req' \in [Req -> Request]
    BY <1>20, <2>1, BecomeType, ConstantTypes DEF LookupApp, TypeOK, End
  <2> QED BY <1>20, <2>2, ConstantTypes DEF LookupApp, TypeOK
<1>21. ASSUME NEW r \in Req, HelmDeploy(r) PROVE TypeOK'
  <2>1. [req[r] EXCEPT !.pc = "list", !.img = NoImage] \in Request
    BY <1>r, <1>c, Names, ConstantTypes DEF Request
  <2>2. [Idle EXCEPT !.op = req[r].op, !.pc = "origin"] \in Request
    BY <1>r, <1>c, Names, ConstantTypes DEF Request
  <2>3. req' \in [Req -> Request]
    BY <1>21, <2>1, <2>2, BecomeType, ConstantTypes DEF HelmDeploy, TypeOK, End, AfterDeploy
  <2>4. [exists |-> TRUE, stage |-> req[r].keep, image |-> req[r].img] \in Release
    BY <1>r DEF Release
  <2> QED BY <1>21, <2>3, <2>4 DEF HelmDeploy, TypeOK
<1>22. ASSUME NEW r \in Req, SwapPodImage(r) PROVE TypeOK'
  <2>1. req' \in [Req -> Request]
    BY <1>22, BecomeType, ConstantTypes DEF SwapPodImage, TypeOK, End
  <2>2. [release EXCEPT !.image = req[r].img] \in Release
    BY <1>r DEF TypeOK, Release
  <2> QED BY <1>22, <2>1, <2>2 DEF SwapPodImage, TypeOK
<1>23. ASSUME NEW r \in Req, SetOrigin(r) PROVE TypeOK'
  <2>1. req' \in [Req -> Request]
    BY <1>23, BecomeType, ConstantTypes DEF SetOrigin, TypeOK, End
  <2> QED BY <1>23, <2>1, ConstantTypes DEF SetOrigin, TypeOK, WriteCR, CR
<1>24. ASSUME NEW r \in Req, UnstageList(r) PROVE TypeOK'
  <2> DEFINE k == req[r].keep
             kept == IF k \in Listed THEN {job[k].blob} ELSE {}
             dead == {job[s].blob : s \in Listed} \ kept
             new == [req[r] EXCEPT !.pc = "unstage", !.ids = Listed \ {k}, !.dead = dead]
  <2>1. \A s \in Listed : job[s].blob \in Blob
    BY DEF Listed, BlobInv
  <2>2. dead \subseteq Blob /\ Listed \ {k} \subseteq Stage
    BY <2>1 DEF Listed
  <2> HIDE DEF k, kept, dead
  <2>3. new \in Request
    BY <1>r, <2>2, Names DEF Request
  <2>4. Become(r, new)
    BY <1>24 DEF UnstageList, k, kept, dead
  <2>5. req' \in [Req -> Request]
    BY <2>3, <2>4, BecomeType DEF TypeOK
  <2> QED BY <1>24, <2>5 DEF UnstageList, TypeOK
<1>25. ASSUME NEW r \in Req, NEW s \in Stage, UnstageJob(r, s) PROVE TypeOK'
  <2>1. [req[r] EXCEPT !.pc = "env", !.cur = s, !.ids = @ \ {s}] \in Request
    BY <1>r, <1>c, Names, ConstantTypes DEF Request
  <2>2. req' \in [Req -> Request]
    BY <1>25, <2>1, BecomeType, ConstantTypes DEF UnstageJob, TypeOK, End
  <2> QED BY <1>25, <2>2, ConstantTypes DEF UnstageJob, TypeOK, Job, JobState
<1>26. ASSUME NEW r \in Req, UnstageEnv(r) PROVE TypeOK'
  <2>1. [req[r] EXCEPT !.pc = "unstage", !.cur = None] \in Request
    BY <1>r, <1>c, Names, ConstantTypes DEF Request
  <2>2. req' \in [Req -> Request]
    BY <1>26, <2>1, BecomeType, ConstantTypes DEF UnstageEnv, TypeOK, End
  <2> QED BY <1>26, <2>2, ConstantTypes DEF UnstageEnv, TypeOK
<1>27. ASSUME NEW r \in Req, NEW b \in Blob, UnstageBlob(r, b) PROVE TypeOK'
  <2>1. [req[r] EXCEPT !.dead = @ \ {b}] \in Request
    BY <1>r, <1>c, Names, ConstantTypes DEF Request
  <2>2. req' \in [Req -> Request]
    BY <1>27, <2>1, BecomeType, ConstantTypes DEF UnstageBlob, TypeOK
  <2> QED BY <1>27, <2>2, ConstantTypes DEF UnstageBlob, TypeOK
<1>28. ASSUME NEW r \in Req, UnstageDone(r) PROVE TypeOK'
  <2>1. [Idle EXCEPT !.op = req[r].op, !.pc = "origin"] \in Request
    BY <1>r, <1>c, Names, ConstantTypes DEF Request
  <2>2. req' \in [Req -> Request]
    BY <1>28, <2>1, BecomeType, ConstantTypes DEF UnstageDone, TypeOK, End, AfterDeploy
  <2> QED BY <1>28, <2>2, ConstantTypes DEF UnstageDone, TypeOK
<1>29. ASSUME NEW r \in Req, RemoveRelease(r) PROVE TypeOK'
  <2>1. [req[r] EXCEPT !.pc = "delcr"] \in Request
    BY <1>r, <1>c, Names, ConstantTypes DEF Request
  <2>2. req' \in [Req -> Request]
    BY <1>29, <2>1, BecomeType, ConstantTypes DEF RemoveRelease, TypeOK, Goto
  <2> QED BY <1>29, <2>2, ConstantTypes DEF RemoveRelease, TypeOK, Release
<1>30. ASSUME NEW r \in Req, DeleteCR(r) PROVE TypeOK'
  <2>1. [req[r] EXCEPT !.pc = "list"] \in Request /\ [req[r] EXCEPT !.pc = "delimage"] \in Request
    BY <1>r, Names DEF Request
  <2>2. req' \in [Req -> Request]
    BY <1>30, <2>1, BecomeType, ConstantTypes DEF DeleteCR, Goto, End, TypeOK
  <2> QED BY <1>30, <2>2, ConstantTypes DEF DeleteCR, WriteCR, TypeOK
<1>31. ASSUME NEW r \in Req, DeleteImage(r) PROVE TypeOK'
  <2>1. [req[r] EXCEPT !.pc = "list", !.img = NoImage] \in Request
    BY <1>r, <1>c, Names, ConstantTypes DEF Request
  <2>2. req' \in [Req -> Request]
    BY <1>31, <2>1, BecomeType, ConstantTypes DEF DeleteImage, TypeOK
  <2> QED BY <1>31, <2>2, ConstantTypes DEF DeleteImage, TypeOK
<1>32. ASSUME NEW s \in Stage, JobDownloads(s) PROVE TypeOK'
  BY <1>32, ConstantTypes DEF JobDownloads, TypeOK, Job, JobState
<1>33. ASSUME NEW s \in Stage, JobCompletes(s) PROVE TypeOK'
  BY <1>33, ConstantTypes DEF JobCompletes, TypeOK, Job, JobState
<1>34. ASSUME NEW s \in Stage, JobFails(s) PROVE TypeOK'
  BY <1>34, ConstantTypes DEF JobFails, TypeOK, Job, JobState
<1>35. ASSUME NEW s \in Stage, JobExpires(s) PROVE TypeOK'
  BY <1>35, ConstantTypes DEF JobExpires, TypeOK, Job, JobState
<1>36. ASSUME NEW r \in Req, Fail(r) PROVE TypeOK'
  <2>1. req' \in [Req -> Request]
    BY <1>36, BecomeType, ConstantTypes DEF Fail, TypeOK, End
  <2> QED BY <1>36, <2>1, ConstantTypes DEF Fail, TypeOK
<1>37. CASE UNCHANGED vars
  BY <1>37 DEF vars, TypeOK
<1> QED BY <1>1, <1>2, <1>3, <1>4, <1>5, <1>6, <1>7, <1>8, <1>9, <1>10, <1>11, <1>12,
       <1>13, <1>14, <1>15, <1>16, <1>17, <1>18, <1>19, <1>20, <1>21, <1>22, <1>23,
       <1>24, <1>25, <1>26, <1>27, <1>28, <1>29, <1>30, <1>31, <1>32, <1>33, <1>34,
       <1>35, <1>36, <1>37
   DEF Next, Begin, Proceed, Kubernetes

-----------------------------------------------------------------------------
(* Staging resources *)

StagingInv ==
  /\ BlobInv /\ PreparingInv /\ UnstagingInv /\ PatchInv
  /\ JobHasEnv /\ UnstageFindsEnv

\* The points at which StagingInv says something of a request.
Involved == {"check", "resolve", "repack", "secret", "job", "patch", "env"}

\* A request that goes on to another point, and touches neither jobs nor secrets.
LEMMA Uninvolved ==
  ASSUME TypeOK, StagingInv, UNCHANGED <<job, jobenv>>,
         NEW r \in Req, NEW new, Become(r, new), new.pc \notin Involved
  PROVE  StagingInv'
<1>1. \A q \in Req : req'[q] = IF q = r THEN new ELSE req[q]
  BY DEF Become, TypeOK
<1>2. \A q \in Req : req'[q].pc \in Involved => req'[q] = req[q] /\ q # r
  BY <1>1
<1>3. BlobInv'
  BY <1>2 DEF StagingInv, BlobInv, Involved
<1>4. PreparingInv'
  BY <1>2 DEF StagingInv, PreparingInv, Preparing, At, Involved
<1>5. UnstagingInv'
  BY <1>2 DEF StagingInv, UnstagingInv, At, Involved
<1>6. PatchInv'
  BY <1>2 DEF StagingInv, PatchInv, At, Involved
<1>7. JobHasEnv'
  BY DEF StagingInv, JobHasEnv, Listed
<1>8. UnstageFindsEnv'
  BY <1>2 DEF StagingInv, UnstageFindsEnv, At, Involved
<1> QED BY <1>3, <1>4, <1>5, <1>6, <1>7, <1>8 DEF StagingInv

\* A request that goes on preparing its job, or begins to with an unused stage id.
LEMMA Prepares ==
  ASSUME TypeOK, StagingInv, UNCHANGED <<job, jobenv>>,
         NEW r \in Req, NEW new, Become(r, new),
         new.pc \in {"check", "resolve", "repack", "secret"},
         new.pc = "secret" => new.blob \in Blob,
         new.uid \in Stage,
         (Preparing(r) /\ new.uid = req[r].uid) \/ FreshStage(new.uid)
  PROVE  StagingInv'
<1>1. \A q \in Req : req'[q] = IF q = r THEN new ELSE req[q]
  BY DEF Become, TypeOK
<1>2. job[new.uid].st = "none" /\ \A q \in Req : q # r /\ Preparing(q) => req[q].uid # new.uid
  BY DEF StagingInv, PreparingInv, FreshStage
<1>3. BlobInv'
  BY <1>1 DEF StagingInv, BlobInv
<1>4. PreparingInv'
  <2>1. \A q \in Req : Preparing(q)' =>
          /\ req'[q].uid \in Stage /\ job'[req'[q].uid].st = "none"
          /\ At(q, "job")' => req'[q].uid \in jobenv'
    BY <1>1, <1>2 DEF StagingInv, PreparingInv, Preparing, At
  <2>2. ASSUME NEW p \in Req, NEW q \in Req, Preparing(p)', Preparing(q)',
               req'[p].uid = req'[q].uid
        PROVE  p = q
    BY <1>1, <1>2, <2>2 DEF StagingInv, PreparingInv, Preparing
  <2> QED BY <2>1, <2>2 DEF PreparingInv
<1>5. UnstagingInv'
  BY <1>1 DEF StagingInv, UnstagingInv, At
<1>6. PatchInv'
  BY <1>1 DEF StagingInv, PatchInv, At
<1>7. JobHasEnv'
  BY DEF StagingInv, JobHasEnv, Listed
<1>8. UnstageFindsEnv'
  BY <1>1 DEF StagingInv, UnstageFindsEnv, At
<1> QED BY <1>3, <1>4, <1>5, <1>6, <1>7, <1>8 DEF StagingInv

\* A job moves on, and is still there, or expires.
LEMMA JobMoves ==
  ASSUME TypeOK, StagingInv, UNCHANGED <<jobenv, req>>,
         NEW s \in Stage, NEW st \in {"building", "complete", "failed", "gone"},
         s \in Listed, job' = [job EXCEPT ![s].st = st]
  PROVE  StagingInv'
<1>1. \A t \in Stage :
        /\ job'[t].st = IF t = s THEN st ELSE job[t].st
        /\ job'[t].blob = job[t].blob
  BY DEF TypeOK, Job
<1>2. job[s].st \notin {"none", "gone"} /\ s \in jobenv
  BY DEF Listed, StagingInv, JobHasEnv
<1>3. BlobInv'
  BY <1>1, <1>2 DEF StagingInv, BlobInv
<1>4. PreparingInv'
  BY <1>1, <1>2 DEF StagingInv, PreparingInv, Preparing, At
<1>5. UnstagingInv'
  BY <1>1, <1>2 DEF StagingInv, UnstagingInv, At
<1>6. PatchInv'
  BY <1>1, <1>2 DEF StagingInv, PatchInv, At
<1>7. JobHasEnv'
  BY <1>1, <1>2 DEF StagingInv, JobHasEnv, Listed
<1>8. UnstageFindsEnv'
  BY DEF StagingInv, UnstageFindsEnv, At
<1> QED BY <1>3, <1>4, <1>5, <1>6, <1>7, <1>8 DEF StagingInv

\* A step that touches neither requests nor jobs nor secrets.
LEMMA Unaffected ==
  ASSUME StagingInv, UNCHANGED <<job, jobenv, req>>
  PROVE  StagingInv'
BY DEF StagingInv, BlobInv, PreparingInv, Preparing, UnstagingInv, PatchInv, JobHasEnv,
       UnstageFindsEnv, Listed, At

\* A request that has its blob and goes on to create the secret.
LEMMA Assembles ==
  ASSUME TypeOK, StagingInv, UNCHANGED <<job, jobenv>>,
         NEW r \in Req, NEW b \in Blob, Preparing(r), Assemble(r, b)
  PROVE  StagingInv'
<1> DEFINE new == [req[r] EXCEPT !.pc = "secret", !.blob = b, !.copy = NoCR,
                     !.prev = IF req[r].copy.stageid = None THEN req[r].uid
                              ELSE req[r].copy.stageid]
<1>1. req[r] \in Request
  BY DEF TypeOK
<1>2. new.pc = "secret" /\ new.uid = req[r].uid /\ new.blob = b
  BY <1>1 DEF Request
<1>3. Become(r, new)
  BY DEF Assemble
<1>4. req[r].uid \in Stage
  BY DEF StagingInv, PreparingInv
<1> HIDE DEF new
<1> QED BY <1>2, <1>3, <1>4, Prepares

\* Every step keeps the invariant of the staging resources.
LEMMA StagingStep == TypeOK /\ StagingInv /\ [Next]_vars => StagingInv'
<1> SUFFICES ASSUME TypeOK, StagingInv, [Next]_vars PROVE StagingInv'
  OBVIOUS
<1>r. req \in [Req -> Request] /\ \A r \in Req : req[r] \in Request
  BY DEF TypeOK
<1>i. Idle.pc \notin Involved
  BY DEF Idle, Involved
<1>1. ASSUME CreateApp PROVE StagingInv'
  BY <1>1, Unaffected DEF CreateApp
<1>2. ASSUME NEW b \in Blob, Upload(b) PROVE StagingInv'
  BY <1>2, Unaffected DEF Upload
<1>3. ASSUME NEW r \in Req, NEW op \in {"stage", "push"},
           NEW s \in Stage, NEW b \in Blob \cup {None}, BeginStage(r, op, s, b) PROVE StagingInv'
  <2> DEFINE new == [req[r] EXCEPT !.op = op, !.pc = "check", !.copy = cr, !.uid = s, !.blob = b]
  <2>1. new.pc = "check" /\ new.uid = s
    BY <1>r DEF Request
  <2>2. Become(r, new) /\ FreshStage(s) /\ UNCHANGED <<job, jobenv>>
    BY <1>3 DEF BeginStage
  <2> HIDE DEF new
  <2> QED BY <2>1, <2>2, Prepares
<1>4. ASSUME NEW r \in Req, NEW s \in Stage, BeginSourcePatch(r, s) PROVE StagingInv'
  <2> DEFINE new == [req[r] EXCEPT !.op = "sourcepatch", !.pc = "repack", !.copy = cr, !.uid = s]
  <2>1. new.pc = "repack" /\ new.uid = s
    BY <1>r DEF Request
  <2>2. Become(r, new) /\ FreshStage(s) /\ UNCHANGED <<job, jobenv>>
    BY <1>4 DEF BeginSourcePatch
  <2> HIDE DEF new
  <2> QED BY <2>1, <2>2, Prepares
<1>5. ASSUME NEW r \in Req, NEW s \in Stage \cup {None}, BeginDeploy(r, s) PROVE StagingInv'
  <2>1. [req[r] EXCEPT !.op = "deploy", !.pc = "image", !.copy = cr, !.uid = s,
                       !.img = IF s = None THEN ExtImage ELSE ImageOf(s), !.tries = 1].pc \notin Involved
    BY <1>5, <1>r DEF Request, Involved
  <2> QED BY <1>5, <1>i, <2>1, Uninvolved DEF BeginDeploy
<1>6. ASSUME NEW r \in Req, BeginRedeploy(r) PROVE StagingInv'
  <2>1. [req[r] EXCEPT !.op = "redeploy", !.pc = "lookup"].pc \notin Involved
    BY <1>6, <1>r DEF Request, Involved
  <2> QED BY <1>6, <1>i, <2>1, Uninvolved DEF BeginRedeploy
<1>7. ASSUME NEW r \in Req, BeginRestart(r) PROVE StagingInv'
  <2>1. [req[r] EXCEPT !.op = "restart",
             !.pc = IF cr.stageid \in {None, cr.imageurl.tag} THEN "lookup" ELSE "get",
             !.img = IF cr.stageid \in {None, cr.imageurl.tag} THEN NoImage
                     ELSE [cr.imageurl EXCEPT !.tag = cr.stageid]].pc \notin Involved
    BY <1>7, <1>r DEF Request, Involved
  <2> QED BY <1>7, <1>i, <2>1, Uninvolved DEF BeginRestart
<1>8. ASSUME NEW r \in Req, NEW di \in BOOLEAN, BeginDelete(r, di) PROVE StagingInv'
  <2>1. [req[r] EXCEPT !.op = "delete", !.pc = "remove",
             !.img = IF di THEN cr.imageurl ELSE NoImage].pc \notin Involved
    BY <1>8, <1>r DEF Request, Involved
  <2> QED BY <1>8, <1>i, <2>1, Uninvolved DEF BeginDelete
<1>9. ASSUME NEW r \in Req, CheckStaging(r) PROVE StagingInv'
  <2> DEFINE new == [req[r] EXCEPT !.pc = "resolve"]
  <2>1. new.pc = "resolve" /\ new.uid = req[r].uid
    BY <1>r DEF Request
  <2>2. Preparing(r) /\ UNCHANGED <<job, jobenv>> /\ (Become(r, new) \/ Become(r, Idle))
    BY <1>9 DEF CheckStaging, Preparing, At, Goto, End
  <2>3. req[r].uid \in Stage
    BY <2>2 DEF StagingInv, PreparingInv
  <2> HIDE DEF new
  <2> QED BY <1>i, <2>1, <2>2, <2>3, Prepares, Uninvolved
<1>10. ASSUME NEW r \in Req, ResolveBlob(r) PROVE StagingInv'
  <2>1. Preparing(r) /\ UNCHANGED <<job, jobenv>>
    BY <1>10 DEF ResolveBlob, Preparing, At
  <2>2. Become(r, Idle) \/ \E b \in Blob : Assemble(r, b)
    <3>1. WantedBlob(r) \in Blob \cup {None}
      BY <1>r DEF WantedBlob, Request, CR
    <3> QED BY <1>10, <3>1 DEF ResolveBlob, BlobThere, AssembleNew, End
  <2> QED BY <1>i, <2>1, <2>2, Uninvolved, Assembles
<1>11. ASSUME NEW r \in Req, RepackBlob(r) PROVE StagingInv'
  <2>1. Preparing(r) /\ UNCHANGED <<job, jobenv>>
    BY <1>11 DEF RepackBlob, Preparing, At
  <2>2. Become(r, Idle) \/ \E b \in Blob : Assemble(r, b)
    BY <1>11 DEF RepackBlob, AssembleNew, End
  <2> QED BY <1>i, <2>1, <2>2, Uninvolved, Assembles
<1>12. ASSUME NEW r \in Req, CreateJobEnv(r) PROVE StagingInv'
  <2> DEFINE new == [req[r] EXCEPT !.pc = "job"]
  <2>1. new.pc = "job" /\ new.uid = req[r].uid /\ new.blob = req[r].blob
    BY <1>r DEF Request
  <2>2. \A q \in Req : req'[q] = IF q = r THEN new ELSE req[q]
    BY <1>12, <1>r DEF CreateJobEnv, Goto, Become
  <2> HIDE DEF new
  <2>3. /\ Preparing(r) /\ req[r].pc = "secret" /\ UNCHANGED job
        /\ jobenv' = jobenv \cup {req[r].uid}
    BY <1>12 DEF CreateJobEnv, Preparing, At
  <2>4. BlobInv'
    BY <2>1, <2>2, <2>3 DEF StagingInv, BlobInv
  <2>5. PreparingInv'
    BY <2>1, <2>2, <2>3 DEF StagingInv, PreparingInv, Preparing, At
  <2>6. UnstagingInv'
    BY <2>1, <2>2, <2>3 DEF StagingInv, UnstagingInv, At
  <2>7. PatchInv'
    BY <2>1, <2>2, <2>3 DEF StagingInv, PatchInv, At
  <2>8. JobHasEnv'
    BY <2>3 DEF StagingInv, JobHasEnv, Listed
  <2>9. UnstageFindsEnv'
    BY <2>1, <2>2, <2>3 DEF StagingInv, UnstageFindsEnv, At
  <2> QED BY <2>4, <2>5, <2>6, <2>7, <2>8, <2>9 DEF StagingInv
<1>13. ASSUME NEW r \in Req, CreateJob(r) PROVE StagingInv'
  <2> DEFINE new == [req[r] EXCEPT !.pc = "patch", !.prev = None]
             id == req[r].uid
  <2>1. new.pc = "patch" /\ new.uid = id /\ new.blob = req[r].blob
    BY <1>r DEF Request
  <2>2. \A q \in Req : req'[q] = IF q = r THEN new ELSE req[q]
    BY <1>13, <1>r DEF CreateJob, Become
  <2> HIDE DEF new
  <2>3. /\ Preparing(r) /\ id \in Stage /\ job[id].st = "none" /\ id \in jobenv
        /\ req[r].blob \in Blob /\ UNCHANGED jobenv
    BY <1>13 DEF CreateJob, StagingInv, BlobInv, PreparingInv, Preparing, At
  <2>4. \A s \in Stage :
          /\ job'[s].st = IF s = id THEN "pending" ELSE job[s].st
          /\ job'[s].blob = IF s = id THEN req[r].blob ELSE job[s].blob
    BY <1>13, <2>3 DEF CreateJob, TypeOK
  <2>5. BlobInv'
    BY <2>1, <2>2, <2>3, <2>4 DEF StagingInv, BlobInv
  <2>6. PreparingInv'
    BY <2>1, <2>2, <2>3, <2>4 DEF StagingInv, PreparingInv, Preparing, At
  <2>7. UnstagingInv'
    BY <2>1, <2>2, <2>3, <2>4 DEF StagingInv, UnstagingInv, At
  <2>8. PatchInv'
    BY <2>1, <2>2, <2>3, <2>4 DEF StagingInv, PatchInv, At
  <2>9. JobHasEnv'
    BY <2>3, <2>4 DEF StagingInv, JobHasEnv, Listed
  <2>10. UnstageFindsEnv'
    BY <2>1, <2>2, <2>3 DEF StagingInv, UnstageFindsEnv, At
  <2> QED BY <2>5, <2>6, <2>7, <2>8, <2>9, <2>10 DEF StagingInv
<1>14. ASSUME NEW r \in Req, PatchApp(r) PROVE StagingInv'
  <2>1. [req[r] EXCEPT !.pc = "await", !.blob = None].pc \notin Involved
    BY <1>14, <1>r DEF Request, Involved
  <2> QED BY <1>14, <1>i, <2>1, Uninvolved DEF PatchApp, End
<1>15. ASSUME NEW r \in Req, AwaitJob(r) PROVE StagingInv'
  <2>1. [req[r] EXCEPT !.pc = "get", !.img = ImageOf(req[r].uid)].pc \notin Involved
    BY <1>15, <1>r DEF Request, Involved
  <2> QED BY <1>15, <1>i, <2>1, Uninvolved DEF AwaitJob, End
<1>16. ASSUME NEW r \in Req, FetchApp(r) PROVE StagingInv'
  <2>1. [req[r] EXCEPT !.pc = "image", !.copy = cr, !.tries = 1].pc \notin Involved
    BY <1>16, <1>r DEF Request, Involved
  <2> QED BY <1>16, <1>i, <2>1, Uninvolved DEF FetchApp, End
<1>17. ASSUME NEW r \in Req, UpdateImageURL(r) PROVE StagingInv'
  <2>1. [req[r] EXCEPT !.pc = "swap", !.copy = NoCR, !.tries = 0].pc \notin Involved
    BY <1>17, <1>r DEF Request, Involved
  <2>2. [req[r] EXCEPT !.pc = "lookup", !.copy = NoCR, !.tries = 0, !.img = NoImage].pc \notin Involved
    BY <1>17, <1>r DEF Request, Involved
  <2>3. [req[r] EXCEPT !.pc = "reget", !.copy = NoCR].pc \notin Involved
    BY <1>17, <1>r DEF Request, Involved
  <2> QED BY <1>17, <1>i, <2>1, <2>2, <2>3, Uninvolved DEF UpdateImageURL, End
<1>18. ASSUME NEW r \in Req, RefetchApp(r) PROVE StagingInv'
  <2>1. [req[r] EXCEPT !.pc = "image", !.copy = cr, !.tries = @ + 1].pc \notin Involved
    BY <1>18, <1>r DEF Request, Involved
  <2> QED BY <1>18, <1>i, <2>1, Uninvolved DEF RefetchApp, End
<1>19. ASSUME NEW r \in Req, DeployRefused(r) PROVE StagingInv'
  <2> QED BY <1>19, <1>i, Uninvolved DEF DeployRefused, End
<1>20. ASSUME NEW r \in Req, LookupApp(r) PROVE StagingInv'
  <2>1. [req[r] EXCEPT !.pc = "helm", !.uid = None, !.keep = cr.stageid,
                       !.img = cr.imageurl].pc \notin Involved
    BY <1>20, <1>r DEF Request, Involved
  <2> QED BY <1>20, <1>i, <2>1, Uninvolved DEF LookupApp, End
<1>21. ASSUME NEW r \in Req, HelmDeploy(r) PROVE StagingInv'
  <2>1. [req[r] EXCEPT !.pc = "list", !.img = NoImage].pc \notin Involved
    BY <1>21, <1>r DEF Request, Involved
  <2>2. [Idle EXCEPT !.op = req[r].op, !.pc = "origin"].pc \notin Involved
    BY <1>21, <1>r DEF Request, Idle, Involved
  <2> QED BY <1>21, <1>i, <2>1, <2>2, Uninvolved DEF HelmDeploy, End, AfterDeploy
<1>22. ASSUME NEW r \in Req, SwapPodImage(r) PROVE StagingInv'
  <2> QED BY <1>22, <1>i, Uninvolved DEF SwapPodImage, End
<1>23. ASSUME NEW r \in Req, SetOrigin(r) PROVE StagingInv'
  <2> QED BY <1>23, <1>i, Uninvolved DEF SetOrigin, End
<1>24. ASSUME NEW r \in Req, UnstageList(r) PROVE StagingInv'
  <2> DEFINE kept == IF req[r].keep \in Listed THEN {job[req[r].keep].blob} ELSE {}
             new == [req[r] EXCEPT !.pc = "unstage", !.ids = Listed \ {req[r].keep},
                       !.dead = {job[s].blob : s \in Listed} \ kept]
  <2>1. new.pc \notin Involved
    BY <1>r DEF Request, Involved
  <2>2. Become(r, new) /\ UNCHANGED <<job, jobenv>>
    BY <1>24 DEF UnstageList
  <2> HIDE DEF new
  <2> QED BY <2>1, <2>2, Uninvolved
<1>25. ASSUME NEW r \in Req, NEW s \in Stage, UnstageJob(r, s) PROVE StagingInv'
  <2>1. CASE s \notin Listed
    BY <1>25, <1>i, <2>1, Uninvolved DEF UnstageJob, End
  <2>2. CASE s \in Listed
    <3> DEFINE new == [req[r] EXCEPT !.pc = "env", !.cur = s, !.ids = @ \ {s}]
    <3>1. new.pc = "env" /\ new.cur = s
      BY <1>r DEF Request
    <3>2. \A q \in Req : req'[q] = IF q = r THEN new ELSE req[q]
      BY <1>25, <1>r, <2>2 DEF UnstageJob, Become
    <3> HIDE DEF new
    <3>3. /\ s \in jobenv /\ job[s].st \notin {"none", "gone"} /\ UNCHANGED jobenv
      BY <1>25, <2>2 DEF UnstageJob, StagingInv, JobHasEnv, Listed
    <3>4. \A t \in Stage :
            /\ job'[t].st = IF t = s THEN "gone" ELSE job[t].st
            /\ job'[t].blob = job[t].blob
      BY <1>25, <2>2 DEF UnstageJob, TypeOK, Job
    <3>5. BlobInv'
      BY <3>1, <3>2, <3>3, <3>4 DEF StagingInv, BlobInv
    <3>6. PreparingInv'
      BY <3>1, <3>2, <3>3, <3>4 DEF StagingInv, PreparingInv, Preparing, At
    <3>7. UnstagingInv'
      BY <3>1, <3>2, <3>3, <3>4 DEF StagingInv, UnstagingInv, At
    <3>8. PatchInv'
      BY <3>1, <3>2, <3>3, <3>4 DEF StagingInv, PatchInv, At
    <3>9. JobHasEnv'
      BY <3>3, <3>4 DEF StagingInv, JobHasEnv, Listed
    <3>10. UnstageFindsEnv'
      \* No other request is about to delete the secret: its job was still listed.
      BY <3>1, <3>2, <3>3 DEF StagingInv, UnstagingInv, UnstageFindsEnv, At
    <3> QED BY <3>5, <3>6, <3>7, <3>8, <3>9, <3>10 DEF StagingInv
  <2> QED BY <2>1, <2>2
<1>26. ASSUME NEW r \in Req, UnstageEnv(r) PROVE StagingInv'
  <2> DEFINE new == [req[r] EXCEPT !.pc = "unstage", !.cur = None]
             id == req[r].cur
  <2>1. new.pc = "unstage"
    BY <1>r DEF Request
  <2>2. id \in Stage /\ id \in jobenv /\ job[id].st = "gone"
    BY <1>26 DEF UnstageEnv, StagingInv, UnstagingInv, UnstageFindsEnv
  <2>3. \A q \in Req : req'[q] = IF q = r THEN new ELSE req[q]
    BY <1>26, <1>r, <2>2 DEF UnstageEnv, Become
  <2> HIDE DEF new
  <2>4. jobenv' = jobenv \ {id} /\ UNCHANGED job /\ req[r].pc = "env"
    BY <1>26, <2>2 DEF UnstageEnv, At
  <2>5. BlobInv'
    BY <2>1, <2>3, <2>4 DEF StagingInv, BlobInv
  <2>6. PreparingInv'
    BY <2>1, <2>2, <2>3, <2>4 DEF StagingInv, PreparingInv, Preparing, At
  <2>7. UnstagingInv'
    BY <2>1, <2>3, <2>4 DEF StagingInv, UnstagingInv, At
  <2>8. PatchInv'
    BY <2>1, <2>3, <2>4 DEF StagingInv, PatchInv, At
  <2>9. JobHasEnv'
    BY <2>2, <2>4 DEF StagingInv, JobHasEnv, Listed
  <2>10. UnstageFindsEnv'
    BY <2>1, <2>2, <2>3, <2>4 DEF StagingInv, UnstageFindsEnv, At
  <2> QED BY <2>5, <2>6, <2>7, <2>8, <2>9, <2>10 DEF StagingInv
<1>27. ASSUME NEW r \in Req, NEW b \in Blob, UnstageBlob(r, b) PROVE StagingInv'
  <2>1. [req[r] EXCEPT !.dead = @ \ {b}].pc \notin Involved
    BY <1>27, <1>r DEF UnstageBlob, At, Request, Involved
  <2> QED BY <1>27, <1>i, <2>1, Uninvolved DEF UnstageBlob
<1>28. ASSUME NEW r \in Req, UnstageDone(r) PROVE StagingInv'
  <2>1. [Idle EXCEPT !.op = req[r].op, !.pc = "origin"].pc \notin Involved
    BY <1>28, <1>r DEF Request, Idle, Involved
  <2> QED BY <1>28, <1>i, <2>1, Uninvolved DEF UnstageDone, End, AfterDeploy
<1>29. ASSUME NEW r \in Req, RemoveRelease(r) PROVE StagingInv'
  <2>1. [req[r] EXCEPT !.pc = "delcr"].pc \notin Involved
    BY <1>29, <1>r DEF Request, Involved
  <2> QED BY <1>29, <1>i, <2>1, Uninvolved DEF RemoveRelease, Goto
<1>30. ASSUME NEW r \in Req, DeleteCR(r) PROVE StagingInv'
  <2>1. [req[r] EXCEPT !.pc = IF req[r].img = NoImage THEN "list" ELSE "delimage"].pc \notin Involved
    BY <1>30, <1>r DEF Request, Involved
  <2> QED BY <1>30, <1>i, <2>1, Uninvolved DEF DeleteCR, Goto, End
<1>31. ASSUME NEW r \in Req, DeleteImage(r) PROVE StagingInv'
  <2>1. [req[r] EXCEPT !.pc = "list", !.img = NoImage].pc \notin Involved
    BY <1>31, <1>r DEF Request, Involved
  <2> QED BY <1>31, <1>i, <2>1, Uninvolved DEF DeleteImage
<1>32. ASSUME NEW s \in Stage, JobDownloads(s) PROVE StagingInv'
  BY <1>32, JobMoves DEF JobDownloads, Listed
<1>33. ASSUME NEW s \in Stage, JobCompletes(s) PROVE StagingInv'
  BY <1>33, JobMoves DEF JobCompletes, Listed
<1>34. ASSUME NEW s \in Stage, JobFails(s) PROVE StagingInv'
  BY <1>34, JobMoves DEF JobFails, Active, Listed
<1>35. ASSUME NEW s \in Stage, JobExpires(s) PROVE StagingInv'
  BY <1>35, JobMoves DEF JobExpires, Finished, Listed
<1>36. ASSUME NEW r \in Req, Fail(r) PROVE StagingInv'
  <2> QED BY <1>36, <1>i, Uninvolved DEF Fail, End
<1>37. CASE UNCHANGED vars
  BY <1>37, Unaffected DEF vars
<1> QED BY <1>1, <1>2, <1>3, <1>4, <1>5, <1>6, <1>7, <1>8, <1>9, <1>10, <1>11, <1>12,
       <1>13, <1>14, <1>15, <1>16, <1>17, <1>18, <1>19, <1>20, <1>21, <1>22, <1>23,
       <1>24, <1>25, <1>26, <1>27, <1>28, <1>29, <1>30, <1>31, <1>32, <1>33, <1>34,
       <1>35, <1>36, <1>37
   DEF Next, Begin, Proceed, Kubernetes

-----------------------------------------------------------------------------
(* The application resource *)

AttemptInv == CopyInv /\ CRNamesOneAttempt

\* The recorded attempt keeps its job: jobs are not created twice, and their blob
\* does not change.
JobsKept == \A s \in Stage : job[s].st # "none" =>
              job'[s].st # "none" /\ job'[s].blob = job[s].blob

\* A step that does not write the CR, in which a request may read it.
LEMMA Aside ==
  ASSUME TypeOK, AttemptInv, UNCHANGED cr, JobsKept,
         \A r \in Req : r \in stale /\ req'[r] = req[r] => r \in stale',
         \A r \in Req : req'[r].pc = "image" => req'[r] = req[r] \/ req'[r].copy = cr
  PROVE  AttemptInv'
<1>1. CopyInv'
  BY DEF AttemptInv, CopyInv, At
<1>2. CRNamesOneAttempt'
  BY DEF AttemptInv, CRNamesOneAttempt, TypeOK, CR, JobsKept
<1> QED BY <1>1, <1>2 DEF AttemptInv

\* ... and in particular one that moves a single request.
LEMMA AsideRequest ==
  ASSUME TypeOK, AttemptInv, UNCHANGED <<cr, stale, job>>,
         NEW r \in Req, NEW new, Become(r, new),
         new.pc # "image" \/ new.copy = cr
  PROVE  AttemptInv'
<1>1. \A q \in Req : req'[q] = IF q = r THEN new ELSE req[q]
  BY DEF Become, TypeOK
<1>2. JobsKept
  BY DEF JobsKept
<1> QED BY <1>1, <1>2, Aside

\* A step that writes the CR, and in which no request reads it.
LEMMA Writes ==
  ASSUME TypeOK, NEW new, WriteCR(new),
         \A r \in Req : req'[r].pc = "image" => req[r].pc = "image",
         CRNamesOneAttempt'
  PROVE  AttemptInv'
<1>1. CopyInv'
  BY DEF WriteCR, CopyInv, At
<1> QED BY <1>1 DEF AttemptInv

\* Every step keeps the CR naming one attempt, and unstale copies equal to it.
LEMMA AttemptStep == TypeOK /\ StagingInv /\ AttemptInv /\ [Next]_vars => AttemptInv'
<1> SUFFICES ASSUME TypeOK, StagingInv, AttemptInv, [Next]_vars PROVE AttemptInv'
  OBVIOUS
<1>r. req \in [Req -> Request] /\ \A r \in Req : req[r] \in Request
  BY DEF TypeOK
<1>i. Idle.pc # "image"
  BY DEF Idle
<1>a. ASSUME NEW r \in Req, NEW b \in Blob \cup {None}, Assemble(r, b)
      PROVE  \E new : Become(r, new) /\ new.pc # "image"
  <2>1. [req[r] EXCEPT !.pc = "secret", !.blob = b, !.copy = NoCR,
           !.prev = IF req[r].copy.stageid = None THEN req[r].uid
                    ELSE req[r].copy.stageid].pc = "secret"
    BY <1>r DEF Request
  <2> QED BY <1>a, <2>1 DEF Assemble
<1>1. ASSUME CreateApp PROVE AttemptInv'
  <2>1. CRNamesOneAttempt'
    BY <1>1 DEF CreateApp, WriteCR, NoCR, CRNamesOneAttempt
  <2> QED BY <1>1, <2>1, Writes DEF CreateApp
<1>2. ASSUME NEW b \in Blob, Upload(b) PROVE AttemptInv'
  BY <1>2, Aside DEF Upload, JobsKept
<1>3. ASSUME NEW r \in Req, NEW op \in {"stage", "push"},
           NEW s \in Stage, NEW b \in Blob \cup {None}, BeginStage(r, op, s, b) PROVE AttemptInv'
  <2>1. [req[r] EXCEPT !.op = op, !.pc = "check", !.copy = cr, !.uid = s, !.blob = b].pc # "image"
    BY <1>r DEF Request
  <2> QED BY <1>3, <1>i, <2>1, AsideRequest DEF BeginStage
<1>4. ASSUME NEW r \in Req, NEW s \in Stage, BeginSourcePatch(r, s) PROVE AttemptInv'
  <2>1. [req[r] EXCEPT !.op = "sourcepatch", !.pc = "repack", !.copy = cr, !.uid = s].pc # "image"
    BY <1>r DEF Request
  <2> QED BY <1>4, <1>i, <2>1, AsideRequest DEF BeginSourcePatch
<1>5. ASSUME NEW r \in Req, NEW s \in Stage \cup {None}, BeginDeploy(r, s) PROVE AttemptInv'
  <2>1. [req[r] EXCEPT !.op = "deploy", !.pc = "image", !.copy = cr, !.uid = s,
                       !.img = IF s = None THEN ExtImage ELSE ImageOf(s), !.tries = 1].copy = cr
    BY <1>r DEF Request
  <2> QED BY <1>5, <1>i, <2>1, AsideRequest DEF BeginDeploy
<1>6. ASSUME NEW r \in Req, BeginRedeploy(r) PROVE AttemptInv'
  <2>1. [req[r] EXCEPT !.op = "redeploy", !.pc = "lookup"].pc # "image"
    BY <1>r DEF Request
  <2> QED BY <1>6, <1>i, <2>1, AsideRequest DEF BeginRedeploy
<1>7. ASSUME NEW r \in Req, BeginRestart(r) PROVE AttemptInv'
  <2>1. [req[r] EXCEPT !.op = "restart",
             !.pc = IF cr.stageid \in {None, cr.imageurl.tag} THEN "lookup" ELSE "get",
             !.img = IF cr.stageid \in {None, cr.imageurl.tag} THEN NoImage
                     ELSE [cr.imageurl EXCEPT !.tag = cr.stageid]].pc # "image"
    BY <1>r DEF Request
  <2> QED BY <1>7, <1>i, <2>1, AsideRequest DEF BeginRestart
<1>8. ASSUME NEW r \in Req, NEW di \in BOOLEAN, BeginDelete(r, di) PROVE AttemptInv'
  <2>1. [req[r] EXCEPT !.op = "delete", !.pc = "remove",
             !.img = IF di THEN cr.imageurl ELSE NoImage].pc # "image"
    BY <1>r DEF Request
  <2> QED BY <1>8, <1>i, <2>1, AsideRequest DEF BeginDelete
<1>9. ASSUME NEW r \in Req, CheckStaging(r) PROVE AttemptInv'
  <2>1. [req[r] EXCEPT !.pc = "resolve"].pc # "image"
    BY <1>r DEF Request
  <2> QED BY <1>9, <1>i, <2>1, AsideRequest DEF CheckStaging, Goto, End
<1>10. ASSUME NEW r \in Req, ResolveBlob(r) PROVE AttemptInv'
  <2>1. Become(r, Idle) \/ \E b \in Blob \cup {None} : Assemble(r, b)
    <3>1. WantedBlob(r) \in Blob \cup {None}
      BY <1>r DEF WantedBlob, Request, CR
    <3> QED BY <1>10, <3>1 DEF ResolveBlob, AssembleNew, End
  <2>2. UNCHANGED <<cr, stale, job>>
    BY <1>10 DEF ResolveBlob
  <2> QED BY <1>i, <1>a, <2>1, <2>2, AsideRequest
<1>11. ASSUME NEW r \in Req, RepackBlob(r) PROVE AttemptInv'
  <2>1. Become(r, Idle) \/ \E b \in Blob \cup {None} : Assemble(r, b)
    BY <1>11 DEF RepackBlob, AssembleNew, End
  <2>2. UNCHANGED <<cr, stale, job>>
    BY <1>11 DEF RepackBlob
  <2> QED BY <1>i, <1>a, <2>1, <2>2, AsideRequest
<1>12. ASSUME NEW r \in Req, CreateJobEnv(r) PROVE AttemptInv'
  <2>1. [req[r] EXCEPT !.pc = "job"].pc # "image"
    BY <1>r DEF Request
  <2> QED BY <1>12, <1>i, <2>1, AsideRequest DEF CreateJobEnv, Goto
<1>13. ASSUME NEW r \in Req, CreateJob(r) PROVE AttemptInv'
  <2> DEFINE new == [req[r] EXCEPT !.pc = "patch", !.prev = None]
             id == req[r].uid
  <2>1. new.pc = "patch"
    BY <1>r DEF Request
  <2>2. \A q \in Req : req'[q] = IF q = r THEN new ELSE req[q]
    BY <1>13, <1>r DEF CreateJob, Become
  <2> HIDE DEF new
  <2>3. id \in Stage /\ job[id].st = "none"
    BY <1>13 DEF CreateJob, StagingInv, PreparingInv, Preparing, At
  <2>4. JobsKept
    BY <1>13, <2>3 DEF CreateJob, TypeOK, JobsKept
  <2>5. UNCHANGED <<cr, stale>>
    BY <1>13 DEF CreateJob
  <2> QED BY <2>1, <2>2, <2>4, <2>5, Aside
<1>14. ASSUME NEW r \in Req, PatchApp(r) PROVE AttemptInv'
  <2> DEFINE new == [req[r] EXCEPT !.pc = "await", !.blob = None]
  <2>1. new.pc = "await"
    BY <1>r DEF Request
  <2>2. CASE ~cr.exists
    BY <1>14, <1>i, <2>2, AsideRequest DEF PatchApp, End
  <2>3. CASE cr.exists
    <3> DEFINE app == [cr EXCEPT !.stageid = req[r].uid, !.blobuid = req[r].blob]
    <3>1. /\ req[r].uid \in Stage /\ job[req[r].uid].st # "none"
          /\ job[req[r].uid].blob = req[r].blob
      BY <1>14 DEF PatchApp, StagingInv, PatchInv
    <3>2. app.stageid = req[r].uid /\ app.blobuid = req[r].blob
      BY DEF TypeOK, CR
    <3>3. WriteCR(app) /\ UNCHANGED job
      BY <1>14, <2>3 DEF PatchApp
    <3>4. CRNamesOneAttempt'
      BY <3>1, <3>2, <3>3 DEF WriteCR, CRNamesOneAttempt
    <3>5. Become(r, new) \/ Become(r, Idle)
      BY <1>14, <2>3 DEF PatchApp, End
    <3> HIDE DEF new
    <3>6. \A q \in Req : req'[q].pc = "image" => req[q].pc = "image"
      BY <1>r, <1>i, <2>1, <3>5 DEF Become
    <3> QED BY <3>3, <3>4, <3>6, Writes
  <2> QED BY <2>2, <2>3
<1>15. ASSUME NEW r \in Req, AwaitJob(r) PROVE AttemptInv'
  <2>1. [req[r] EXCEPT !.pc = "get", !.img = ImageOf(req[r].uid)].pc # "image"
    BY <1>r DEF Request
  <2> QED BY <1>15, <1>i, <2>1, AsideRequest DEF AwaitJob, End
<1>16. ASSUME NEW r \in Req, FetchApp(r) PROVE AttemptInv'
  <2>1. [req[r] EXCEPT !.pc = "image", !.copy = cr, !.tries = 1].copy = cr
    BY <1>r DEF Request
  <2> QED BY <1>16, <1>i, <2>1, AsideRequest DEF FetchApp, End
<1>17. ASSUME NEW r \in Req, UpdateImageURL(r) PROVE AttemptInv'
  <2> DEFINE app == [req[r].copy EXCEPT !.imageurl = req[r].img]
             swap == [req[r] EXCEPT !.pc = "swap", !.copy = NoCR, !.tries = 0]
             lookup == [req[r] EXCEPT !.pc = "lookup", !.copy = NoCR, !.tries = 0,
                                      !.img = NoImage]
             reget == [req[r] EXCEPT !.pc = "reget", !.copy = NoCR]
  <2>1. swap.pc # "image" /\ lookup.pc # "image" /\ reget.pc # "image"
    BY <1>r DEF Request
  <2>2. UNCHANGED job /\ At(r, "image")
    BY <1>17 DEF UpdateImageURL
  <2>3. CASE r \notin stale /\ cr.exists
    \* The copy is the CR: only the image changes.
    <3>1. /\ cr' = app /\ stale' = {q \in Req \ {r} : At(q, "image")}
          /\ Become(r, swap) \/ Become(r, lookup)
      BY <1>17, <2>3 DEF UpdateImageURL
    <3>2. req[r].copy = cr
      BY <2>2, <2>3 DEF AttemptInv, CopyInv
    <3>3. app.stageid = cr.stageid /\ app.blobuid = cr.blobuid
      BY <3>2 DEF TypeOK, CR
    <3>4. CRNamesOneAttempt'
      BY <2>2, <3>1, <3>3 DEF AttemptInv, CRNamesOneAttempt
    <3> HIDE DEF swap, lookup, app
    <3>5. \A q \in Req : req'[q].pc = "image" => req[q].pc = "image" /\ q # r
      BY <1>r, <2>1, <3>1 DEF Become
    <3>6. CopyInv'
      BY <3>1, <3>5 DEF CopyInv, At
    <3> QED BY <3>4, <3>6 DEF AttemptInv
  <2>4. CASE r \in stale \/ ~cr.exists
    <3>1. UNCHANGED cr /\ stale' = stale \ {r} /\ (Become(r, reget) \/ Become(r, Idle))
      BY <1>17, <2>4 DEF UpdateImageURL, End
    <3> HIDE DEF reget
    <3>2. \A q \in Req : req'[q].pc = "image" => req'[q] = req[q] /\ q # r
      BY <1>r, <1>i, <2>1, <3>1 DEF Become
    <3>3. \A q \in Req : q # r => req'[q] = req[q]
      BY <1>r, <3>1 DEF Become
    <3>4. CopyInv'
      BY <3>1, <3>2 DEF AttemptInv, CopyInv, At
    <3>5. CRNamesOneAttempt'
      BY <2>2, <3>1 DEF AttemptInv, CRNamesOneAttempt
    <3> QED BY <3>4, <3>5 DEF AttemptInv
  <2> QED BY <2>3, <2>4
<1>18. ASSUME NEW r \in Req, RefetchApp(r) PROVE AttemptInv'
  <2>1. [req[r] EXCEPT !.pc = "image", !.copy = cr, !.tries = @ + 1].copy = cr
    BY <1>r DEF Request
  <2> QED BY <1>18, <1>i, <2>1, AsideRequest DEF RefetchApp, End
<1>19. ASSUME NEW r \in Req, DeployRefused(r) PROVE AttemptInv'
  <2> QED BY <1>19, <1>i, AsideRequest DEF DeployRefused, End
<1>20. ASSUME NEW r \in Req, LookupApp(r) PROVE AttemptInv'
  <2>1. [req[r] EXCEPT !.pc = "helm", !.uid = None, !.keep = cr.stageid,
                       !.img = cr.imageurl].pc # "image"
    BY <1>r DEF Request
  <2> QED BY <1>20, <1>i, <2>1, AsideRequest DEF LookupApp, End
<1>21. ASSUME NEW r \in Req, HelmDeploy(r) PROVE AttemptInv'
  <2>1. [req[r] EXCEPT !.pc = "list", !.img = NoImage].pc # "image"
    BY <1>r DEF Request
  <2>2. [Idle EXCEPT !.op = req[r].op, !.pc = "origin"].pc # "image"
    BY <1>r DEF Request, Idle
  <2> QED BY <1>21, <1>i, <2>1, <2>2, AsideRequest DEF HelmDeploy, End, AfterDeploy
<1>22. ASSUME NEW r \in Req, SwapPodImage(r) PROVE AttemptInv'
  <2> QED BY <1>22, <1>i, AsideRequest DEF SwapPodImage, End
<1>23. ASSUME NEW r \in Req, SetOrigin(r) PROVE AttemptInv'
  <2>1. Become(r, Idle) /\ UNCHANGED job
    BY <1>23 DEF SetOrigin, End
  <2>2. CASE ~cr.exists
    BY <1>23, <1>i, <2>1, <2>2, AsideRequest DEF SetOrigin
  <2>3. CASE cr.exists
    <3>1. PICK g \in BOOLEAN : WriteCR([cr EXCEPT !.git = g])
      BY <1>23, <2>3 DEF SetOrigin
    <3>2. CRNamesOneAttempt'
      BY <2>1, <3>1 DEF WriteCR, AttemptInv, CRNamesOneAttempt, TypeOK, CR
    <3>3. \A q \in Req : req'[q].pc = "image" => req[q].pc = "image"
      BY <1>r, <1>i, <2>1 DEF Become
    <3> QED BY <3>1, <3>2, <3>3, Writes
  <2> QED BY <2>2, <2>3
<1>24. ASSUME NEW r \in Req, UnstageList(r) PROVE AttemptInv'
  <2> DEFINE kept == IF req[r].keep \in Listed THEN {job[req[r].keep].blob} ELSE {}
             new == [req[r] EXCEPT !.pc = "unstage", !.ids = Listed \ {req[r].keep},
                       !.dead = {job[s].blob : s \in Listed} \ kept]
  <2>1. new.pc # "image"
    BY <1>r DEF Request
  <2>2. Become(r, new) /\ UNCHANGED <<cr, stale, job>>
    BY <1>24 DEF UnstageList
  <2> HIDE DEF new
  <2> QED BY <2>1, <2>2, AsideRequest
<1>25. ASSUME NEW r \in Req, NEW s \in Stage, UnstageJob(r, s) PROVE AttemptInv'
  <2> DEFINE new == [req[r] EXCEPT !.pc = "env", !.cur = s, !.ids = @ \ {s}]
  <2>1. new.pc # "image"
    BY <1>r DEF Request
  <2>2. Become(r, new) \/ Become(r, Idle)
    BY <1>25 DEF UnstageJob, End
  <2>3. UNCHANGED <<cr, stale>> /\ JobsKept
    BY <1>25 DEF UnstageJob, JobsKept, TypeOK, Job
  <2> HIDE DEF new
  <2>4. \A q \in Req : req'[q].pc = "image" => req'[q] = req[q]
    BY <1>r, <1>i, <2>1, <2>2 DEF Become
  <2> QED BY <2>3, <2>4, Aside
<1>26. ASSUME NEW r \in Req, UnstageEnv(r) PROVE AttemptInv'
  <2>1. [req[r] EXCEPT !.pc = "unstage", !.cur = None].pc # "image"
    BY <1>r DEF Request
  <2> QED BY <1>26, <1>i, <2>1, AsideRequest DEF UnstageEnv, End
<1>27. ASSUME NEW r \in Req, NEW b \in Blob, UnstageBlob(r, b) PROVE AttemptInv'
  <2>1. [req[r] EXCEPT !.dead = @ \ {b}].pc # "image"
    BY <1>27, <1>r DEF UnstageBlob, At, Request
  <2> QED BY <1>27, <1>i, <2>1, AsideRequest DEF UnstageBlob
<1>28. ASSUME NEW r \in Req, UnstageDone(r) PROVE AttemptInv'
  <2>1. [Idle EXCEPT !.op = req[r].op, !.pc = "origin"].pc # "image"
    BY <1>r DEF Request, Idle
  <2> QED BY <1>28, <1>i, <2>1, AsideRequest DEF UnstageDone, End, AfterDeploy
<1>29. ASSUME NEW r \in Req, RemoveRelease(r) PROVE AttemptInv'
  <2>1. [req[r] EXCEPT !.pc = "delcr"].pc # "image"
    BY <1>r DEF Request
  <2> QED BY <1>29, <1>i, <2>1, AsideRequest DEF RemoveRelease, Goto
<1>30. ASSUME NEW r \in Req, DeleteCR(r) PROVE AttemptInv'
  <2> DEFINE new == [req[r] EXCEPT !.pc = IF req[r].img = NoImage THEN "list" ELSE "delimage"]
  <2>1. new.pc # "image"
    BY <1>r DEF Request
  <2>2. CASE ~cr.exists
    BY <1>30, <1>i, <2>2, AsideRequest DEF DeleteCR, End
  <2>3. CASE cr.exists
    <3>1. WriteCR(NoCR) /\ Become(r, new)
      BY <1>30, <2>3 DEF DeleteCR, Goto
    <3>2. CRNamesOneAttempt'
      BY <3>1 DEF WriteCR, NoCR, CRNamesOneAttempt
    <3> HIDE DEF new
    <3>3. \A q \in Req : req'[q].pc = "image" => req[q].pc = "image"
      BY <1>r, <2>1, <3>1 DEF Become
    <3> QED BY <3>1, <3>2, <3>3, Writes
  <2> QED BY <2>2, <2>3
<1>31. ASSUME NEW r \in Req, DeleteImage(r) PROVE AttemptInv'
  <2>1. [req[r] EXCEPT !.pc = "list", !.img = NoImage].pc # "image"
    BY <1>r DEF Request
  <2> QED BY <1>31, <1>i, <2>1, AsideRequest DEF DeleteImage
<1>32. ASSUME NEW s \in Stage, JobDownloads(s) PROVE AttemptInv'
  BY <1>32, Aside DEF JobDownloads, JobsKept, TypeOK, Job, Active, Finished
<1>33. ASSUME NEW s \in Stage, JobCompletes(s) PROVE AttemptInv'
  BY <1>33, Aside DEF JobCompletes, JobsKept, TypeOK, Job, Active, Finished
<1>34. ASSUME NEW s \in Stage, JobFails(s) PROVE AttemptInv'
  BY <1>34, Aside DEF JobFails, JobsKept, TypeOK, Job, Active, Finished
<1>35. ASSUME NEW s \in Stage, JobExpires(s) PROVE AttemptInv'
  BY <1>35, Aside DEF JobExpires, JobsKept, TypeOK, Job, Active, Finished
<1>36. ASSUME NEW r \in Req, Fail(r) PROVE AttemptInv'
  <2>1. UNCHANGED <<cr, job>> /\ stale' = stale \ {r} /\ Become(r, Idle)
    BY <1>36 DEF Fail, End
  <2>2. \A q \in Req : req'[q] = IF q = r THEN Idle ELSE req[q]
    BY <1>r, <2>1 DEF Become
  <2>3. CopyInv'
    BY <1>i, <2>1, <2>2 DEF AttemptInv, CopyInv, At
  <2>4. CRNamesOneAttempt'
    BY <2>1 DEF AttemptInv, CRNamesOneAttempt
  <2> QED BY <2>3, <2>4 DEF AttemptInv
<1>37. CASE UNCHANGED vars
  BY <1>37, Aside DEF vars, JobsKept
<1> QED BY <1>1, <1>2, <1>3, <1>4, <1>5, <1>6, <1>7, <1>8, <1>9, <1>10, <1>11, <1>12,
       <1>13, <1>14, <1>15, <1>16, <1>17, <1>18, <1>19, <1>20, <1>21, <1>22, <1>23,
       <1>24, <1>25, <1>26, <1>27, <1>28, <1>29, <1>30, <1>31, <1>32, <1>33, <1>34,
       <1>35, <1>36, <1>37
   DEF Next, Begin, Proceed, Kubernetes

-----------------------------------------------------------------------------
(* Theorems *)

\* The inductive invariant holds of an application that was just created.
LEMMA InitInv == Init => TypeOK /\ StagingInv /\ AttemptInv
<1> SUFFICES ASSUME Init PROVE TypeOK /\ StagingInv /\ AttemptInv
  OBVIOUS
<1>1. /\ \A r \in Req : req[r].pc = "idle"
      /\ \A s \in Stage : job[s].st = "none"
      /\ cr.stageid = None
  BY DEF Init, Idle, NoJob, NoCR
<1>2. [NoCR EXCEPT !.exists = TRUE] \in CR
  BY ConstantTypes DEF CR
<1>3. NoJob \in Job
  BY DEF NoJob, Job, JobState
<1>4. TypeOK
  BY <1>2, <1>3, ConstantTypes DEF Init, TypeOK
<1>5. StagingInv
  BY <1>1 DEF StagingInv, BlobInv, PreparingInv, Preparing, UnstagingInv, PatchInv,
              JobHasEnv, UnstageFindsEnv, Listed, At
<1>6. AttemptInv
  BY <1>1 DEF AttemptInv, CopyInv, CRNamesOneAttempt, At
<1> QED BY <1>4, <1>5, <1>6

IInv == TypeOK /\ StagingInv /\ AttemptInv

\* The conjunction of the three is invariant: the staging part needs the types, the
\* CR's part needs both, and the types need the staging part.
THEOREM Invariance == Spec => []IInv
<1>1. Init => IInv
  BY InitInv DEF IInv
<1>2. IInv /\ [Next]_vars => IInv'
  BY TypeStep, StagingStep, AttemptStep DEF IInv, StagingInv
<1> QED BY <1>1, <1>2, PTL DEF Spec

\* Every variable has its type: in particular an Unstage only ever deletes blobs
\* and jobs that exist (UnstageList), and a secret is created for a stage id
\* (executeStage).
THEOREM TypeCorrect == Spec => []TypeOK
BY Invariance, PTL DEF IInv

\* Every staging job finds the secret with its environment, however many requests
\* stage, deploy and delete the application at the same time, fail or stop.
THEOREM JobsHaveEnv == Spec => []JobHasEnv
BY Invariance, PTL DEF IInv, StagingInv

\* DeleteSecret in Unstage always finds the secret of the job just deleted.
THEOREM UnstagesFindEnv == Spec => []UnstageFindsEnv
BY Invariance, PTL DEF IInv, StagingInv

\* The stage id and blob uid in the CR belong to one attempt at staging, despite
\* UpdateImageURL, which writes the whole CR back.
THEOREM CRNamesAttempt == Spec => []CRNamesOneAttempt
BY Invariance, PTL DEF IInv, AttemptInv

\* The stage id of the CR is only ever replaced by updateApp, with the id of the
\* job it records: neither UpdateImageURL nor SetOrigin undoes a staging.
THEOREM StagingStays == Spec => StagingNotLost
<1> DEFINE Kept == cr.exists /\ cr'.exists /\ cr'.stageid # cr.stageid
                     => \E r \in Req : At(r, "patch") /\ cr'.stageid = req[r].uid
<1>1. IInv /\ [Next]_vars => Kept
  <2> SUFFICES ASSUME IInv, [Next]_vars, cr.exists, cr'.exists, cr'.stageid # cr.stageid
               PROVE  \E r \in Req : At(r, "patch") /\ cr'.stageid = req[r].uid
    OBVIOUS
  <2>c. cr \in CR
    BY DEF IInv, TypeOK
  <2>1. CASE \E r \in Req : PatchApp(r)
    BY <2>1, <2>c DEF PatchApp, WriteCR, CR
  <2>2. CASE \E r \in Req : UpdateImageURL(r)
    <3>1. PICK r \in Req : UpdateImageURL(r)
      BY <2>2
    <3>2. At(r, "image") /\ r \notin stale /\ cr' = [req[r].copy EXCEPT !.imageurl = req[r].img]
      BY <3>1 DEF UpdateImageURL
    <3>3. req[r].copy = cr
      BY <3>2 DEF IInv, AttemptInv, CopyInv
    <3>4. cr'.stageid = cr.stageid
      BY <2>c, <3>2, <3>3 DEF CR
    <3> QED BY <3>4
  <2>3. CASE \E r \in Req : SetOrigin(r)
    BY <2>3, <2>c DEF SetOrigin, WriteCR, CR
  <2>4. CASE CreateApp \/ \E r \in Req : DeleteCR(r)
    BY <2>4 DEF CreateApp, DeleteCR, WriteCR, NoCR
  <2>5. CASE UNCHANGED cr
    BY <2>5
  <2>6. CASE Kubernetes \/ \E b \in Blob : Upload(b)
    <3>1. UNCHANGED cr
      BY <2>6 DEF Kubernetes, JobDownloads, JobCompletes, JobFails, JobExpires, Upload
    <3> QED BY <3>1
  <2>7. ASSUME NEW r \in Req, Begin(r) \/ Fail(r) PROVE UNCHANGED cr
    BY <2>7 DEF Begin, BeginStage, BeginSourcePatch, BeginDeploy, BeginRedeploy,
       BeginRestart, BeginDelete, Fail
  <2>8. ASSUME NEW r \in Req, Proceed(r)
        PROVE  PatchApp(r) \/ UpdateImageURL(r) \/ SetOrigin(r) \/ DeleteCR(r) \/ UNCHANGED cr
    <3>1. CASE CheckStaging(r) \/ ResolveBlob(r) \/ RepackBlob(r) \/ CreateJobEnv(r)
               \/ CreateJob(r) \/ AwaitJob(r) \/ FetchApp(r) \/ RefetchApp(r)
               \/ DeployRefused(r) \/ LookupApp(r) \/ HelmDeploy(r) \/ SwapPodImage(r)
      BY <3>1 DEF CheckStaging, ResolveBlob, RepackBlob, CreateJobEnv, CreateJob, AwaitJob,
         FetchApp, RefetchApp, DeployRefused, LookupApp, HelmDeploy, SwapPodImage
    <3>2. CASE UnstageList(r) \/ (\E s \in Stage : UnstageJob(r, s)) \/ UnstageEnv(r)
               \/ (\E b \in Blob : UnstageBlob(r, b)) \/ UnstageDone(r)
               \/ RemoveRelease(r) \/ DeleteImage(r)
      BY <3>2 DEF UnstageList, UnstageJob, UnstageEnv, UnstageBlob, UnstageDone,
         RemoveRelease, DeleteImage
    <3> QED BY <2>8, <3>1, <3>2 DEF Proceed
  <2> QED
    BY <2>1, <2>2, <2>3, <2>4, <2>5, <2>6, <2>7, <2>8 DEF Next, vars
<1> QED BY <1>1, Invariance, PTL DEF Spec, StagingNotLost
-----------------------------------------------------------------------------
(* What an Unstage keeps *)

\* A job once created is never created again, keeps its blob, and stays deleted.
JobsLast == \A s \in Stage : job[s].st # "none" =>
  /\ job'[s].st # "none" /\ job'[s].blob = job[s].blob
  /\ job[s].st = "gone" => job'[s].st = "gone"

\* The stage that a request keeps has had a job, and as long as this is there the
\* request does not have it, or its blob, among those it deletes.
KeepInv ==
  \A r \in Req :
    /\ req[r].keep \in Stage => job[req[r].keep].st # "none"
    /\ req[r].pc \in {"unstage", "env"} /\ req[r].keep \in Listed =>
         req[r].keep \notin req[r].ids /\ job[req[r].keep].blob \notin req[r].dead

LEMMA JobsStep ==
  ASSUME TypeOK, PreparingInv, [Next]_vars PROVE JobsLast
<1>1. UNCHANGED job => JobsLast
  BY DEF JobsLast
<1>2. ASSUME NEW s \in Stage, NEW new, job' = [job EXCEPT ![s] = new],
             job[s].st # "none" => new.st # "none" /\ new.blob = job[s].blob
                                   /\ job[s].st # "gone"
      PROVE  JobsLast
  BY <1>2 DEF JobsLast, TypeOK
<1>3. ASSUME NEW s \in Stage, NEW st \in JobState \ {"none"}, s \in Listed,
             job' = [job EXCEPT ![s].st = st]
      PROVE  JobsLast
  <2> DEFINE new == [job[s] EXCEPT !.st = st]
  <2>1. new.st = st /\ new.blob = job[s].blob
    BY DEF TypeOK, Job
  <2>2. job' = [job EXCEPT ![s] = new]
    BY <1>3
  <2> HIDE DEF new
  <2> QED BY <1>2, <1>3, <2>1, <2>2 DEF Listed
<1>4. ASSUME NEW s \in Stage, JobDownloads(s) \/ JobCompletes(s) \/ JobFails(s) \/ JobExpires(s)
      PROVE  JobsLast
  BY <1>3, <1>4 DEF JobDownloads, JobCompletes, JobFails, JobExpires, Listed, Active, Finished,
     JobState
<1>5. ASSUME NEW r \in Req, CreateJob(r) PROVE JobsLast
  <2>1. req[r].uid \in Stage /\ job[req[r].uid].st = "none"
    BY <1>5 DEF CreateJob, PreparingInv, Preparing, At
  <2> QED BY <1>2, <1>5, <2>1 DEF CreateJob
<1>6. ASSUME NEW r \in Req, NEW s \in Stage, UnstageJob(r, s) PROVE JobsLast
  BY <1>1, <1>3, <1>6 DEF UnstageJob, JobState
<1>7. ASSUME NEW r \in Req, Begin(r) \/ Fail(r) PROVE UNCHANGED job
  BY <1>7 DEF Begin, BeginStage, BeginSourcePatch, BeginDeploy, BeginRedeploy,
     BeginRestart, BeginDelete, Fail
<1>8. ASSUME NEW r \in Req, Proceed(r), ~CreateJob(r), ~ \E s \in Stage : UnstageJob(r, s)
      PROVE  UNCHANGED job
  BY <1>8 DEF Proceed, CheckStaging, ResolveBlob, RepackBlob, CreateJobEnv, PatchApp, AwaitJob,
     FetchApp, UpdateImageURL, RefetchApp, DeployRefused, LookupApp, HelmDeploy, SwapPodImage,
     SetOrigin, UnstageList, UnstageEnv, UnstageBlob, UnstageDone, RemoveRelease, DeleteCR,
     DeleteImage
<1>9. ASSUME CreateApp \/ \E b \in Blob : Upload(b) PROVE UNCHANGED job
  BY <1>9 DEF CreateApp, Upload
<1> QED BY <1>1, <1>4, <1>5, <1>6, <1>7, <1>8, <1>9 DEF Next, Kubernetes, vars

\* A step of one request, or of none, in which it does not get more to delete
LEMMA KeepRequest ==
  ASSUME TypeOK, KeepInv, JobsLast, NEW r \in Req,
         \A q \in Req : q # r => req'[q] = req[q],
         req'[r].keep \in Stage => req'[r].keep = req[r].keep,
         req'[r].pc \in {"unstage", "env"} =>
           /\ req[r].pc \in {"unstage", "env"}
           /\ req'[r].ids \subseteq req[r].ids /\ req'[r].dead \subseteq req[r].dead
  PROVE  KeepInv'
<1> SUFFICES ASSUME NEW q \in Req
             PROVE  /\ req'[q].keep \in Stage => job'[req'[q].keep].st # "none"
                    /\ req'[q].pc \in {"unstage", "env"} /\ req'[q].keep \in Listed' =>
                         /\ req'[q].keep \notin req'[q].ids
                         /\ job'[req'[q].keep].blob \notin req'[q].dead
  BY DEF KeepInv
<1>1. /\ req'[q].keep \in Stage => req'[q].keep = req[q].keep
      /\ req'[q].pc \in {"unstage", "env"} =>
           /\ req[q].pc \in {"unstage", "env"}
           /\ req'[q].ids \subseteq req[q].ids /\ req'[q].dead \subseteq req[q].dead
  OBVIOUS
<1>2. /\ req[q].keep \in Stage => job[req[q].keep].st # "none"
      /\ req[q].pc \in {"unstage", "env"} /\ req[q].keep \in Listed =>
           req[q].keep \notin req[q].ids /\ job[req[q].keep].blob \notin req[q].dead
  BY DEF KeepInv
<1>3. CASE req'[q].keep \notin Stage
  BY <1>3 DEF Listed
<1>4. CASE req'[q].keep \in Stage
  <2> DEFINE k == req[q].keep
  <2>1. req'[q].keep = k /\ k \in Stage /\ job[k].st # "none"
    BY <1>1, <1>2, <1>4
  <2>2. job'[k].st # "none" /\ job'[k].blob = job[k].blob
        /\ (job'[k].st # "gone" => job[k].st # "gone")
    BY <2>1 DEF JobsLast
  <2>3. k \in Listed' => k \in Listed
    BY <2>1, <2>2 DEF Listed
  <2> HIDE DEF k
  <2>4. req'[q].pc \in {"unstage", "env"} /\ k \in Listed =>
          k \notin req'[q].ids /\ job[k].blob \notin req'[q].dead
    BY <1>1, <1>2 DEF k
  <2> QED BY <2>1, <2>2, <2>3, <2>4
<1> QED BY <1>3, <1>4

\* A request goes on without choosing what it keeps, and does not unstage.
Elsewhere(r) ==
  /\ \A q \in Req : q # r => req'[q] = req[q]
  /\ req'[r].keep \in {req[r].keep, None} /\ req'[r].pc \notin {"unstage", "env"}

\* It neither prepares a job nor comes to the stages of a deployment or a deletion at
\* which it knows what to keep.
Away(r) ==
  /\ \A q \in Req : q # r => req'[q] = req[q]
  /\ req'[r].keep \in {req[r].keep, None}
  /\ req'[r].pc \notin {"secret", "job", "patch", "helm", "delcr", "delimage", "list", "unstage",
                        "env"}

LEMMA AwayElsewhere == ASSUME NEW r, Away(r) PROVE Elsewhere(r)
BY DEF Away, Elsewhere

LEMMA AwayBegin == ASSUME TypeOK, NEW r \in Req, Begin(r) PROVE Away(r)
<1>1. req[r] \in Request
  BY DEF TypeOK
<1>2. ASSUME NEW new, Become(r, new), new.keep = req[r].keep,
             new.pc \in {"check", "repack", "image", "lookup", "get", "remove"}
      PROVE  Away(r)
  BY <1>2 DEF Become, TypeOK, Away
<1>3. ASSUME NEW op, NEW s \in Stage, NEW b, BeginStage(r, op, s, b) PROVE Away(r)
  <2> DEFINE new == [req[r] EXCEPT !.op = op, !.pc = "check", !.copy = cr, !.uid = s, !.blob = b]
  <2>1. new.keep = req[r].keep /\ new.pc = "check"
    BY <1>1 DEF Request
  <2> QED BY <1>2, <1>3, <2>1 DEF BeginStage
<1>4. ASSUME NEW s \in Stage, BeginSourcePatch(r, s) PROVE Away(r)
  <2> DEFINE new == [req[r] EXCEPT !.op = "sourcepatch", !.pc = "repack", !.copy = cr, !.uid = s]
  <2>1. new.keep = req[r].keep /\ new.pc = "repack"
    BY <1>1 DEF Request
  <2> QED BY <1>2, <1>4, <2>1 DEF BeginSourcePatch
<1>5. ASSUME NEW s, BeginDeploy(r, s) PROVE Away(r)
  <2> DEFINE new == [req[r] EXCEPT !.op = "deploy", !.pc = "image", !.copy = cr, !.uid = s,
                                   !.img = IF s = None THEN ExtImage ELSE ImageOf(s), !.tries = 1]
  <2>1. new.keep = req[r].keep /\ new.pc = "image"
    BY <1>1 DEF Request
  <2> QED BY <1>2, <1>5, <2>1 DEF BeginDeploy
<1>6. ASSUME BeginRedeploy(r) PROVE Away(r)
  <2> DEFINE new == [req[r] EXCEPT !.op = "redeploy", !.pc = "lookup"]
  <2>1. new.keep = req[r].keep /\ new.pc = "lookup"
    BY <1>1 DEF Request
  <2> QED BY <1>2, <1>6, <2>1 DEF BeginRedeploy
<1>7. ASSUME BeginRestart(r) PROVE Away(r)
  <2> DEFINE new == [req[r] EXCEPT
             !.op = "restart",
             !.pc = IF cr.stageid \in {None, cr.imageurl.tag} THEN "lookup" ELSE "get",
             !.img = IF cr.stageid \in {None, cr.imageurl.tag} THEN NoImage
                     ELSE [cr.imageurl EXCEPT !.tag = cr.stageid]]
  <2>1. new.keep = req[r].keep /\ new.pc \in {"lookup", "get"}
    BY <1>1 DEF Request
  <2> QED BY <1>2, <1>7, <2>1 DEF BeginRestart
<1>8. ASSUME NEW di, BeginDelete(r, di) PROVE Away(r)
  <2> DEFINE new == [req[r] EXCEPT !.op = "delete", !.pc = "remove",
                                   !.img = IF di THEN cr.imageurl ELSE NoImage]
  <2>1. new.keep = req[r].keep /\ new.pc = "remove"
    BY <1>1 DEF Request
  <2> QED BY <1>2, <1>8, <2>1 DEF BeginDelete
<1> QED BY <1>3, <1>4, <1>5, <1>6, <1>7, <1>8 DEF Begin

LEMMA AwayProceed ==
  ASSUME TypeOK, NEW r \in Req,
         \/ CheckStaging(r) \/ AwaitJob(r) \/ FetchApp(r) \/ UpdateImageURL(r) \/ RefetchApp(r)
         \/ DeployRefused(r) \/ SwapPodImage(r) \/ SetOrigin(r) \/ UnstageDone(r) \/ Fail(r)
  PROVE  Away(r)
<1>r. req[r] \in Request /\ req \in [Req -> Request]
  BY DEF TypeOK
<1>b. ASSUME NEW new, Become(r, new), new.keep \in {req[r].keep, None},
             new.pc \in {"idle", "resolve", "get", "image", "swap", "lookup", "reget", "origin"}
      PROVE  Away(r)
  BY <1>b, <1>r DEF Become, Away
<1>e. End(r) => Away(r)
  BY <1>b DEF End, Idle
<1>1. ASSUME CheckStaging(r) PROVE Away(r)
  <2> DEFINE new == [req[r] EXCEPT !.pc = "resolve"]
  <2>1. new.keep = req[r].keep /\ new.pc = "resolve"
    BY <1>r DEF Request
  <2> QED BY <1>1, <1>b, <1>e, <2>1 DEF CheckStaging, Goto
<1>2. ASSUME DeployRefused(r) \/ SwapPodImage(r) \/ SetOrigin(r) \/ Fail(r) PROVE Away(r)
  BY <1>2, <1>e DEF DeployRefused, SwapPodImage, SetOrigin, Fail
<1>3. ASSUME AwaitJob(r) PROVE Away(r)
  <2> DEFINE new == [req[r] EXCEPT !.pc = "get", !.img = ImageOf(req[r].uid)]
  <2>1. new.keep = req[r].keep /\ new.pc = "get"
    BY <1>r DEF Request
  <2> QED BY <1>3, <1>b, <1>e, <2>1 DEF AwaitJob
<1>4. ASSUME FetchApp(r) PROVE Away(r)
  <2> DEFINE new == [req[r] EXCEPT !.pc = "image", !.copy = cr, !.tries = 1]
  <2>1. new.keep = req[r].keep /\ new.pc = "image"
    BY <1>r DEF Request
  <2> QED BY <1>4, <1>b, <1>e, <2>1 DEF FetchApp
<1>5. ASSUME RefetchApp(r) PROVE Away(r)
  <2> DEFINE new == [req[r] EXCEPT !.pc = "image", !.copy = cr, !.tries = @ + 1]
  <2>1. new.keep = req[r].keep /\ new.pc = "image"
    BY <1>r DEF Request
  <2> QED BY <1>5, <1>b, <1>e, <2>1 DEF RefetchApp
<1>6. ASSUME UpdateImageURL(r) PROVE Away(r)
  <2> DEFINE swap == [req[r] EXCEPT !.pc = "swap", !.copy = NoCR, !.tries = 0]
             look == [req[r] EXCEPT !.pc = "lookup", !.copy = NoCR, !.tries = 0, !.img = NoImage]
             again == [req[r] EXCEPT !.pc = "reget", !.copy = NoCR]
  <2>1. \A new \in {swap, look, again} :
          new.keep = req[r].keep /\ new.pc \in {"swap", "lookup", "reget"}
    BY <1>r DEF Request
  <2>2. Become(r, swap) \/ Become(r, look) \/ Become(r, again) \/ End(r)
    BY <1>6 DEF UpdateImageURL
  <2> HIDE DEF swap, look, again
  <2> QED BY <1>b, <1>e, <2>1, <2>2
<1>7. ASSUME UnstageDone(r) PROVE Away(r)
  <2> DEFINE new == [Idle EXCEPT !.op = req[r].op, !.pc = "origin"]
  <2>1. new.keep = None /\ new.pc = "origin"
    BY DEF Idle
  <2> QED BY <1>7, <1>b, <1>e, <2>1 DEF UnstageDone, AfterDeploy
<1> QED BY <1>1, <1>2, <1>3, <1>4, <1>5, <1>6, <1>7

LEMMA ElsewhereProceed ==
  ASSUME TypeOK, NEW r \in Req,
         \/ ResolveBlob(r) \/ RepackBlob(r) \/ CreateJobEnv(r) \/ CreateJob(r) \/ PatchApp(r)
         \/ HelmDeploy(r) \/ RemoveRelease(r) \/ DeleteCR(r) \/ DeleteImage(r)
  PROVE  Elsewhere(r)
<1>r. req[r] \in Request /\ req \in [Req -> Request]
  BY DEF TypeOK
<1>b. ASSUME NEW new, Become(r, new), new.keep \in {req[r].keep, None},
             new.pc \notin {"unstage", "env"}
      PROVE  Elsewhere(r)
  BY <1>b, <1>r DEF Become, Elsewhere
<1>e. End(r) => Elsewhere(r)
  BY <1>b DEF End, Idle
<1>g. ASSUME NEW pc, pc \notin {"unstage", "env"}, Goto(r, pc) PROVE Elsewhere(r)
  <2> DEFINE new == [req[r] EXCEPT !.pc = pc]
  <2>1. new.keep = req[r].keep /\ new.pc = pc
    BY <1>r DEF Request
  <2> QED BY <1>b, <1>g, <2>1 DEF Goto
<1>a. ASSUME NEW b, Assemble(r, b) PROVE Elsewhere(r)
  <2> DEFINE new == [req[r] EXCEPT !.pc = "secret", !.blob = b, !.copy = NoCR,
                                   !.prev = IF req[r].copy.stageid = None THEN req[r].uid
                                            ELSE req[r].copy.stageid]
  <2>1. new.keep = req[r].keep /\ new.pc = "secret"
    BY <1>r DEF Request
  <2> QED BY <1>a, <1>b, <2>1 DEF Assemble
<1>1. ASSUME CreateJobEnv(r) \/ RemoveRelease(r) PROVE Elsewhere(r)
  BY <1>1, <1>g DEF CreateJobEnv, RemoveRelease
<1>2. ASSUME ResolveBlob(r) \/ RepackBlob(r) PROVE Elsewhere(r)
  BY <1>2, <1>a, <1>e DEF ResolveBlob, RepackBlob, AssembleNew
<1>3. ASSUME CreateJob(r) PROVE Elsewhere(r)
  <2> DEFINE new == [req[r] EXCEPT !.pc = "patch", !.prev = None]
  <2>1. new.keep = req[r].keep /\ new.pc = "patch"
    BY <1>r DEF Request
  <2> QED BY <1>3, <1>b, <2>1 DEF CreateJob
<1>4. ASSUME PatchApp(r) PROVE Elsewhere(r)
  <2> DEFINE new == [req[r] EXCEPT !.pc = "await", !.blob = None]
  <2>1. new.keep = req[r].keep /\ new.pc = "await"
    BY <1>r DEF Request
  <2> QED BY <1>4, <1>b, <1>e, <2>1 DEF PatchApp
<1>5. ASSUME HelmDeploy(r) PROVE Elsewhere(r)
  <2> DEFINE new == [req[r] EXCEPT !.pc = "list", !.img = NoImage]
             origin == [Idle EXCEPT !.op = req[r].op, !.pc = "origin"]
  <2>1. new.keep = req[r].keep /\ new.pc = "list" /\ origin.keep = None /\ origin.pc = "origin"
    BY <1>r DEF Request, Idle
  <2> QED BY <1>5, <1>b, <1>e, <2>1 DEF HelmDeploy, AfterDeploy
<1>6. ASSUME DeleteCR(r) PROVE Elsewhere(r)
  BY <1>6, <1>e, <1>g DEF DeleteCR
<1>7. ASSUME DeleteImage(r) PROVE Elsewhere(r)
  <2> DEFINE new == [req[r] EXCEPT !.pc = "list", !.img = NoImage]
  <2>1. new.keep = req[r].keep /\ new.pc = "list"
    BY <1>r DEF Request
  <2> QED BY <1>7, <1>b, <2>1 DEF DeleteImage
<1> QED BY <1>1, <1>2, <1>3, <1>4, <1>5, <1>6, <1>7

LEMMA KeepStep == IInv /\ KeepInv /\ [Next]_vars => KeepInv'
<1> SUFFICES ASSUME IInv, KeepInv, [Next]_vars PROVE KeepInv'
  OBVIOUS
<1>1. TypeOK /\ JobsLast /\ BlobInv
  BY JobsStep DEF IInv, StagingInv
<1>2. ASSUME UNCHANGED req PROVE KeepInv'
  BY <1>1, <1>2, KeepRequest DEF KeepInv
<1>3. ASSUME NEW r \in Req, Elsewhere(r) PROVE KeepInv'
  <2>1. None \notin Stage
    BY ConstantsAssumption
  <2> QED BY <1>1, <1>3, <2>1, KeepRequest DEF Elsewhere
<1>4. ASSUME NEW r \in Req, LookupApp(r) PROVE KeepInv'
  <2> DEFINE new == [req[r] EXCEPT !.pc = "helm", !.uid = None, !.keep = cr.stageid,
                                   !.img = cr.imageurl]
  <2>1. CASE End(r)
    <3>1. Elsewhere(r)
      BY <1>1, <2>1 DEF End, Become, Idle, Elsewhere, TypeOK
    <3> QED BY <1>3, <3>1
  <2>2. CASE Become(r, new)
    <3>1. new.keep = cr.stageid /\ new.pc = "helm"
      BY <1>1 DEF TypeOK, Request
    <3>2. \A q \in Req : req'[q] = IF q = r THEN new ELSE req[q]
      BY <1>1, <2>2 DEF Become, TypeOK
    <3>3. cr.stageid \in Stage => job[cr.stageid].st # "none"
      BY ConstantsAssumption DEF IInv, AttemptInv, CRNamesOneAttempt
    <3>4. UNCHANGED job
      BY <1>4 DEF LookupApp
    <3> HIDE DEF new
    <3> QED BY <3>1, <3>2, <3>3, <3>4 DEF KeepInv, Listed
  <2> QED BY <1>4, <2>1, <2>2 DEF LookupApp
<1>5. ASSUME NEW r \in Req, UnstageList(r) PROVE KeepInv'
  <2> DEFINE k == req[r].keep
             kept == IF k \in Listed THEN {job[k].blob} ELSE {}
             dead == {job[s].blob : s \in Listed} \ kept
             new == [req[r] EXCEPT !.pc = "unstage", !.ids = Listed \ {k}, !.dead = dead]
  <2>1. new.keep = k /\ new.ids = Listed \ {k} /\ new.dead = dead
    BY <1>1 DEF TypeOK, Request
  <2>2. k \in Listed => k \notin Listed \ {k} /\ job[k].blob \notin dead
    OBVIOUS
  <2>3. Become(r, new) /\ UNCHANGED job
    BY <1>5 DEF UnstageList
  <2> HIDE DEF new, dead, kept
  <2>4. \A q \in Req : req'[q] = IF q = r THEN new ELSE req[q]
    BY <1>1, <2>3 DEF Become, TypeOK
  <2> QED BY <2>1, <2>2, <2>3, <2>4 DEF KeepInv, Listed
<1>6. ASSUME NEW r \in Req, NEW new, req[r].pc \in {"unstage", "env"}, Become(r, new),
             new.keep = req[r].keep, new.ids \subseteq req[r].ids, new.dead \subseteq req[r].dead
      PROVE  KeepInv'
  <2>1. \A q \in Req : req'[q] = IF q = r THEN new ELSE req[q]
    BY <1>1, <1>6 DEF Become, TypeOK
  <2> QED BY <1>1, <1>6, <2>1, KeepRequest
<1>7. ASSUME NEW r \in Req, End(r) PROVE KeepInv'
  <2>1. Elsewhere(r)
    BY <1>1, <1>7 DEF End, Become, Idle, Elsewhere, TypeOK
  <2> QED BY <1>3, <2>1
<1>8. ASSUME NEW r \in Req, NEW s \in Stage, UnstageJob(r, s) PROVE KeepInv'
  <2> DEFINE new == [req[r] EXCEPT !.pc = "env", !.cur = s, !.ids = @ \ {s}]
  <2>1. new.keep = req[r].keep /\ new.ids \subseteq req[r].ids /\ new.dead = req[r].dead
    BY <1>1 DEF TypeOK, Request
  <2>2. (Become(r, new) \/ End(r)) /\ req[r].pc = "unstage"
    BY <1>8 DEF UnstageJob, At
  <2> HIDE DEF new
  <2> QED BY <1>6, <1>7, <2>1, <2>2
<1>9. ASSUME NEW r \in Req, UnstageEnv(r) PROVE KeepInv'
  <2> DEFINE new == [req[r] EXCEPT !.pc = "unstage", !.cur = None]
  <2>1. new.keep = req[r].keep /\ new.ids = req[r].ids /\ new.dead = req[r].dead
    BY <1>1 DEF TypeOK, Request
  <2>2. (Become(r, new) \/ End(r)) /\ req[r].pc = "env"
    BY <1>9 DEF UnstageEnv, At
  <2> HIDE DEF new
  <2> QED BY <1>6, <1>7, <2>1, <2>2
<1>10. ASSUME NEW r \in Req, NEW b \in Blob, UnstageBlob(r, b) PROVE KeepInv'
  <2> DEFINE new == [req[r] EXCEPT !.dead = @ \ {b}]
  <2>1. new.keep = req[r].keep /\ new.ids = req[r].ids /\ new.dead \subseteq req[r].dead
    BY <1>1 DEF TypeOK, Request
  <2>2. Become(r, new) /\ req[r].pc = "unstage"
    BY <1>10 DEF UnstageBlob, At
  <2> HIDE DEF new
  <2> QED BY <1>6, <2>1, <2>2
<1>11. ASSUME Kubernetes \/ CreateApp \/ \E b \in Blob : Upload(b) PROVE KeepInv'
  BY <1>2, <1>11 DEF Kubernetes, JobDownloads, JobCompletes, JobFails, JobExpires, CreateApp, Upload
<1> QED
  BY <1>1, <1>2, <1>3, <1>4, <1>5, <1>8, <1>9, <1>10, <1>11, AwayBegin, AwayProceed,
     AwayElsewhere, ElsewhereProceed
     DEF Next, Proceed, vars

LEMMA InitKeep == Init => KeepInv
<1> SUFFICES ASSUME Init PROVE KeepInv
  OBVIOUS
<1>1. \A r \in Req : req[r].keep = None /\ req[r].pc = "idle"
  BY DEF Init, Idle
<1>2. None \notin Stage
  BY ConstantsAssumption
<1> QED BY <1>1, <1>2 DEF KeepInv

\* The Unstage of a deployment never deletes the job it keeps, the secret of that job or
\* the blob it was built from, whatever other requests do in between: the stage it keeps
\* is one that the CR named, whose job is not created again once it is gone.
THEOREM UnstageKeeps == Spec => UnstageSparesKept
<1> DEFINE Spared ==
      \A r \in Req :
        /\ req[r].pc \in {"unstage", "env"} /\ req'[r] # req[r]
        /\ req[r].keep \in Listed
        => LET k == req[r].keep
           IN  /\ job'[k] = job[k] /\ k \in jobenv'
               /\ store'[job[k].blob] = store[job[k].blob]
<1>1. IInv /\ KeepInv /\ [Next]_vars => Spared
  <2> SUFFICES ASSUME IInv, KeepInv, [Next]_vars, NEW r \in Req,
                      req[r].pc \in {"unstage", "env"}, req'[r] # req[r], req[r].keep \in Listed
               PROVE  /\ job'[req[r].keep] = job[req[r].keep] /\ req[r].keep \in jobenv'
                      /\ store'[job[req[r].keep].blob] = store[job[req[r].keep].blob]
    OBVIOUS
  <2> DEFINE k == req[r].keep
  <2>1. /\ k \in Stage /\ k \in jobenv /\ job[k].st # "gone" /\ job[k].blob \in Blob
        /\ k \notin req[r].ids /\ job[k].blob \notin req[r].dead
    BY DEF KeepInv, IInv, StagingInv, JobHasEnv, BlobInv, Listed
  <2>2. \A q \in Req : q # r => ~ (Begin(q) \/ Proceed(q) \/ Fail(q))
    <3> SUFFICES ASSUME NEW q \in Req, q # r, Begin(q) \/ Proceed(q) \/ Fail(q)
                 PROVE  \E new : req' = [req EXCEPT ![q] = new]
      BY DEF IInv, TypeOK
    <3>1. CASE Begin(q) \/ Fail(q)
      BY <3>1 DEF Begin, BeginStage, BeginSourcePatch, BeginDeploy, BeginRedeploy,
         BeginRestart, BeginDelete, Fail, Become, End
    <3>2. CASE Proceed(q)
      BY <3>2 DEF Proceed, CheckStaging, ResolveBlob, RepackBlob, CreateJobEnv, CreateJob,
         PatchApp, AwaitJob, FetchApp, UpdateImageURL, RefetchApp, DeployRefused, LookupApp,
         HelmDeploy, SwapPodImage, SetOrigin, UnstageList, UnstageJob, UnstageEnv,
         UnstageBlob, UnstageDone, RemoveRelease, DeleteCR, DeleteImage, Become, Goto, End,
         AfterDeploy, Assemble, AssembleNew
    <3> QED BY <3>1, <3>2
  <2>3. ~ (Kubernetes \/ CreateApp \/ (\E b \in Blob : Upload(b)) \/ UNCHANGED vars)
    BY DEF Kubernetes, JobDownloads, JobCompletes, JobFails, JobExpires, CreateApp, Upload, vars
  <2>4. ~Begin(r)
    BY DEF Begin, BeginStage, BeginSourcePatch, BeginDeploy, BeginRedeploy, BeginRestart,
       BeginDelete, Start, At
  <2>5. \/ Fail(r) \/ UnstageEnv(r) \/ UnstageDone(r)
        \/ \E s \in Stage : UnstageJob(r, s)
        \/ \E b \in Blob : UnstageBlob(r, b)
    <3>1. Proceed(r) \/ Fail(r)
      BY <2>2, <2>3, <2>4 DEF Next
    <3>2. ~ (\/ CheckStaging(r) \/ ResolveBlob(r) \/ RepackBlob(r) \/ CreateJobEnv(r)
             \/ CreateJob(r) \/ PatchApp(r) \/ AwaitJob(r) \/ FetchApp(r)
             \/ UpdateImageURL(r) \/ RefetchApp(r))
      BY DEF CheckStaging, ResolveBlob, RepackBlob, CreateJobEnv, CreateJob, PatchApp,
         AwaitJob, FetchApp, UpdateImageURL, RefetchApp, At
    <3>3. ~ (\/ DeployRefused(r) \/ LookupApp(r) \/ HelmDeploy(r) \/ SwapPodImage(r)
             \/ SetOrigin(r) \/ UnstageList(r) \/ RemoveRelease(r) \/ DeleteCR(r)
             \/ DeleteImage(r))
      BY DEF DeployRefused, LookupApp, HelmDeploy, SwapPodImage, SetOrigin, UnstageList,
         RemoveRelease, DeleteCR, DeleteImage, At
    <3> QED BY <3>1, <3>2, <3>3 DEF Proceed
  <2> HIDE DEF k
  <2>6. CASE Fail(r) \/ UnstageDone(r)
    BY <2>1, <2>6 DEF Fail, UnstageDone, k
  <2>7. CASE UnstageEnv(r)
    <3>1. req[r].cur # k
      BY <2>1, <2>7 DEF UnstageEnv, IInv, StagingInv, UnstagingInv
    <3> QED BY <2>1, <2>7, <3>1 DEF UnstageEnv, k
  <2>8. ASSUME NEW s \in Stage, UnstageJob(r, s)
        PROVE  job'[k] = job[k] /\ UNCHANGED <<jobenv, store>>
    BY <2>1, <2>8 DEF UnstageJob, IInv, TypeOK
  <2>9. ASSUME NEW b \in Blob, UnstageBlob(r, b)
        PROVE  UNCHANGED <<job, jobenv>> /\ store'[job[k].blob] = store[job[k].blob]
    BY <2>1, <2>9 DEF UnstageBlob, IInv, TypeOK
  <2> QED BY <2>1, <2>5, <2>6, <2>7, <2>8, <2>9 DEF k
<1>2. IInv /\ KeepInv /\ [Next]_vars => [Spared]_vars
  BY <1>1
<1>3. UnstageSparesKept <=> [][Spared]_vars
  BY DEF UnstageSparesKept
<1> QED BY <1>2, <1>3, InitKeep, KeepStep, Invariance, PTL DEF Spec
-----------------------------------------------------------------------------
(* Requests that are served one at a time *)

OneAtATime == \A q, r \in Req : q = r

\* A workload is there only for an application, which is deleted after it.
WorkloadInv ==
  /\ NoOrphanWorkload
  /\ \A r \in Req : /\ At(r, "helm") => cr.exists
                    /\ At(r, "delcr") => ~release.exists

\* From the deployment on a request holds the stage id of the CR, which it keeps.
Keeping(r) == req[r].pc \in {"helm", "delimage", "list", "unstage", "env"}

\* The job and the blob of the attempt in the CR are there, and of an attempt that is
\* about to be recorded.
SourceInv ==
  /\ ~cr.exists => cr.stageid = None
  /\ cr.stageid = None => cr.blobuid = None
  /\ cr.stageid # None => cr.stageid \in Listed /\ store[cr.blobuid] = "stored"
  /\ \A r \in Req :
       /\ req[r].pc \in {"secret", "job", "patch"} => store[req[r].blob] = "stored"
       /\ At(r, "patch") => req[r].uid \in Listed
       /\ req[r].keep = IF Keeping(r) THEN cr.stageid ELSE None
       /\ At(r, "helm") => cr.exists
\* The workload and the application resource stay, a request goes elsewhere.
LEMMA WorkloadAside ==
  ASSUME OneAtATime, WorkloadInv, NEW r \in Req,
         cr'.exists = cr.exists, release'.exists = release.exists,
         req'[r].pc \notin {"helm", "delcr"}
  PROVE  WorkloadInv'
BY DEF WorkloadInv, NoOrphanWorkload, OneAtATime, At

\* The application resource a request writes differs in the parts it changes only.
LEMMA CRWritten ==
  ASSUME IInv, NEW r \in Req, UpdateImageURL(r) \/ SetOrigin(r) \/ PatchApp(r)
  PROVE  /\ cr'.exists = cr.exists
         /\ ~PatchApp(r) => cr'.stageid = cr.stageid /\ cr'.blobuid = cr.blobuid
<1>c. cr \in CR
  BY DEF IInv, TypeOK
<1>1. CASE UpdateImageURL(r)
  <2>1. CASE At(r, "image") /\ r \notin stale /\ cr' = [req[r].copy EXCEPT !.imageurl = req[r].img]
    <3>1. req[r].copy = cr
      BY <2>1 DEF IInv, AttemptInv, CopyInv
    <3> QED BY <1>c, <2>1, <3>1 DEF CR
  <2> QED BY <1>1, <2>1 DEF UpdateImageURL
<1>2. CASE SetOrigin(r)
  BY <1>2, <1>c DEF SetOrigin, WriteCR, CR
<1>3. CASE PatchApp(r)
  BY <1>3, <1>c DEF PatchApp, WriteCR, CR
<1> QED BY <1>1, <1>2, <1>3

\* The places that these actions lead to
LEMMA PlacesAfter ==
  ASSUME TypeOK, NEW r \in Req
  PROVE  /\ ResolveBlob(r) \/ RepackBlob(r) => req'[r].pc \in {"secret", "idle"}
         /\ CreateJobEnv(r) => req'[r].pc = "job"
         /\ CreateJob(r) => req'[r].pc = "patch"
         /\ PatchApp(r) => req'[r].pc \in {"await", "idle"}
         /\ LookupApp(r) => req'[r].pc \in {"helm", "idle"}
         /\ HelmDeploy(r) => req'[r].pc \in {"list", "origin", "idle"}
         /\ UnstageList(r) => req'[r].pc = "unstage"
         /\ \A s : UnstageJob(r, s) => req'[r].pc \in {"env", "idle"}
         /\ UnstageEnv(r) => req'[r].pc \in {"unstage", "idle"}
         /\ \A b : UnstageBlob(r, b) => req'[r].pc = "unstage"
         /\ RemoveRelease(r) => req'[r].pc = "delcr"
         /\ DeleteCR(r) => req'[r].pc \in {"list", "delimage", "idle"}
         /\ DeleteImage(r) => req'[r].pc = "list"
<1>r. req[r] \in Request /\ req \in [Req -> Request]
  BY DEF TypeOK
<1>b. ASSUME NEW new, Become(r, new) PROVE req'[r] = new
  BY <1>b, <1>r DEF Become
<1>e. End(r) => req'[r].pc = "idle"
  BY <1>b DEF End, Idle
<1>g. ASSUME NEW pc, Goto(r, pc) PROVE req'[r].pc = pc
  BY <1>g, <1>b, <1>r DEF Goto, Request
<1>a. ASSUME NEW b, Assemble(r, b) PROVE req'[r].pc = "secret"
  BY <1>a, <1>b, <1>r DEF Assemble, Request
<1>1. ResolveBlob(r) \/ RepackBlob(r) => req'[r].pc \in {"secret", "idle"}
  BY <1>a, <1>e DEF ResolveBlob, RepackBlob, AssembleNew
<1>2. CreateJobEnv(r) => req'[r].pc = "job"
  BY <1>g DEF CreateJobEnv
<1>3. CreateJob(r) => req'[r].pc = "patch"
  BY <1>b, <1>r DEF CreateJob, Request
<1>4. PatchApp(r) => req'[r].pc \in {"await", "idle"}
  BY <1>b, <1>e, <1>r DEF PatchApp, Request
<1>5. LookupApp(r) => req'[r].pc \in {"helm", "idle"}
  BY <1>b, <1>e, <1>r DEF LookupApp, Request
<1>6. HelmDeploy(r) => req'[r].pc \in {"list", "origin", "idle"}
  BY <1>b, <1>e, <1>r DEF HelmDeploy, AfterDeploy, Idle, Request
<1>7. UnstageList(r) => req'[r].pc = "unstage"
  BY <1>b, <1>r DEF UnstageList, Request
<1>8. ASSUME NEW s, UnstageJob(r, s) PROVE req'[r].pc \in {"env", "idle"}
  BY <1>8, <1>b, <1>e, <1>r DEF UnstageJob, Request
<1>9. UnstageEnv(r) => req'[r].pc \in {"unstage", "idle"}
  BY <1>b, <1>e, <1>r DEF UnstageEnv, Request
<1>10. ASSUME NEW b, UnstageBlob(r, b) PROVE req'[r].pc = "unstage"
  BY <1>10, <1>b, <1>r DEF UnstageBlob, At, Request
<1>11. RemoveRelease(r) => req'[r].pc = "delcr"
  BY <1>g DEF RemoveRelease
<1>12. DeleteCR(r) => req'[r].pc \in {"list", "delimage", "idle"}
  BY <1>e, <1>g DEF DeleteCR
<1>13. DeleteImage(r) => req'[r].pc = "list"
  BY <1>b, <1>r DEF DeleteImage, Request
<1> QED
  BY <1>1, <1>2, <1>3, <1>4, <1>5, <1>6, <1>7, <1>8, <1>9, <1>10, <1>11, <1>12, <1>13

LEMMA WorkloadStep ==
  ASSUME OneAtATime, IInv, WorkloadInv, [Next]_vars PROVE WorkloadInv'
<1>t. TypeOK /\ cr \in CR /\ release \in Release
  BY DEF IInv, TypeOK
<1>1. ASSUME UNCHANGED req, cr'.exists \/ cr'.exists = cr.exists, UNCHANGED release
      PROVE  WorkloadInv'
  BY <1>1 DEF WorkloadInv, NoOrphanWorkload, At
<1>2. ASSUME UNCHANGED vars \/ Kubernetes \/ CreateApp \/ \E b \in Blob : Upload(b)
      PROVE  WorkloadInv'
  <2>1. UNCHANGED <<req, release>> /\ (UNCHANGED cr \/ cr'.exists)
    BY <1>2, <1>t DEF vars, Kubernetes, JobDownloads, JobCompletes, JobFails, JobExpires,
       CreateApp, Upload, WriteCR, NoCR
  <2> QED BY <1>1, <2>1
<1>3. ASSUME NEW r \in Req, Away(r), cr'.exists = cr.exists, release'.exists = release.exists
      PROVE  WorkloadInv'
  BY <1>3, WorkloadAside DEF Away
<1>4. ASSUME NEW r \in Req, Begin(r) PROVE WorkloadInv'
  <2>1. UNCHANGED <<cr, release>>
    BY <1>4 DEF Begin, BeginStage, BeginSourcePatch, BeginDeploy, BeginRedeploy, BeginRestart,
       BeginDelete
  <2> QED BY <1>3, <1>4, <1>t, <2>1, AwayBegin
<1>5. ASSUME NEW r \in Req,
             \/ CheckStaging(r) \/ AwaitJob(r) \/ FetchApp(r) \/ UpdateImageURL(r)
             \/ RefetchApp(r) \/ DeployRefused(r) \/ SwapPodImage(r) \/ SetOrigin(r)
             \/ UnstageDone(r) \/ Fail(r)
      PROVE  WorkloadInv'
  <2>1. cr'.exists = cr.exists
    BY <1>5, CRWritten DEF CheckStaging, AwaitJob, FetchApp, RefetchApp, DeployRefused,
       SwapPodImage, UnstageDone, Fail
  <2>2. release'.exists = release.exists
    BY <1>5, <1>t DEF CheckStaging, AwaitJob, FetchApp, UpdateImageURL, RefetchApp,
       DeployRefused, SwapPodImage, SetOrigin, UnstageDone, Fail, Release
  <2> QED BY <1>3, <1>5, <1>t, <2>1, <2>2, AwayProceed
<1>6. ASSUME NEW r \in Req,
             \/ ResolveBlob(r) \/ RepackBlob(r) \/ CreateJobEnv(r) \/ CreateJob(r) \/ PatchApp(r)
             \/ UnstageList(r) \/ UnstageEnv(r) \/ DeleteImage(r)
             \/ \E s \in Stage : UnstageJob(r, s)
             \/ \E b \in Blob : UnstageBlob(r, b)
      PROVE  WorkloadInv'
  <2>1. req'[r].pc \notin {"helm", "delcr"}
    BY <1>6, <1>t, PlacesAfter
  <2>2. cr'.exists = cr.exists /\ UNCHANGED release
    BY <1>6, CRWritten DEF ResolveBlob, RepackBlob, CreateJobEnv, CreateJob, PatchApp,
       UnstageList, UnstageEnv, DeleteImage, UnstageJob, UnstageBlob
  <2> QED BY <2>1, <2>2, WorkloadAside
<1>7. ASSUME NEW r \in Req, LookupApp(r) PROVE WorkloadInv'
  <2>1. UNCHANGED <<cr, release>> /\ req'[r].pc \in {"helm", "idle"}
    BY <1>7, <1>t, PlacesAfter DEF LookupApp
  <2>2. req'[r].pc = "helm" => cr.exists
    <3>1. ~cr.exists => End(r)
      BY <1>7 DEF LookupApp
    <3> QED BY <1>t, <3>1 DEF End, Become, Idle, TypeOK
  <2> QED BY <2>1, <2>2 DEF WorkloadInv, NoOrphanWorkload, OneAtATime, At
<1>8. ASSUME NEW r \in Req, HelmDeploy(r) PROVE WorkloadInv'
  <2>1. UNCHANGED cr /\ req'[r].pc \in {"list", "origin", "idle"} /\ cr.exists
    BY <1>8, <1>t, PlacesAfter DEF HelmDeploy, WorkloadInv
  <2> QED BY <2>1 DEF WorkloadInv, NoOrphanWorkload, OneAtATime, At
<1>9. ASSUME NEW r \in Req, RemoveRelease(r) PROVE WorkloadInv'
  <2>1. UNCHANGED cr /\ req'[r].pc = "delcr" /\ ~release'.exists
    BY <1>9, <1>t, PlacesAfter DEF RemoveRelease, NoRelease
  <2> QED BY <2>1 DEF WorkloadInv, NoOrphanWorkload, OneAtATime, At
<1>10. ASSUME NEW r \in Req, DeleteCR(r) PROVE WorkloadInv'
  <2>1. UNCHANGED release /\ req'[r].pc \in {"list", "delimage", "idle"} /\ ~release.exists
    BY <1>10, <1>t, PlacesAfter DEF DeleteCR, WorkloadInv
  <2> QED BY <2>1 DEF WorkloadInv, NoOrphanWorkload, OneAtATime, At
<1> QED
  BY <1>2, <1>4, <1>5, <1>6, <1>7, <1>8, <1>9, <1>10 DEF Next, Proceed

\* When requests are served one at a time, a workload never outlives the application,
\* also after requests that stopped halfway: Delete removes the release before the
\* resource, and a deployment has read the resource that only a deletion removes.
THEOREM NoWorkloadOrphaned ==
  ASSUME OneAtATime PROVE Spec => []NoOrphanWorkload
<1>1. Init => WorkloadInv
  BY DEF Init, WorkloadInv, NoOrphanWorkload, NoRelease, Idle, At
<1>2. IInv /\ WorkloadInv /\ [Next]_vars => WorkloadInv'
  BY WorkloadStep
<1>3. WorkloadInv => NoOrphanWorkload
  BY DEF WorkloadInv
<1> QED BY <1>1, <1>2, <1>3, Invariance, PTL DEF Spec

\* The stage and the blob of the CR stay, no job and no blob goes away, and the request
\* that goes on holds what it should.
LEMMA SourceAside ==
  ASSUME OneAtATime, IInv, SourceInv, NEW r \in Req,
         cr'.exists = cr.exists, cr'.stageid = cr.stageid, cr'.blobuid = cr.blobuid,
         Listed \subseteq Listed', \A b \in Blob : store[b] = "stored" => store'[b] = "stored",
         req'[r].pc \in {"secret", "job", "patch"} => store'[req'[r].blob] = "stored",
         req'[r].pc = "patch" => req'[r].uid \in Listed',
         req'[r].keep = IF Keeping(r)' THEN cr.stageid ELSE None,
         req'[r].pc = "helm" => cr.exists
  PROVE  SourceInv'
<1>1. cr.stageid # None => cr.blobuid \in Blob
  BY DEF IInv, TypeOK, AttemptInv, CRNamesOneAttempt, CR, StagingInv, BlobInv
<1> QED BY <1>1 DEF SourceInv, OneAtATime, At

\* Without expiry only an Unstage deletes jobs.
LEMMA JobsStayListed ==
  ASSUME ~TTL, IInv, [Next]_vars, \A r \in Req, s \in Stage : ~UnstageJob(r, s)
  PROVE  Listed \subseteq Listed'
<1>1. UNCHANGED job => Listed \subseteq Listed'
  BY DEF Listed
<1>2. ASSUME NEW s \in Stage, JobDownloads(s) \/ JobCompletes(s) \/ JobFails(s)
      PROVE  Listed \subseteq Listed'
  <2>1. \E st \in {"building", "complete", "failed"} : job' = [job EXCEPT ![s].st = st]
    BY <1>2 DEF JobDownloads, JobCompletes, JobFails
  <2> QED BY <2>1 DEF Listed, IInv, TypeOK, Job
<1>3. ASSUME NEW r \in Req, CreateJob(r) PROVE Listed \subseteq Listed'
  BY <1>3 DEF CreateJob, Listed, IInv, TypeOK
<1>4. ASSUME NEW s \in Stage PROVE ~JobExpires(s)
  BY DEF JobExpires
<1>5. ASSUME NEW r \in Req, Begin(r) \/ Fail(r) PROVE UNCHANGED job
  BY <1>5 DEF Begin, BeginStage, BeginSourcePatch, BeginDeploy, BeginRedeploy,
     BeginRestart, BeginDelete, Fail
<1>6. ASSUME NEW r \in Req, Proceed(r), ~CreateJob(r) PROVE UNCHANGED job
  BY <1>6 DEF Proceed, CheckStaging, ResolveBlob, RepackBlob, CreateJobEnv, PatchApp, AwaitJob,
     FetchApp, UpdateImageURL, RefetchApp, DeployRefused, LookupApp, HelmDeploy, SwapPodImage,
     SetOrigin, UnstageList, UnstageEnv, UnstageBlob, UnstageDone, RemoveRelease, DeleteCR,
     DeleteImage
<1>7. ASSUME CreateApp \/ \E b \in Blob : Upload(b) PROVE UNCHANGED job
  BY <1>7 DEF CreateApp, Upload
<1> QED BY <1>1, <1>2, <1>3, <1>4, <1>5, <1>6, <1>7 DEF Next, Kubernetes, vars

\* What a request that goes on holds of the attempt
LEMMA Holds ==
  ASSUME TypeOK, NEW r \in Req
  PROVE  /\ CreateJobEnv(r) => req'[r].blob = req[r].blob /\ req'[r].keep = req[r].keep
         /\ CreateJob(r) =>
              /\ req'[r].blob = req[r].blob /\ req'[r].uid = req[r].uid
              /\ req'[r].keep = req[r].keep
         /\ HelmDeploy(r) =>
              /\ req'[r].pc = "list" => req'[r].keep = req[r].keep
              /\ req'[r].pc # "list" => req'[r].keep = None
         /\ DeleteImage(r) \/ UnstageList(r) => req'[r].keep = req[r].keep
         /\ UnstageEnv(r) \/ (\E b \in Blob : UnstageBlob(r, b)) =>
              req'[r] = Idle \/ req'[r].keep = req[r].keep
         /\ \A b \in Blob : Assemble(r, b) => req'[r].blob = b
<1>r. req[r] \in Request /\ req \in [Req -> Request]
  BY DEF TypeOK
<1>b. ASSUME NEW new, Become(r, new) PROVE req'[r] = new
  BY <1>b, <1>r DEF Become
<1>1. CreateJobEnv(r) => req'[r].blob = req[r].blob /\ req'[r].keep = req[r].keep
  BY <1>b, <1>r DEF CreateJobEnv, Goto, Request
<1>2. CreateJob(r) => /\ req'[r].blob = req[r].blob /\ req'[r].uid = req[r].uid
                      /\ req'[r].keep = req[r].keep
  BY <1>b, <1>r DEF CreateJob, Request
<1>3. HelmDeploy(r) => /\ req'[r].pc = "list" => req'[r].keep = req[r].keep
                       /\ req'[r].pc # "list" => req'[r].keep = None
  <2> SUFFICES ASSUME HelmDeploy(r)
               PROVE  /\ req'[r].pc = "list" => req'[r].keep = req[r].keep
                      /\ req'[r].pc # "list" => req'[r].keep = None
    OBVIOUS
  <2> DEFINE list == [req[r] EXCEPT !.pc = "list", !.img = NoImage]
             origin == [Idle EXCEPT !.op = req[r].op, !.pc = "origin"]
  <2>1. list.pc = "list" /\ list.keep = req[r].keep
    BY <1>r DEF Request
  <2>2. origin.pc = "origin" /\ origin.keep = None /\ Idle.pc = "idle" /\ Idle.keep = None
    BY DEF Idle
  <2>3. Become(r, list) \/ Become(r, origin) \/ Become(r, Idle)
    BY DEF HelmDeploy, AfterDeploy, End
  <2> HIDE DEF list, origin
  <2>4. req'[r] \in {list, origin, Idle}
    BY <1>b, <2>3
  <2> QED BY <2>1, <2>2, <2>4
<1>4. DeleteImage(r) \/ UnstageList(r) => req'[r].keep = req[r].keep
  BY <1>b, <1>r DEF DeleteImage, UnstageList, Request
<1>5. UnstageEnv(r) \/ (\E b \in Blob : UnstageBlob(r, b)) =>
        req'[r] = Idle \/ req'[r].keep = req[r].keep
  BY <1>b, <1>r DEF UnstageEnv, UnstageBlob, End, Request
<1>6. ASSUME NEW b \in Blob, Assemble(r, b) PROVE req'[r].blob = b
  BY <1>6, <1>b, <1>r DEF Assemble, Request
<1> QED BY <1>1, <1>2, <1>3, <1>4, <1>5, <1>6

LEMMA SourceStep ==
  ASSUME OneAtATime, ~TTL, IInv, KeepInv, SourceInv, [Next]_vars PROVE SourceInv'
<1>t. TypeOK /\ cr \in CR /\ req \in [Req -> Request] /\ (\A r \in Req : req[r] \in Request)
      /\ None \notin Stage \cup Blob
  BY ConstantsAssumption DEF IInv, TypeOK
<1>i. Idle.pc = "idle" /\ Idle.keep = None
  BY DEF Idle
<1>j. (\A r \in Req, s \in Stage : ~UnstageJob(r, s)) => Listed \subseteq Listed'
  BY JobsStayListed
<1>s. UNCHANGED store => \A b \in Blob : store[b] = "stored" => store'[b] = "stored"
  OBVIOUS
<1>1. ASSUME UNCHANGED <<cr, req>>, Listed \subseteq Listed',
             \A b \in Blob : store[b] = "stored" => store'[b] = "stored"
      PROVE  SourceInv'
  <2>1. cr.stageid # None => cr.blobuid \in Blob
    BY DEF IInv, AttemptInv, CRNamesOneAttempt, TypeOK, CR, StagingInv, BlobInv
  <2>2. \A r \in Req : req[r].pc \in {"secret", "job", "patch"} => req[r].blob \in Blob
    BY DEF IInv, StagingInv, BlobInv, PatchInv, At
  <2> QED BY <1>1, <2>1, <2>2 DEF SourceInv, At, Keeping
<1>2. ASSUME UNCHANGED vars \/ Kubernetes \/ \E b \in Blob : Upload(b) PROVE SourceInv'
  <2>1. UNCHANGED <<cr, req>> /\ \A b \in Blob : store[b] = "stored" => store'[b] = "stored"
    BY <1>2 DEF vars, Kubernetes, JobDownloads, JobCompletes, JobFails, JobExpires,
       Upload, Stores, IInv, TypeOK
  <2>2. \A r \in Req, s \in Stage : ~UnstageJob(r, s)
    <3> SUFFICES ASSUME NEW r \in Req, NEW s \in Stage, UnstageJob(r, s) PROVE FALSE
      OBVIOUS
    <3>1. At(r, "unstage") /\ req'[r].pc \in {"env", "idle"}
      BY <1>t, PlacesAfter DEF UnstageJob
    <3> QED BY <2>1, <3>1 DEF At
  <2> QED BY <1>1, <1>j, <2>1, <2>2
<1>3. ASSUME CreateApp PROVE SourceInv'
  <2>1. UNCHANGED <<req, job, store>> /\ ~cr.exists
        /\ cr'.exists /\ cr'.stageid = None /\ cr'.blobuid = None
    BY <1>3 DEF CreateApp, WriteCR, NoCR
  <2>2. cr.stageid = None
    BY <2>1 DEF SourceInv
  <2> QED BY <2>1, <2>2 DEF SourceInv, At, Keeping, Listed
<1>4. ASSUME NEW r \in Req, Away(r), ~Keeping(r) \/ req'[r] = Idle,
             cr'.exists = cr.exists, cr'.stageid = cr.stageid, cr'.blobuid = cr.blobuid,
             UNCHANGED <<job, store>>
      PROVE  SourceInv'
  <2>1. req'[r].keep = None /\ ~Keeping(r)'
    BY <1>4, <1>i DEF Away, Keeping, SourceInv
  <2>2. Listed \subseteq Listed'
    BY <1>4 DEF Listed
  <2>3. req'[r].pc \notin {"secret", "job", "patch", "helm"}
    BY <1>4 DEF Away
  <2> QED BY <1>4, <1>s, <2>1, <2>2, <2>3, SourceAside
<1>5. ASSUME NEW r \in Req, Begin(r) PROVE SourceInv'
  <2>1. UNCHANGED <<cr, job, store>> /\ At(r, "idle")
    BY <1>5 DEF Begin, BeginStage, BeginSourcePatch, BeginDeploy, BeginRedeploy, BeginRestart,
       BeginDelete, Start
  <2> QED BY <1>4, <1>5, <1>t, <2>1, AwayBegin DEF At, Keeping
<1>e. ASSUME NEW r \in Req, End(r), UNCHANGED <<cr, job, store>> PROVE SourceInv'
  <2>1. req'[r] = Idle /\ \A q \in Req : q # r => req'[q] = req[q]
    BY <1>e, <1>t DEF End, Become
  <2>2. Away(r)
    BY <2>1, <1>i DEF Away
  <2> QED BY <1>4, <1>e, <2>1, <2>2
<1>6. ASSUME NEW r \in Req,
             \/ CheckStaging(r) \/ AwaitJob(r) \/ FetchApp(r) \/ UpdateImageURL(r)
             \/ RefetchApp(r) \/ DeployRefused(r) \/ SwapPodImage(r) \/ SetOrigin(r)
      PROVE  SourceInv'
  <2>1. /\ cr'.exists = cr.exists /\ cr'.stageid = cr.stageid /\ cr'.blobuid = cr.blobuid
    <3>1. UpdateImageURL(r) \/ SetOrigin(r) => ~PatchApp(r)
      BY DEF UpdateImageURL, SetOrigin, PatchApp, At
    <3>2. CASE UpdateImageURL(r) \/ SetOrigin(r)
      BY <3>1, <3>2, CRWritten
    <3>3. CASE UNCHANGED cr
      BY <3>3
    <3> QED BY <1>6, <3>2, <3>3 DEF CheckStaging, AwaitJob, FetchApp, RefetchApp, DeployRefused,
            SwapPodImage
  <2>2. UNCHANGED <<job, store>> /\ ~Keeping(r)
    BY <1>6 DEF CheckStaging, AwaitJob, FetchApp, UpdateImageURL, RefetchApp,
       DeployRefused, SwapPodImage, SetOrigin, Keeping, At
  <2> QED BY <1>4, <1>6, <1>t, <2>1, <2>2, AwayProceed
<1>7. ASSUME NEW r \in Req, UnstageDone(r) \/ Fail(r) PROVE SourceInv'
  <2>1. UNCHANGED <<cr, job, store>>
    BY <1>7 DEF UnstageDone, Fail
  <2>2. CASE End(r)
    BY <1>e, <2>1, <2>2
  <2>3. CASE Become(r, [Idle EXCEPT !.op = req[r].op, !.pc = "origin"])
    <3>1. req'[r].keep = None /\ req'[r].pc = "origin"
      BY <2>3, <1>t DEF Become, Idle
    <3>2. Listed \subseteq Listed'
      BY <2>1 DEF Listed
    <3> QED BY <1>s, <2>1, <3>1, <3>2, SourceAside DEF Keeping
  <2> QED BY <1>7, <2>2, <2>3 DEF UnstageDone, Fail, AfterDeploy
<1>8. ASSUME NEW r \in Req, ResolveBlob(r) \/ RepackBlob(r) PROVE SourceInv'
  <2>1. UNCHANGED <<cr, job>> /\ ~Keeping(r) /\ Listed \subseteq Listed'
    BY <1>8 DEF ResolveBlob, RepackBlob, Listed, Keeping, At
  <2>2. CASE End(r) /\ UNCHANGED store
    BY <1>e, <2>1, <2>2
  <2>3. CASE \E b \in Blob : store'[b] = "stored" /\ Assemble(r, b)
                /\ \A c \in Blob : store[c] = "stored" => store'[c] = "stored"
    <3>1. PICK b \in Blob : store'[b] = "stored" /\ Assemble(r, b)
                /\ \A c \in Blob : store[c] = "stored" => store'[c] = "stored"
      BY <2>3
    <3>2. req'[r].pc \in {"secret", "idle"} /\ req'[r].blob = b
      BY <1>8, <1>t, <3>1, PlacesAfter, Holds
    <3>3. req'[r].keep = None
      <4>1. Elsewhere(r)
        BY <1>8, <1>t, ElsewhereProceed
      <4> QED BY <2>1, <4>1 DEF SourceInv, Elsewhere
    <3>4. ~Keeping(r)'
      BY <3>2 DEF Keeping
    <3> QED BY <2>1, <3>1, <3>2, <3>3, <3>4, SourceAside
  <2>4. ASSUME NEW b \in Blob, store[b] = "none" \/ store[b] = "stored", Stores(b) \/ UNCHANGED store
        PROVE  \A c \in Blob : store[c] = "stored" => store'[c] = "stored"
    BY <2>4 DEF Stores, IInv, TypeOK
  <2>5. CASE AssembleNew(r)
    <3>1. PICK b \in Blob : store[b] = "none" /\ Stores(b) /\ Assemble(r, b)
      BY <2>5 DEF AssembleNew
    <3>2. store'[b] = "stored"
      BY <3>1 DEF Stores, IInv, TypeOK
    <3> QED BY <2>3, <2>4, <3>1, <3>2
  <2>6. CASE BlobThere(WantedBlob(r)) /\ Assemble(r, WantedBlob(r)) /\ UNCHANGED store
    <3>1. WantedBlob(r) \in Blob /\ store[WantedBlob(r)] = "stored"
      <4>1. WantedBlob(r) \in Blob \cup {None}
        BY <1>t DEF WantedBlob, Request, CR
      <4> QED BY <2>6, <4>1 DEF BlobThere
    <3> QED BY <2>3, <2>6, <3>1
  <2> QED BY <1>8, <2>2, <2>5, <2>6 DEF ResolveBlob, RepackBlob
<1>9. ASSUME NEW r \in Req, CreateJobEnv(r) PROVE SourceInv'
  <2>1. UNCHANGED <<cr, job, store>> /\ At(r, "secret")
    BY <1>9 DEF CreateJobEnv
  <2>2. /\ req'[r].pc = "job" /\ req'[r].blob = req[r].blob /\ req'[r].keep = req[r].keep
        /\ store[req[r].blob] = "stored" /\ req[r].keep = None
    BY <1>9, <1>t, <2>1, PlacesAfter, Holds DEF SourceInv, At, Keeping
  <2>3. ~Keeping(r)' /\ Listed \subseteq Listed'
    BY <2>1, <2>2 DEF Keeping, Listed
  <2> QED BY <2>1, <2>2, <2>3, SourceAside
<1>10. ASSUME NEW r \in Req, CreateJob(r) PROVE SourceInv'
  <2>1. UNCHANGED <<cr, store>> /\ At(r, "job") /\ req[r].uid \in Stage
    BY <1>10 DEF CreateJob, IInv, StagingInv, PreparingInv, Preparing, At
  <2>2. /\ req'[r].pc = "patch" /\ req'[r].blob = req[r].blob /\ req'[r].keep = req[r].keep
        /\ req'[r].uid = req[r].uid
        /\ store[req[r].blob] = "stored" /\ req[r].keep = None
    BY <1>10, <1>t, <2>1, PlacesAfter, Holds DEF SourceInv, At, Keeping
  <2>3. job'[req[r].uid].st = "pending" /\ \A s \in Stage : s # req[r].uid => job'[s] = job[s]
    BY <1>10, <2>1 DEF CreateJob, IInv, TypeOK
  <2>4. ~Keeping(r)' /\ Listed \subseteq Listed' /\ req[r].uid \in Listed'
    BY <2>1, <2>2, <2>3 DEF Keeping, Listed
  <2> QED BY <2>1, <2>2, <2>4, SourceAside
<1>11. ASSUME NEW r \in Req, PatchApp(r) PROVE SourceInv'
  <2>1. /\ UNCHANGED <<job, store>> /\ At(r, "patch") /\ req'[r].pc \in {"await", "idle"}
        /\ store[req[r].blob] = "stored" /\ req[r].uid \in Listed /\ req[r].keep = None
    BY <1>11, <1>t, PlacesAfter DEF PatchApp, SourceInv, At, Keeping
  <2>2. req'[r].keep = None
    <3>1. Elsewhere(r)
      BY <1>11, <1>t, ElsewhereProceed
    <3> QED BY <2>1, <3>1 DEF Elsewhere
  <2>3. ~Keeping(r)' /\ Listed = Listed'
    BY <2>1 DEF Keeping, Listed
  <2>4. CASE cr.exists
    <3>1. cr'.exists /\ cr'.stageid = req[r].uid /\ cr'.blobuid = req[r].blob
      BY <1>11, <1>t, <2>4 DEF PatchApp, WriteCR, CR
    <3>2. req[r].uid # None
      BY <1>t, <2>1 DEF Listed
    <3> QED BY <2>1, <2>2, <2>3, <3>1, <3>2 DEF SourceInv, OneAtATime, At
  <2>5. CASE ~cr.exists
    <3>1. UNCHANGED cr
      BY <1>11, <2>5 DEF PatchApp
    <3> QED BY <1>s, <2>1, <2>2, <2>3, <3>1, SourceAside
  <2> QED BY <2>4, <2>5
<1>12. ASSUME NEW r \in Req, LookupApp(r) PROVE SourceInv'
  <2>1. UNCHANGED <<cr, job, store>>
    BY <1>12 DEF LookupApp
  <2>2. CASE End(r)
    BY <1>e, <2>1, <2>2
  <2>3. CASE ~End(r)
    <3> DEFINE new == [req[r] EXCEPT !.pc = "helm", !.uid = None, !.keep = cr.stageid,
                                     !.img = cr.imageurl]
    <3>1. cr.exists /\ Become(r, new)
      BY <1>12, <2>3 DEF LookupApp
    <3>2. new.pc = "helm" /\ new.keep = cr.stageid
      BY <1>t DEF Request
    <3> HIDE DEF new
    <3>3. req'[r] = new
      BY <1>t, <3>1 DEF Become
    <3>4. Keeping(r)' /\ Listed \subseteq Listed'
      BY <2>1, <3>2, <3>3 DEF Keeping, Listed
    <3> QED BY <1>s, <2>1, <3>1, <3>2, <3>3, <3>4, SourceAside
  <2> QED BY <2>2, <2>3
<1>13. ASSUME NEW r \in Req, HelmDeploy(r) PROVE SourceInv'
  <2>1. /\ UNCHANGED <<cr, job, store>> /\ At(r, "helm")
        /\ req'[r].pc \in {"list", "origin", "idle"} /\ req[r].keep = cr.stageid
        /\ req'[r].pc = "list" => req'[r].keep = req[r].keep
        /\ req'[r].pc # "list" => req'[r].keep = None
    BY <1>13, <1>t, PlacesAfter, Holds DEF HelmDeploy, SourceInv, Keeping, At
  <2>2. (Keeping(r)' <=> req'[r].pc = "list") /\ Listed \subseteq Listed'
    BY <2>1 DEF Keeping, Listed
  <2> QED BY <1>s, <2>1, <2>2, SourceAside
<1>14. ASSUME NEW r \in Req, UnstageList(r) \/ DeleteImage(r) PROVE SourceInv'
  <2>1. /\ UNCHANGED <<cr, job, store>> /\ Keeping(r)
        /\ req'[r].pc \in {"list", "unstage"} /\ req'[r].keep = req[r].keep
    BY <1>14, <1>t, PlacesAfter, Holds DEF UnstageList, DeleteImage, Keeping, At
  <2>2. req[r].keep = cr.stageid /\ Keeping(r)' /\ Listed \subseteq Listed'
    BY <2>1 DEF Keeping, SourceInv, Listed
  <2> QED BY <1>s, <2>1, <2>2, SourceAside
<1>15. ASSUME NEW r \in Req, NEW s \in Stage, UnstageJob(r, s) PROVE SourceInv'
  <2>1. CASE End(r) /\ UNCHANGED job
    BY <1>e, <1>15, <2>1 DEF UnstageJob
  <2>2. CASE ~ (End(r) /\ UNCHANGED job)
    <3> DEFINE new == [req[r] EXCEPT !.pc = "env", !.cur = s, !.ids = @ \ {s}]
    <3>1. /\ At(r, "unstage") /\ s \in req[r].ids /\ UNCHANGED <<cr, store>>
          /\ job' = [job EXCEPT ![s].st = "gone"] /\ Become(r, new)
      BY <1>15, <2>2 DEF UnstageJob
    <3>2. new.pc = "env" /\ new.keep = req[r].keep
      BY <1>t DEF Request
    <3> HIDE DEF new
    <3>3. req'[r] = new /\ req[r].keep = cr.stageid /\ Keeping(r)'
      BY <1>t, <3>1, <3>2 DEF Become, SourceInv, Keeping, At
    <3>4. cr.stageid \in Listed => cr.stageid # s
      BY <3>1, <3>3 DEF KeepInv, At
    <3>5. cr.stageid \in Listed => cr.stageid \in Listed'
      BY <3>1, <3>4 DEF Listed, IInv, TypeOK
    <3> QED BY <3>1, <3>2, <3>3, <3>5 DEF SourceInv, OneAtATime, At
  <2> QED BY <2>1, <2>2
<1>16. ASSUME NEW r \in Req, UnstageEnv(r) PROVE SourceInv'
  <2>1. UNCHANGED <<cr, job, store>> /\ At(r, "env")
    BY <1>16 DEF UnstageEnv
  <2>2. CASE End(r)
    BY <1>e, <2>1, <2>2
  <2>3. CASE ~End(r)
    <3> DEFINE new == [req[r] EXCEPT !.pc = "unstage", !.cur = None]
    <3>1. Become(r, new)
      BY <1>16, <2>3 DEF UnstageEnv
    <3>2. new.pc = "unstage" /\ new.keep = req[r].keep
      BY <1>t DEF Request
    <3> HIDE DEF new
    <3>3. req'[r] = new /\ req[r].keep = cr.stageid /\ Keeping(r)' /\ Listed \subseteq Listed'
      BY <1>t, <2>1, <3>1, <3>2 DEF Become, SourceInv, Keeping, At, Listed
    <3> QED BY <1>s, <2>1, <3>2, <3>3, SourceAside
  <2> QED BY <2>2, <2>3
<1>17. ASSUME NEW r \in Req, NEW b \in Blob, UnstageBlob(r, b) PROVE SourceInv'
  <2> DEFINE new == [req[r] EXCEPT !.dead = @ \ {b}]
  <2>1. /\ UNCHANGED <<cr, job>> /\ At(r, "unstage") /\ b \in req[r].dead /\ Become(r, new)
        /\ store' \in {store, [store EXCEPT ![b] = "deleted"]}
    BY <1>17 DEF UnstageBlob
  <2>2. new.pc = "unstage" /\ new.keep = req[r].keep
    BY <1>t, <2>1 DEF Request, At
  <2> HIDE DEF new
  <2>3. req'[r] = new /\ req[r].keep = cr.stageid /\ Keeping(r)' /\ Listed = Listed'
    BY <1>t, <2>1, <2>2 DEF Become, SourceInv, Keeping, At, Listed
  <2>4. cr.stageid # None => cr.blobuid # b /\ cr.blobuid \in Blob
    <3> SUFFICES ASSUME cr.stageid # None PROVE cr.blobuid # b /\ cr.blobuid \in Blob
      OBVIOUS
    <3>1. cr.stageid \in Listed /\ cr.blobuid = job[cr.stageid].blob
      BY DEF SourceInv, IInv, AttemptInv, CRNamesOneAttempt
    <3>2. job[cr.stageid].blob \notin req[r].dead
      BY <2>1, <2>3, <3>1 DEF KeepInv, At
    <3>3. job[cr.stageid].blob \in Blob
      BY <3>1 DEF IInv, StagingInv, BlobInv, Listed
    <3> QED BY <2>1, <3>1, <3>2, <3>3
  <2>5. cr.stageid # None => store'[cr.blobuid] = store[cr.blobuid]
    BY <2>1, <2>4 DEF IInv, TypeOK
  <2> QED BY <2>1, <2>2, <2>3, <2>5 DEF SourceInv, OneAtATime, At
<1>18. ASSUME NEW r \in Req, RemoveRelease(r) PROVE SourceInv'
  <2>1. UNCHANGED <<cr, job, store>> /\ req'[r].pc = "delcr" /\ ~Keeping(r) /\ Elsewhere(r)
    BY <1>18, <1>t, PlacesAfter, ElsewhereProceed DEF RemoveRelease, Keeping, At
  <2>2. req'[r].keep = None /\ ~Keeping(r)' /\ Listed \subseteq Listed'
    BY <2>1 DEF SourceInv, Elsewhere, Keeping, Listed
  <2> QED BY <1>s, <2>1, <2>2, SourceAside
<1>19. ASSUME NEW r \in Req, DeleteCR(r) PROVE SourceInv'
  <2>1. /\ UNCHANGED <<job, store>> /\ req'[r].pc \in {"list", "delimage", "idle"}
        /\ ~Keeping(r) /\ Elsewhere(r)
    BY <1>19, <1>t, PlacesAfter, ElsewhereProceed DEF DeleteCR, Keeping, At
  <2>2. req'[r].keep = None
    BY <2>1 DEF SourceInv, Elsewhere
  <2>3. CASE cr.exists
    <3>1. ~cr'.exists /\ cr'.stageid = None /\ cr'.blobuid = None
      BY <1>19, <2>3 DEF DeleteCR, WriteCR, NoCR
    <3> QED BY <2>1, <2>2, <3>1 DEF SourceInv, OneAtATime, At, Keeping
  <2>4. CASE ~cr.exists
    BY <1>e, <1>19, <2>4 DEF DeleteCR
  <2> QED BY <2>3, <2>4
<1> QED
  BY <1>2, <1>3, <1>5, <1>6, <1>7, <1>8, <1>9, <1>10, <1>11, <1>12, <1>13, <1>14, <1>15, <1>16,
     <1>17, <1>18, <1>19 DEF Next, Proceed

\* When requests are served one at a time and finished jobs do not expire, the blob that
\* the CR names stays in the store, also after requests that stopped halfway: the
\* clean-up of a deployment keeps the stage of the CR, whose job tells the blob to keep.
THEOREM SourceStays ==
  ASSUME OneAtATime, ~TTL PROVE Spec => []SourceKept
<1>1. Init => SourceInv
  BY DEF Init, SourceInv, NoCR, Idle, At, Keeping
<1>2. IInv /\ KeepInv /\ SourceInv /\ [Next]_vars => SourceInv'
  BY SourceStep
<1>3. SourceInv => SourceKept
  BY DEF SourceInv, SourceKept
<1> QED BY <1>1, <1>2, <1>3, InitKeep, KeepStep, Invariance, PTL DEF Spec
=============================================================================
