------------------------- MODULE HelmReleaseProofs --------------------------
(***************************************************************************)
(* Proofs about HelmRelease, for any number of requests and releases.      *)
(*                                                                         *)
(* Neither OneOperation nor NotRefusedAsPending is inductive.  The first   *)
(* follows from AgreeInv and HoldInv: whoever works on a release holds its *)
(* mutex, in the one client of the namespace.  The second says of a        *)
(* release checked before that it may become pending only by a request at  *)
(* work, which PendingInv says for all that wait.                          *)
(***************************************************************************)
EXTENDS HelmRelease, TLAPS

Holds(r) == req[r].pc \in {"held", "busy"}
Installs(r) == req[r].pc \in {"wait", "held"} /\ req[r].task = "install"

\* Every request that got its client has the client that is stored.
AgreeInv ==
  \A r \in Req :
    /\ req[r].pc # "idle" => req[r].rel \in Rel
    /\ req[r].pc \notin {"idle", "client"} => req[r].client = client /\ client \in Req

\* Who is at work on a release holds its mutex.
HoldInv == \A r \in Req : Holds(r) => mutex[req[r].client][req[r].rel] = r

\* Helm uninstalls a release that is marked so.
BusyInv == \A r \in Req : At(r, "busy") /\ Uninstalls(r) => StatusOf(r) = "uninstalling"

\* A release that is to be installed is pending only while somebody is at work on it.
PendingInv ==
  \A r \in Req : Installs(r) /\ StatusOf(r) \in Pending
    => \E q \in Req : At(q, "busy") /\ req[q].rel = req[r].rel

IInv == TypeOK /\ AgreeInv /\ HoldInv /\ BusyInv /\ PendingInv

USE DEF At
-----------------------------------------------------------------------------
(* Types *)

\* The places and states that the actions name
LEMMA Names ==
  /\ \A pc \in {"idle", "client", "check", "wait", "held", "busy", "recheck", "poll"} : pc \in PCs
  /\ \A t \in {"none", "install", "cleanup", "remove"} : t \in Tasks
  /\ \A s \in {"none", "deployed", "failed", "uninstalling", "pending-install",
               "pending-upgrade", "pending-rollback"} : s \in Status
  /\ 0 \in 0..MaxTries
BY DEF PCs, Tasks, Status, Pending, MaxTries

\* No request and no release are well typed.
LEMMA ConstantTypes == Idle \in Request /\ NoRelease \in Release
BY Names DEF Idle, Request, NoRelease, Release

\* The components of a request
LEMMA RequestType ==
  ASSUME NEW q \in Request
  PROVE  /\ q.pc \in PCs /\ q.task \in Tasks /\ q.rel \in Rel \cup {None}
         /\ q.val \in Val \cup {None} /\ q.client \in Req \cup {None} /\ q.tries \in 0..MaxTries
BY DEF Request

\* Nobody else works on the release that a request is at work on.
LEMMA Exclusive == AgreeInv /\ HoldInv => OneOperation
<1> SUFFICES ASSUME AgreeInv, HoldInv, NEW q \in Req, NEW r \in Req, NEW rel \in Rel,
                    Operating(q, rel), Operating(r, rel)
             PROVE  q = r
  BY DEF OneOperation
<1>1. Holds(q) /\ Holds(r) /\ req[q].rel = rel /\ req[r].rel = rel
  BY DEF Operating, Holds
<1>2. req[q].client = client /\ req[r].client = client
  BY <1>1 DEF AgreeInv, Holds
<1> QED BY <1>1, <1>2 DEF HoldInv

\* The release that an installation finds is not pending: who made it so would
\* be at work on it.
LEMMA NotPending == IInv => NotRefusedAsPending
<1> SUFFICES ASSUME IInv, NEW r \in Req, req[r].pc = "held", req[r].task = "install",
                    StatusOf(r) \in Pending
             PROVE  FALSE
  BY DEF NotRefusedAsPending
<1>1. PICK q \in Req : req[q].pc = "busy" /\ req[q].rel = req[r].rel
  BY DEF IInv, PendingInv, Installs
<1>2. req[r].rel \in Rel
  BY DEF IInv, AgreeInv
<1>3. q = r
  BY <1>1, <1>2, Exclusive DEF IInv, OneOperation, Operating
<1> QED BY <1>1, <1>3
-----------------------------------------------------------------------------
(* The four kinds of steps *)

\* A request that neither gets nor has a mutex goes on.
LEMMA QuietStep ==
  ASSUME IInv, NEW r \in Req, NEW new \in Request, Become(r, new), ~Holds(r),
         UNCHANGED <<release, mutex>>, client' = client \/ (client = None /\ client' = r),
         new.pc \notin {"held", "busy"},
         new.pc # "idle" => new.rel \in Rel,
         new.pc \notin {"idle", "client"} => new.client = client' /\ client' \in Req,
         new.pc = "wait" /\ new.task = "install" => release[new.rel].status \notin Pending
  PROVE  IInv'
<1>1. \A q \in Req : req'[q] = IF q = r THEN new ELSE req[q]
  BY DEF Become, IInv, TypeOK
<1>2. TypeOK'
  BY DEF IInv, TypeOK, Become
<1>3. AgreeInv'
  BY <1>1, ReleaseAssumption DEF IInv, AgreeInv
<1>4. HoldInv'
  BY <1>1 DEF IInv, HoldInv, Holds
<1>5. BusyInv'
  BY <1>1 DEF IInv, BusyInv, Uninstalls, StatusOf
<1>6. PendingInv'
  <2> SUFFICES ASSUME NEW p \in Req, Installs(p)', StatusOf(p)' \in Pending
               PROVE  \E q \in Req : req'[q].pc = "busy" /\ req'[q].rel = req'[p].rel
    BY DEF PendingInv
  <2>1. p # r
    BY <1>1 DEF Installs, StatusOf
  <2>2. PICK q \in Req : req[q].pc = "busy" /\ req[q].rel = req[p].rel
    BY <1>1, <2>1 DEF IInv, PendingInv, Installs, StatusOf
  <2>3. q # r
    BY <2>2 DEF Holds
  <2> QED BY <1>1, <2>1, <2>2, <2>3
<1> QED BY <1>2, <1>3, <1>4, <1>5, <1>6 DEF IInv

\* A request gets the mutex of its release.
LEMMA LockStep == ASSUME IInv, NEW r \in Req, Lock(r) PROVE IInv'
<1> DEFINE new == [req[r] EXCEPT !.pc = "held", !.task = req[r].task]
<1>1. /\ req[r] \in Request /\ req[r].pc = "wait" /\ req[r].rel \in Rel /\ req[r].client = client
      /\ client \in Req
  BY DEF Lock, IInv, TypeOK, AgreeInv
<1>2. /\ new \in Request /\ new.pc = "held" /\ new.rel = req[r].rel /\ new.client = req[r].client
      /\ new.task = req[r].task
  BY <1>1, Names DEF Request
<1>3. /\ req' = [req EXCEPT ![r] = new] /\ release' = release /\ client' = client
      /\ mutex[client][req[r].rel] = None
      /\ mutex' = [mutex EXCEPT ![client][req[r].rel] = r]
  BY <1>1 DEF Lock, Goto, Become
<1> HIDE DEF new
<1>4. \A q \in Req : req'[q] = IF q = r THEN new ELSE req[q]
  BY <1>3 DEF IInv, TypeOK
<1>5. \A rel \in Rel : mutex'[client][rel] = IF rel = req[r].rel THEN r ELSE mutex[client][rel]
  BY <1>1, <1>3 DEF IInv, TypeOK
<1>6. TypeOK'
  BY <1>1, <1>2, <1>3 DEF IInv, TypeOK
<1>7. AgreeInv'
  BY <1>1, <1>2, <1>3, <1>4 DEF IInv, AgreeInv
<1>8. HoldInv'
  <2> SUFFICES ASSUME NEW q \in Req, Holds(q)' PROVE mutex'[req'[q].client][req'[q].rel] = q
    BY DEF HoldInv
  <2>1. CASE q = r
    BY <2>1, <1>1, <1>2, <1>4, <1>5
  <2>2. CASE q # r
    <3>1. Holds(q) /\ req'[q] = req[q]
      BY <2>2, <1>4 DEF Holds
    <3>2. req[q].client = client /\ req[q].rel \in Rel /\ mutex[client][req[q].rel] = q
      BY <3>1 DEF IInv, AgreeInv, HoldInv, Holds
    <3>3. req[q].rel # req[r].rel
      BY <3>2, <1>3, ReleaseAssumption
    <3> QED BY <3>1, <3>2, <3>3, <1>5
  <2> QED BY <2>1, <2>2
<1>9. BusyInv'
  BY <1>2, <1>3, <1>4 DEF IInv, BusyInv, Uninstalls, StatusOf
<1>10. PendingInv'
  <2> SUFFICES ASSUME NEW p \in Req, Installs(p)', StatusOf(p)' \in Pending
               PROVE  \E q \in Req : req'[q].pc = "busy" /\ req'[q].rel = req'[p].rel
    BY DEF PendingInv
  <2>1. Installs(p) /\ StatusOf(p) \in Pending /\ req'[p].rel = req[p].rel
    BY <1>1, <1>2, <1>3, <1>4 DEF Installs, StatusOf
  <2>2. PICK q \in Req : req[q].pc = "busy" /\ req[q].rel = req[p].rel
    BY <2>1 DEF IInv, PendingInv
  <2>3. q # r
    BY <2>2, <1>1
  <2> QED BY <1>4, <2>1, <2>2, <2>3
<1> QED BY <1>6, <1>7, <1>8, <1>9, <1>10 DEF IInv

\* A request with the mutex works on its release, and keeps the mutex.
LEMMA WorkStep ==
  ASSUME IInv, NEW r \in Req, NEW new \in Request, NEW rel \in Release, Holds(r),
         Become(r, new), SetRelease(r, rel), UNCHANGED <<client, mutex>>,
         new.pc = "busy", new.rel = req[r].rel, new.client = req[r].client,
         new.task \in {"cleanup", "remove"} => rel.status = "uninstalling"
  PROVE  IInv'
<1>1. /\ req[r].rel \in Rel /\ req[r].client = client /\ client \in Req
      /\ mutex[client][req[r].rel] = r
  BY DEF IInv, AgreeInv, HoldInv, Holds
<1>2. \A q \in Req : req'[q] = IF q = r THEN new ELSE req[q]
  BY DEF Become, IInv, TypeOK
<1>3. /\ release' = [release EXCEPT ![req[r].rel] = rel]
      /\ \A x \in Rel : release'[x] = IF x = req[r].rel THEN rel ELSE release[x]
  BY <1>1 DEF SetRelease, IInv, TypeOK
<1>4. TypeOK'
  BY <1>1, <1>3 DEF IInv, TypeOK, Become
<1>5. AgreeInv'
  BY <1>1, <1>2 DEF IInv, AgreeInv
<1>6. HoldInv'
  BY <1>1, <1>2 DEF IInv, HoldInv, Holds
<1>7. BusyInv'
  <2> SUFFICES ASSUME NEW q \in Req, req'[q].pc = "busy", Uninstalls(q)'
               PROVE  release'[req'[q].rel].status = "uninstalling"
    BY DEF BusyInv, StatusOf
  <2>1. CASE q = r
    BY <2>1, <1>1, <1>2, <1>3 DEF Uninstalls
  <2>2. CASE q # r
    <3>1. req'[q] = req[q] /\ req[q].pc = "busy" /\ Uninstalls(q) /\ req[q].rel \in Rel
      BY <2>2, <1>2 DEF Uninstalls, IInv, AgreeInv
    <3>2. req[q].rel # req[r].rel
      BY <3>1, <2>2, <1>1, Exclusive DEF IInv, OneOperation, Operating, Holds
    <3> QED BY <3>1, <3>2, <1>3 DEF IInv, BusyInv, StatusOf
  <2> QED BY <2>1, <2>2
<1>8. PendingInv'
  <2> SUFFICES ASSUME NEW p \in Req, Installs(p)', StatusOf(p)' \in Pending
               PROVE  \E q \in Req : req'[q].pc = "busy" /\ req'[q].rel = req'[p].rel
    BY DEF PendingInv
  <2>1. p # r /\ req'[p] = req[p] /\ Installs(p) /\ req[p].rel \in Rel
    BY <1>2 DEF Installs, IInv, AgreeInv
  <2>2. CASE req[p].rel = req[r].rel
    BY <2>1, <2>2, <1>2
  <2>3. CASE req[p].rel # req[r].rel
    <3>1. StatusOf(p) \in Pending
      BY <2>1, <2>3, <1>3 DEF StatusOf
    <3>2. PICK q \in Req : req[q].pc = "busy" /\ req[q].rel = req[p].rel
      BY <2>1, <3>1 DEF IInv, PendingInv
    <3> QED BY <2>1, <2>3, <3>2, <1>2
  <2> QED BY <2>2, <2>3
<1> QED BY <1>4, <1>5, <1>6, <1>7, <1>8 DEF IInv

\* A request returns the mutex and leaves a release that is not pending.
LEMMA ReturnStep ==
  ASSUME IInv, NEW r \in Req, NEW new \in Request, NEW rel \in Release, Holds(r),
         Become(r, new), SetRelease(r, rel), Unlock(r), UNCHANGED client,
         new.pc \notin {"held", "busy"}, rel.status \notin Pending,
         new.pc # "idle" => new.rel = req[r].rel /\ new.client = req[r].client
  PROVE  IInv'
<1>1. /\ req[r].rel \in Rel /\ req[r].client = client /\ client \in Req
      /\ mutex[client][req[r].rel] = r
  BY DEF IInv, AgreeInv, HoldInv, Holds
<1>2. \A q \in Req : req'[q] = IF q = r THEN new ELSE req[q]
  BY DEF Become, IInv, TypeOK
<1>3. /\ release' = [release EXCEPT ![req[r].rel] = rel]
      /\ \A x \in Rel : release'[x] = IF x = req[r].rel THEN rel ELSE release[x]
  BY <1>1 DEF SetRelease, IInv, TypeOK
<1>4. /\ mutex' = [mutex EXCEPT ![client][req[r].rel] = None]
      /\ \A x \in Rel : mutex'[client][x] = IF x = req[r].rel THEN None ELSE mutex[client][x]
  BY <1>1 DEF Unlock, IInv, TypeOK
<1>5. TypeOK'
  BY <1>1, <1>3, <1>4 DEF IInv, TypeOK, Become
<1>6. AgreeInv'
  BY <1>1, <1>2 DEF IInv, AgreeInv
<1>7. \A q \in Req : q # r /\ Holds(q) => req[q].rel \in Rel /\ req[q].rel # req[r].rel
                                          /\ req[q].client = client
  BY <1>1, Exclusive DEF IInv, AgreeInv, OneOperation, Operating, Holds
<1>8. HoldInv'
  BY <1>2, <1>4, <1>7 DEF IInv, HoldInv, Holds
<1>9. BusyInv'
  BY <1>2, <1>3, <1>7 DEF IInv, BusyInv, Uninstalls, StatusOf, Holds
<1>10. PendingInv'
  <2> SUFFICES ASSUME NEW p \in Req, Installs(p)', StatusOf(p)' \in Pending
               PROVE  \E q \in Req : req'[q].pc = "busy" /\ req'[q].rel = req'[p].rel
    BY DEF PendingInv
  <2>1. req'[p].rel \in Rel
    BY <1>6 DEF AgreeInv, Installs
  <2>2. req'[p].rel # req[r].rel
    BY <2>1, <1>3 DEF StatusOf
  <2>3. p # r /\ req'[p] = req[p] /\ Installs(p) /\ StatusOf(p) \in Pending
    BY <2>1, <2>2, <1>2, <1>3 DEF Installs, StatusOf
  <2>4. PICK q \in Req : req[q].pc = "busy" /\ req[q].rel = req[p].rel
    BY <2>3 DEF IInv, PendingInv
  <2> QED BY <2>2, <2>3, <2>4, <1>2
<1> QED BY <1>5, <1>6, <1>8, <1>9, <1>10 DEF IInv
-----------------------------------------------------------------------------
(* Every action is a step of one of these kinds. *)

\* How requests begin
LEMMA BeginStep == ASSUME IInv, NEW r \in Req, Begin(r) PROVE IInv'
<1>0. req[r].pc = "idle" /\ ~Holds(r)
  BY DEF Begin, BeginDeploy, BeginDeployService, BeginRemove, Holds
<1>1. ASSUME NEW rel \in Rel, NEW v \in Val, BeginDeploy(r, rel, v) PROVE IInv'
  <2> DEFINE new == [Idle EXCEPT !.pc = "client", !.task = "install", !.rel = rel, !.val = v]
  <2>1. new \in Request /\ new.pc = "client" /\ new.rel = rel
    BY Names DEF Idle, Request
  <2>2. Become(r, new) /\ UNCHANGED <<release, client, mutex>>
    BY <1>1 DEF BeginDeploy
  <2> HIDE DEF new
  <2> QED BY <1>0, <2>1, <2>2, QuietStep
<1>2. ASSUME NEW rel \in Rel, NEW v \in Val, NEW sync \in BOOLEAN,
             BeginDeployService(r, rel, v, sync)
      PROVE  IInv'
  <2> DEFINE new == [Idle EXCEPT !.pc = "client", !.task = "install", !.rel = rel,
                                 !.val = v, !.sync = sync]
  <2>1. new \in Request /\ new.pc = "client" /\ new.rel = rel
    BY Names DEF Idle, Request
  <2>2. Become(r, new) /\ UNCHANGED <<release, client, mutex>>
    BY <1>2 DEF BeginDeployService
  <2> HIDE DEF new
  <2> QED BY <1>0, <2>1, <2>2, QuietStep
<1>3. ASSUME NEW rel \in Rel, BeginRemove(r, rel) PROVE IInv'
  <2> DEFINE new == [Idle EXCEPT !.pc = "client", !.task = "remove", !.rel = rel]
  <2>1. new \in Request /\ new.pc = "client" /\ new.rel = rel
    BY Names DEF Idle, Request
  <2>2. Become(r, new) /\ UNCHANGED <<release, client, mutex>>
    BY <1>3 DEF BeginRemove
  <2> HIDE DEF new
  <2> QED BY <1>0, <2>1, <2>2, QuietStep
<1> QED BY <1>1, <1>2, <1>3 DEF Begin

\* The end of a request that has no mutex
LEMMA EndStep ==
  ASSUME IInv, NEW r \in Req, End(r), ~Holds(r), UNCHANGED <<release, client, mutex>>
  PROVE  IInv'
<1>1. Idle.pc = "idle"
  BY DEF Idle
<1> QED BY <1>1, ConstantTypes, QuietStep DEF End

\* Getting the client, and the two checks of the cleanup
LEMMA CheckStep ==
  ASSUME IInv, NEW r \in Req,
         GetHelmClient(r) \/ CheckRelease(r) \/ Recheck(r) \/ PollEnds(r) \/ Fail(r)
  PROVE  IInv'
<1>0. req[r] \in Request /\ ~Holds(r) /\ req[r].pc # "idle" /\ req[r].rel \in Rel
  BY DEF GetHelmClient, CheckRelease, Recheck, PollEnds, Fail, Holds, IInv, TypeOK, AgreeInv
<1>1. CASE GetHelmClient(r)
  <2> DEFINE pc == IF req[r].task = "remove" THEN "wait" ELSE "check"
             new == [req[r] EXCEPT !.client = client', !.pc = pc]
  <2>1. /\ pc \in PCs /\ pc \in {"wait", "check"} /\ (pc = "wait" => req[r].task = "remove")
        /\ client' \in Req /\ (client' = client \/ (client = None /\ client' = r))
    BY <1>1, Names DEF GetHelmClient, IInv, TypeOK
  <2>2. Become(r, new) /\ UNCHANGED <<release, mutex>>
    BY <1>1 DEF GetHelmClient
  <2> HIDE DEF pc
  <2>c. PICK c \in Req : c = client'
    BY <2>1
  <2>3. /\ new \in Request /\ new.pc = pc /\ new.rel = req[r].rel /\ new.client = client'
        /\ new.task = req[r].task
    BY <1>0, <2>1, <2>c DEF Request
  <2> HIDE DEF new
  <2> QED BY <1>0, <2>1, <2>2, <2>3, QuietStep
<1>2. ASSUME NEW task \in Tasks, Goto(r, "wait", task), req[r].pc \in {"check", "recheck"},
             task = "install" => StatusOf(r) \notin Pending,
             UNCHANGED <<release, client, mutex>>
      PROVE  IInv'
  <2> DEFINE new == [req[r] EXCEPT !.pc = "wait", !.task = task]
  <2>1. /\ new \in Request /\ new.pc = "wait" /\ new.rel = req[r].rel
        /\ new.client = req[r].client /\ new.task = task
    BY <1>0, <1>2, Names DEF Request
  <2>2. Become(r, new) /\ req[r].client = client /\ client \in Req
    BY <1>2 DEF Goto, IInv, AgreeInv
  <2> HIDE DEF new
  <2> QED BY <1>0, <1>2, <2>1, <2>2, QuietStep DEF StatusOf
<1>3. CASE CheckRelease(r)
  <2> DEFINE task == IF StatusOf(r) \in {"none", "deployed"} THEN "install" ELSE "cleanup"
  <2>1. task \in Tasks /\ (task = "install" => StatusOf(r) \notin Pending)
    BY Names DEF Pending
  <2>2. Goto(r, "wait", task) /\ req[r].pc = "check" /\ UNCHANGED <<release, client, mutex>>
    BY <1>3 DEF CheckRelease
  <2> HIDE DEF task
  <2> QED BY <2>1, <2>2, <1>2
<1>4. CASE Recheck(r)
  <2>1. CASE StatusOf(r) = "none"
    <3>1. Goto(r, "wait", "install") /\ req[r].pc = "recheck" /\ UNCHANGED <<release, client, mutex>>
      BY <1>4, <2>1 DEF Recheck
    <3> QED BY <3>1, <2>1, <1>2, Names DEF Pending
  <2>2. CASE StatusOf(r) # "none"
    BY <1>4, <2>2, <1>0, EndStep DEF Recheck
  <2> QED BY <2>1, <2>2
<1>5. CASE PollEnds(r) \/ Fail(r)
  BY <1>5, <1>0, EndStep DEF PollEnds, Fail
<1> QED BY <1>1, <1>3, <1>4, <1>5

\* A mutex is returned by a request that ends, or goes on to pc for a task.
LEMMA LeaveStep ==
  ASSUME IInv, NEW r \in Req, NEW rel \in Release, Holds(r), rel.status \notin Pending,
         SetRelease(r, rel), Unlock(r), UNCHANGED client,
         \/ End(r)
         \/ \E pc \in {"wait", "recheck", "poll"}, task \in Tasks : Goto(r, pc, task)
         \/ InstallError(r) \/ UninstallError(r)
  PROVE  IInv'
<1>0. req[r] \in Request /\ req[r].tries \in 0..MaxTries
  BY RequestType DEF IInv, TypeOK
<1>1. CASE End(r)
  <2>1. Idle \in Request /\ Idle.pc = "idle" /\ Become(r, Idle)
    BY <1>1, ConstantTypes DEF Idle, End
  <2> HIDE DEF Idle
  <2> QED BY <2>1, ReturnStep
<1>2. ASSUME NEW pc \in {"wait", "recheck", "poll"}, NEW task \in Tasks, Goto(r, pc, task)
      PROVE  IInv'
  <2> DEFINE new == [req[r] EXCEPT !.pc = pc, !.task = task]
  <2>1. /\ new \in Request /\ new.pc = pc /\ new.rel = req[r].rel /\ new.client = req[r].client
    BY <1>0, Names DEF Request
  <2>2. Become(r, new)
    BY <1>2 DEF Goto
  <2> HIDE DEF new
  <2> QED BY <2>1, <2>2, ReturnStep
<1>3. CASE UninstallError(r)
  BY <1>1, <1>2, <1>3, Names DEF UninstallError
<1>4. CASE InstallError(r) /\ ~End(r)
  <2> DEFINE new == [req[r] EXCEPT !.pc = "wait", !.tries = @ + 1]
  <2>1. Become(r, new) /\ req[r].tries + 1 \in 0..MaxTries
    BY <1>0, <1>4 DEF InstallError, MaxTries
  <2>2. /\ new \in Request /\ new.pc = "wait" /\ new.rel = req[r].rel
        /\ new.client = req[r].client
    BY <1>0, <2>1, Names DEF Request
  <2> HIDE DEF new
  <2> QED BY <2>1, <2>2, ReturnStep
<1> QED BY <1>1, <1>2, <1>3, <1>4

\* Uninstalling
LEMMA UninstallStep ==
  ASSUME IInv, NEW r \in Req,
         \/ UninstallBegins(r) \/ UninstallFindsNone(r)
         \/ UninstallEnds(r) \/ UninstallFails(r)
  PROVE  IInv'
<1>0. /\ req[r] \in Request /\ Holds(r) /\ req[r].rel \in Rel
      /\ release[req[r].rel] \in Release /\ req[r].task \in {"cleanup", "remove"}
      /\ release \in [Rel -> Release]
  BY DEF UninstallBegins, UninstallFindsNone, UninstallEnds, UninstallFails, Uninstalls, Holds,
         IInv, TypeOK, AgreeInv
<1>1. NoRelease \in Release /\ NoRelease.status \notin Pending
  BY ConstantTypes DEF NoRelease, Pending
<1>2. CASE UninstallBegins(r)
  <2> DEFINE rel == [release[req[r].rel] EXCEPT !.status = "uninstalling"]
             new == [req[r] EXCEPT !.pc = "busy", !.task = req[r].task]
  <2>1. rel \in Release /\ rel.status = "uninstalling"
    BY <1>0, Names DEF Release
  <2>2. new \in Request /\ new.pc = "busy" /\ new.rel = req[r].rel /\ new.client = req[r].client
    BY <1>0, Names DEF Request
  <2>3. SetRelease(r, rel) /\ Become(r, new) /\ UNCHANGED <<client, mutex>>
    BY <1>2 DEF UninstallBegins, Goto
  <2> HIDE DEF rel, new
  <2> QED BY <1>0, <2>1, <2>2, <2>3, WorkStep
<1>3. ASSUME UNCHANGED release, StatusOf(r) \notin Pending
      PROVE  /\ SetRelease(r, release[req[r].rel])
             /\ release[req[r].rel].status \notin Pending
  BY <1>0, <1>3 DEF SetRelease, StatusOf
<1>4. CASE UninstallFindsNone(r)
  BY <1>0, <1>3, <1>4, LeaveStep DEF UninstallFindsNone, Pending
<1>5. CASE UninstallEnds(r)
  BY <1>0, <1>1, <1>5, LeaveStep, Names DEF UninstallEnds
<1>6. CASE UninstallFails(r)
  <2>1. StatusOf(r) = "uninstalling"
    BY <1>6 DEF UninstallFails, IInv, BusyInv
  <2>2. CASE UNCHANGED release
    BY <1>0, <1>3, <1>6, <2>1, <2>2, LeaveStep DEF UninstallFails, Pending
  <2>3. CASE SetRelease(r, NoRelease)
    BY <1>0, <1>1, <1>6, <2>3, LeaveStep DEF UninstallFails
  <2> QED BY <1>6, <2>2, <2>3 DEF UninstallFails
<1> QED BY <1>2, <1>4, <1>5, <1>6

\* Installing
LEMMA InstallStep ==
  ASSUME IInv, NEW r \in Req,
         \/ InstallBegins(r) \/ InstallRefused(r) \/ InstallEnds(r)
         \/ InstallFails(r) \/ RollbackEnds(r)
  PROVE  IInv'
<1>0. /\ req[r] \in Request /\ Holds(r) /\ req[r].rel \in Rel /\ req[r].val \in Val \cup {None}
      /\ release[req[r].rel] \in Release /\ req[r].task = "install" /\ release \in [Rel -> Release]
  BY RequestType DEF InstallBegins, InstallRefused, InstallEnds, InstallFails, RollbackEnds, Holds,
         IInv, TypeOK, AgreeInv
<1> DEFINE now == release[req[r].rel]
<1>1. /\ now.status \in Status /\ now.val \in Val \cup {None} /\ now.old \in Val \cup {None}
      /\ \A s \in Status : [now EXCEPT !.status = s] \in Release
                          /\ [now EXCEPT !.status = s].status = s
  BY <1>0 DEF Release
<1>2. \A s \in Status, v \in Val \cup {None}, o \in Val \cup {None} :
        /\ [status |-> s, val |-> v, old |-> o] \in Release
        /\ [status |-> s, val |-> v, old |-> o].status = s
  BY DEF Release
<1>3. "deployed" \notin Pending /\ "failed" \notin Pending /\ "none" \notin Pending
  BY DEF Pending
<1>4. CASE InstallBegins(r)
  <2> DEFINE new == [req[r] EXCEPT !.pc = "busy", !.task = "install"]
  <2>1. /\ new \in Request /\ new.pc = "busy" /\ new.rel = req[r].rel
        /\ new.client = req[r].client /\ new.task = "install"
    BY <1>0, Names DEF Request
  <2>2. Become(r, new) /\ UNCHANGED <<client, mutex>>
    BY <1>4 DEF InstallBegins, Goto
  <2>3. \E rel \in Release : SetRelease(r, rel)
    <3>1. CASE now.status = "none"
      BY <1>4, <1>0, <1>2, <3>1, Names DEF InstallBegins, Upgradable
    <3>2. CASE now.status # "none"
      <4> DEFINE old == IF now.status = "deployed" THEN now.val ELSE now.old
      <4>1. old \in Val \cup {None}
        BY <1>1
      <4>2. SetRelease(r, [status |-> "pending-upgrade", val |-> req[r].val, old |-> old])
        BY <1>4, <3>2 DEF InstallBegins
      <4> QED BY <4>1, <4>2, <1>0, <1>2, Names
    <3> QED BY <3>1, <3>2
  <2> HIDE DEF new
  <2> QED BY <1>0, <2>1, <2>2, <2>3, WorkStep
<1>5. CASE InstallRefused(r)
  <2>1. StatusOf(r) \notin Pending
    BY <1>5, NotPending DEF InstallRefused, NotRefusedAsPending
  <2>2. SetRelease(r, now)
    BY <1>0, <1>5 DEF InstallRefused, SetRelease
  <2> QED BY <1>0, <1>5, <2>1, <2>2, LeaveStep DEF InstallRefused, StatusOf
<1>6. CASE InstallEnds(r)
  <2> DEFINE rel == [status |-> "deployed", val |-> req[r].val, old |-> None]
  <2>1. SetRelease(r, rel) /\ rel \in Release /\ rel.status \notin Pending
    BY <1>6, <1>0, <1>2, <1>3, Names DEF InstallEnds
  <2> HIDE DEF rel
  <2> QED BY <1>0, <1>6, <2>1, LeaveStep, Names DEF InstallEnds
<1>7. CASE InstallFails(r)
  <2>1. CASE SetRelease(r, NoRelease) /\ Unlock(r) /\ InstallError(r)
    <3>1. NoRelease \in Release /\ NoRelease.status \notin Pending
      BY ConstantTypes, <1>3 DEF NoRelease
    <3> QED BY <1>0, <1>7, <2>1, <3>1, LeaveStep DEF InstallFails
  <2>2. CASE /\ SetRelease(r, [now EXCEPT !.status = "pending-rollback"])
             /\ UNCHANGED <<mutex, req>>
    <3>1. Become(r, req[r]) /\ req[r].pc = "busy" /\ UNCHANGED client
      BY <1>0, <1>7, <2>2 DEF InstallFails, Become, IInv, TypeOK
    <3>2. [now EXCEPT !.status = "pending-rollback"] \in Release
      BY <1>1, Names
    <3> QED BY <1>0, <2>2, <3>1, <3>2, WorkStep
  <2>3. CASE /\ SetRelease(r, [now EXCEPT !.status = "failed"])
             /\ Unlock(r) /\ InstallError(r)
    <3>1. [now EXCEPT !.status = "failed"] \in Release
          /\ [now EXCEPT !.status = "failed"].status \notin Pending
      BY <1>1, <1>3, Names
    <3> QED BY <1>0, <1>7, <2>3, <3>1, LeaveStep DEF InstallFails
  <2> QED BY <1>7, <2>1, <2>2, <2>3 DEF InstallFails
<1>8. CASE RollbackEnds(r)
  <2>1. \E rel \in Release : SetRelease(r, rel) /\ rel.status \notin Pending
    <3>1. CASE SetRelease(r, [status |-> "deployed", val |-> now.old, old |-> None])
      BY <3>1, <1>1, <1>2, <1>3, Names
    <3>2. CASE SetRelease(r, [now EXCEPT !.status = "failed"])
      BY <3>2, <1>1, <1>3, Names
    <3> QED BY <1>8, <3>1, <3>2 DEF RollbackEnds
  <2> QED BY <1>0, <1>8, <2>1, LeaveStep DEF RollbackEnds
<1> QED BY <1>4, <1>5, <1>6, <1>7, <1>8
-----------------------------------------------------------------------------
(* The theorems *)

\* The releases that an earlier server left have their types.
LEMMA LeftOverType == LeftOver \subseteq Release
<1>1. Status \ {"none", "pending-rollback"} \subseteq Status
      /\ {"pending-upgrade", "pending-rollback"} \subseteq Status
  BY Names
<1> QED BY <1>1, ConstantTypes DEF LeftOver, Release

LEMMA InitInv == Init => IInv
<1> SUFFICES ASSUME Init PROVE IInv
  OBVIOUS
<1>1. \A r \in Req : req[r] = Idle /\ Idle.pc = "idle"
  BY DEF Init, Idle
<1>2. TypeOK
  BY LeftOverType, ConstantTypes DEF Init, TypeOK
<1>3. AgreeInv /\ HoldInv /\ BusyInv /\ PendingInv
  BY <1>1 DEF AgreeInv, HoldInv, BusyInv, PendingInv, Holds, Installs
<1> QED BY <1>2, <1>3 DEF IInv

LEMMA NextInv == IInv /\ [Next]_vars => IInv'
<1> SUFFICES ASSUME IInv, [Next]_vars PROVE IInv'
  OBVIOUS
<1>1. ASSUME NEW r \in Req, Proceed(r) PROVE IInv'
  BY <1>1, CheckStep, UninstallStep, InstallStep DEF Proceed
<1>2. CASE UNCHANGED vars
  BY <1>2 DEF vars, IInv, TypeOK, AgreeInv, HoldInv, BusyInv, PendingInv, Holds, Installs,
              StatusOf, Uninstalls
<1>3. ASSUME NEW r \in Req, Begin(r) \/ Lock(r) \/ Fail(r) PROVE IInv'
  BY <1>3, BeginStep, LockStep, CheckStep
<1> QED BY <1>1, <1>2, <1>3 DEF Next

\* Every reachable state is well typed.
THEOREM ReleaseTypes == Spec => []TypeOK
<1>1. IInv => TypeOK
  BY DEF IInv
<1> QED BY <1>1, InitInv, NextInv, PTL DEF Spec

\* No two calls of helm that change a release overlap, for any number of requests
\* and releases: the maps of clients and mutexes give all of them one mutex.
THEOREM OperationsExclude == Spec => []OneOperation
<1>1. IInv => OneOperation
  BY Exclusive DEF IInv
<1> QED BY <1>1, InitInv, NextInv, PTL DEF Spec

\* A deployment never meets a pending release, although it looks at the release
\* before it waits for the mutex, and whatever an earlier server left.
THEOREM NeverRefused == Spec => []NotRefusedAsPending
<1> QED BY NotPending, InitInv, NextInv, PTL DEF Spec
=============================================================================
