---------------------------- MODULE HelmRelease -----------------------------
(***************************************************************************)
(* The helm releases of one namespace: those of applications and those of  *)
(* services, and the deployments and removals that the epinio server makes *)
(* of them at the same time.  The server keeps one client per namespace    *)
(* and in it one mutex per release, which is held for a single call of     *)
(* helm and not for a whole deployment.                                    *)
(*                                                                         *)
(* One action is one call of helm, or one half of a call that changes the  *)
(* release: while helm installs, upgrades, rolls back or uninstalls, those *)
(* who read the release without the mutex see it in a state between.       *)
(*                                                                         *)
(* A restart of the server loses clients, mutexes and requests and leaves  *)
(* the releases as they are, in whichever state: that is Init.             *)
(*                                                                         *)
(* Abstractions.  A chart with its values is a member of Val.  Of the      *)
(* revisions of a release the last one is kept, and the values of the last *)
(* one that was deployed.  Access to repositories and registries is left   *)
(* out: a deployment that fails on it ends (Fail).                         *)
(***************************************************************************)
EXTENDS Naturals

CONSTANTS
  Req,     \* slots for requests: as many are served at the same time (bound)
  App,     \* releases of applications
  Service, \* releases of services
  Val,     \* charts with values
  None,    \* no value, no holder
  Faults   \* whether calls of kubernetes fail

Rel == App \cup Service

ASSUME ReleaseAssumption ==
  /\ App \cap Service = {}
  /\ None \notin Req \cup Rel \cup Val
  /\ Faults \in BOOLEAN

VARIABLES
  release, \* the releases, as helm stores them
  client,  \* syncNamespaceClientMap: who made the client of the namespace
  mutex,   \* mutexMap of each client: who holds the mutex of a release
  req

vars == <<release, client, mutex, req>>
-----------------------------------------------------------------------------
(* Data *)

Pending == {"pending-install", "pending-upgrade", "pending-rollback"}
Status == Pending \cup {"none", "deployed", "failed", "uninstalling"}
Release == [status : Status, val : Val \cup {None}, old : Val \cup {None}]
NoRelease == [status |-> "none", val |-> None, old |-> None]

\* Helm refuses to upgrade a release that another operation seems to work on.
Upgradable == {"deployed", "failed"}

\* task: what the request holds, or waits for, the mutex for.
Tasks == {"none", "install", "cleanup", "remove"}
PCs == {"idle", "client", "check", "wait", "held", "busy", "recheck", "poll"}
MaxTries == 2 \* installOrUpgradeChartWithRetry: "Retry only once (2 tries)!"
Request == [pc : PCs, task : Tasks, rel : Rel \cup {None}, val : Val \cup {None},
            client : Req \cup {None}, sync : BOOLEAN, tries : 0..MaxTries]
Idle == [pc |-> "idle", task |-> "none", rel |-> None, val |-> None,
         client |-> None, sync |-> FALSE, tries |-> 0]

At(r, pc) == req[r].pc = pc
Become(r, new) == req' = [req EXCEPT ![r] = new]
End(r) == Become(r, Idle)
Goto(r, pc, task) == Become(r, [req[r] EXCEPT !.pc = pc, !.task = task])

StatusOf(r) == release[req[r].rel].status
SetRelease(r, new) == release' = [release EXCEPT ![req[r].rel] = new]
Unlock(r) == mutex' = [mutex EXCEPT ![req[r].client][req[r].rel] = None]

\* Between the two halves of a call of helm, under the mutex.
Operating(r, rel) == req[r].pc \in {"held", "busy"} /\ req[r].rel = rel
-----------------------------------------------------------------------------
\* What an earlier server, or none, has left.
LeftOver ==
  {NoRelease} \cup [status : Status \ {"none", "pending-rollback"}, val : Val, old : {None}]
              \cup [status : {"pending-upgrade", "pending-rollback"}, val : Val, old : Val]

Init ==
  /\ release \in [Rel -> LeftOver]
  /\ client = None
  /\ mutex = [c \in Req |-> [rel \in Rel |-> None]]
  /\ req = [r \in Req |-> Idle]

\* Deploy, of an application
BeginDeploy(r, rel, v) ==
  /\ At(r, "idle") /\ rel \in App
  /\ Become(r, [Idle EXCEPT !.pc = "client", !.task = "install", !.rel = rel, !.val = v])
  /\ UNCHANGED <<release, client, mutex>>

\* DeployService: in the background or waiting for the release to be ready
BeginDeployService(r, rel, v, sync) ==
  /\ At(r, "idle") /\ rel \in Service
  /\ Become(r, [Idle EXCEPT !.pc = "client", !.task = "install", !.rel = rel,
                            !.val = v, !.sync = sync])
  /\ UNCHANGED <<release, client, mutex>>

\* Remove and RemoveService
BeginRemove(r, rel) ==
  /\ At(r, "idle")
  /\ Become(r, [Idle EXCEPT !.pc = "client", !.task = "remove", !.rel = rel])
  /\ UNCHANGED <<release, client, mutex>>

\* Mutant: the client just made is stored, whether there is one or not.
GetHelmClientStore(r) ==
  /\ At(r, "client")
  /\ client' = r
  /\ Become(r, [req[r] EXCEPT !.client = r,
                              !.pc = IF req[r].task = "remove" THEN "wait" ELSE "check"])
  /\ UNCHANGED <<release, mutex>>

\* GetNamespaceSynchronizedHelmClient: LoadOrStore keeps the first client, with
\* its mutexes, and hands it to everybody.
GetHelmClient(r) ==
  /\ At(r, "client")
  /\ client' = IF client = None THEN r ELSE client
  /\ Become(r, [req[r] EXCEPT !.client = client',
                              !.pc = IF req[r].task = "remove" THEN "wait" ELSE "check"])
  /\ UNCHANGED <<release, mutex>>

\* Mutant: a release in any state is upgraded.
CheckReleaseNot(r) ==
  /\ At(r, "check")
  /\ Goto(r, "wait", "install")
  /\ UNCHANGED <<release, client, mutex>>

\* cleanupReleaseIfNeeded reads the release without the mutex.
CheckRelease(r) ==
  /\ At(r, "check")
  /\ Goto(r, "wait", IF StatusOf(r) \in {"none", "deployed"} THEN "install" ELSE "cleanup")
  /\ UNCHANGED <<release, client, mutex>>

\* Mutant: whoever works on a pending release is waited for, too.
LockNotPending(r) ==
  /\ At(r, "wait")
  /\ mutex[req[r].client][req[r].rel] = None /\ StatusOf(r) \notin Pending
  /\ mutex' = [mutex EXCEPT ![req[r].client][req[r].rel] = r]
  /\ Goto(r, "held", req[r].task)
  /\ UNCHANGED <<release, client>>

Lock(r) ==
  /\ At(r, "wait")
  /\ mutex[req[r].client][req[r].rel] = None
  /\ mutex' = [mutex EXCEPT ![req[r].client][req[r].rel] = r]
  /\ Goto(r, "held", req[r].task)
  /\ UNCHANGED <<release, client>>
-----------------------------------------------------------------------------
(* Uninstalling: UninstallRelease of the cleanup, UninstallReleaseByName *)

Uninstalls(r) == req[r].task \in {"cleanup", "remove"}

UninstallBegins(r) ==
  /\ At(r, "held") /\ Uninstalls(r) /\ StatusOf(r) # "none"
  /\ SetRelease(r, [release[req[r].rel] EXCEPT !.status = "uninstalling"])
  /\ Goto(r, "busy", req[r].task)
  /\ UNCHANGED <<client, mutex>>

\* An error, which the cleanup looks into.
UninstallError(r) ==
  IF req[r].task = "cleanup" THEN Goto(r, "recheck", "cleanup") ELSE End(r)

\* Mutant: the mutex is kept when there is nothing to uninstall.
UninstallFindsNoneLocked(r) ==
  /\ At(r, "held") /\ Uninstalls(r) /\ StatusOf(r) = "none"
  /\ UninstallError(r)
  /\ UNCHANGED <<release, client, mutex>>

UninstallFindsNone(r) ==
  /\ At(r, "held") /\ Uninstalls(r) /\ StatusOf(r) = "none"
  /\ Unlock(r) /\ UninstallError(r)
  /\ UNCHANGED <<release, client>>

UninstallEnds(r) ==
  /\ At(r, "busy") /\ Uninstalls(r)
  /\ SetRelease(r, NoRelease) /\ Unlock(r)
  /\ IF req[r].task = "cleanup" THEN Goto(r, "wait", "install") ELSE End(r)
  /\ UNCHANGED client

\* "Sometimes we get an error but the release was uninstalled anyway."
UninstallFails(r) ==
  /\ Faults /\ At(r, "busy") /\ Uninstalls(r)
  /\ \/ SetRelease(r, NoRelease)
     \/ UNCHANGED release
  /\ Unlock(r) /\ UninstallError(r)
  /\ UNCHANGED client

\* Whether the release is gone in spite of the error
Recheck(r) ==
  /\ At(r, "recheck")
  /\ IF StatusOf(r) = "none" THEN Goto(r, "wait", "install") ELSE End(r)
  /\ UNCHANGED <<release, client, mutex>>
-----------------------------------------------------------------------------
(* Installing: InstallOrUpgradeChart *)

InstallBegins(r) ==
  /\ At(r, "held") /\ req[r].task = "install"
  /\ LET was == release[req[r].rel]
     IN  \/ /\ was.status = "none"
            /\ SetRelease(r, [status |-> "pending-install", val |-> req[r].val, old |-> None])
         \/ /\ was.status \in Upgradable
            /\ SetRelease(r, [status |-> "pending-upgrade", val |-> req[r].val,
                              old |-> IF was.status = "deployed" THEN was.val ELSE was.old])
  /\ Goto(r, "busy", "install")
  /\ UNCHANGED <<client, mutex>>

\* Mutant: the deployment of a service is tried until it succeeds.
InstallErrorAgain(r) ==
  IF req[r].rel \in Service
  THEN Become(r, [req[r] EXCEPT !.pc = "wait", !.tries = @ + 1])
  ELSE End(r)

\* The deployment of a service is tried again, from the mutex on.
InstallError(r) ==
  IF req[r].rel \in Service /\ req[r].tries + 1 < MaxTries
  THEN Become(r, [req[r] EXCEPT !.pc = "wait", !.tries = @ + 1])
  ELSE End(r)

InstallRefused(r) ==
  /\ At(r, "held") /\ req[r].task = "install"
  /\ StatusOf(r) \notin Upgradable \cup {"none"}
  /\ Unlock(r) /\ InstallError(r)
  /\ UNCHANGED <<release, client>>

InstallEnds(r) ==
  /\ At(r, "busy") /\ req[r].task = "install" /\ StatusOf(r) # "pending-rollback"
  /\ SetRelease(r, [status |-> "deployed", val |-> req[r].val, old |-> None])
  /\ Unlock(r)
  /\ IF req[r].sync THEN Goto(r, "poll", "none") ELSE End(r)
  /\ UNCHANGED client

\* The chart fails, or the time is up.  The release of an application is
\* installed atomically: it is uninstalled, or rolled back.
InstallFails(r) ==
  /\ At(r, "busy") /\ req[r].task = "install" /\ StatusOf(r) # "pending-rollback"
  /\ LET now == release[req[r].rel]
     IN  CASE req[r].rel \in App /\ now.status = "pending-install" ->
                SetRelease(r, NoRelease) /\ Unlock(r) /\ InstallError(r)
           [] req[r].rel \in App /\ now.old # None ->
                /\ SetRelease(r, [now EXCEPT !.status = "pending-rollback"])
                /\ UNCHANGED <<mutex, req>>
           [] OTHER -> /\ SetRelease(r, [now EXCEPT !.status = "failed"])
                       /\ Unlock(r) /\ InstallError(r)
  /\ UNCHANGED client

\* Rolled back, or failed at that, too
RollbackEnds(r) ==
  /\ At(r, "busy") /\ req[r].task = "install" /\ StatusOf(r) = "pending-rollback"
  /\ LET now == release[req[r].rel]
     IN  \/ SetRelease(r, [status |-> "deployed", val |-> now.old, old |-> None])
         \/ Faults /\ SetRelease(r, [now EXCEPT !.status = "failed"])
  /\ Unlock(r) /\ InstallError(r)
  /\ UNCHANGED client

\* The release is polled until it is ready, is gone, or the time is up.
PollEnds(r) ==
  /\ At(r, "poll")
  /\ End(r)
  /\ UNCHANGED <<release, client, mutex>>

\* A read of the release fails, or the access to the chart.
Fail(r) ==
  /\ Faults /\ req[r].pc \in {"client", "check", "recheck"}
  /\ End(r)
  /\ UNCHANGED <<release, client, mutex>>
-----------------------------------------------------------------------------
Begin(r) ==
  \E rel \in Rel :
    \/ \E v \in Val : BeginDeploy(r, rel, v)
    \/ \E v \in Val, sync \in BOOLEAN : BeginDeployService(r, rel, v, sync)
    \/ BeginRemove(r, rel)

Proceed(r) ==
  \/ GetHelmClient(r) \/ CheckRelease(r) \/ Recheck(r)
  \/ UninstallBegins(r) \/ UninstallFindsNone(r) \/ UninstallEnds(r) \/ UninstallFails(r)
  \/ InstallBegins(r) \/ InstallRefused(r) \/ InstallEnds(r) \/ InstallFails(r)
  \/ RollbackEnds(r) \/ PollEnds(r)

Next == \E r \in Req : Begin(r) \/ Lock(r) \/ Proceed(r) \/ Fail(r)

Spec == Init /\ [][Next]_vars

\* A goroutine runs on, and a call of helm returns by its timeout at the latest.
\* A mutex of Go is handed to a goroutine that has waited for it for long.
FairSpec == Spec /\ \A r \in Req : WF_vars(Proceed(r)) /\ SF_vars(Lock(r))
-----------------------------------------------------------------------------
(* Properties *)

TypeOK ==
  /\ release \in [Rel -> Release]
  /\ client \in Req \cup {None}
  /\ mutex \in [Req -> [Rel -> Req \cup {None}]]
  /\ req \in [Req -> Request]

\* No two requests have helm work on one release at the same time: all of them
\* found the same client, and in it the same mutex.
OneOperation ==
  \A q, r \in Req, rel \in Rel : Operating(q, rel) /\ Operating(r, rel) => q = r

\* A deployment never meets a release that helm refuses as pending, whatever an
\* earlier server left: "helm will refuse to upgrade a release that is in
\* pending-install state" (helm.go), for which the release is checked before.
NotRefusedAsPending ==
  \A r \in Req : At(r, "held") /\ req[r].task = "install" => StatusOf(r) \notin Pending

\* A release that is pending, and that a deployment wants to clean up, does not
\* stay pending: either somebody is at work on it and ends, or it is replaced: "The
\* user may try to fix the problem by pushing the application again and we want to
\* allow that" (helm.go).
PendingReplaced ==
  \A r \in Req, rel \in Rel :
    (At(r, "wait") /\ req[r].task = "cleanup" /\ req[r].rel = rel
       /\ release[rel].status \in Pending)
      ~> release[rel].status \notin Pending

\* Every request ends, however the others compete for the mutex.
RequestsEnd == \A r \in Req : ~At(r, "idle") ~> At(r, "idle")
=============================================================================
