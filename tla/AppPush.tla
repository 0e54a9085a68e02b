------------------------------- MODULE AppPush -------------------------------
(***************************************************************************)
(* "epinio push": the commands of several clients, the handlers and the    *)
(* background deployments of the server, and its table of deployments,     *)
(* which is in memory only.                                                *)
(*                                                                         *)
(*   app      the custom resources of the applications                     *)
(*   release  the helm releases that run them, with their ingresses        *)
(*   job      the staging jobs, one per push of sources                    *)
(*   table    asyncDeployJobs: the status of each deployment               *)
(*   srv      the handler or background goroutine that serves a command    *)
(*   cli      where the command itself is                                  *)
(*                                                                         *)
(* A command is a push, an update of the routes, or a deletion; its name   *)
(* also stands for the ids and images made for it, which are unique.  The  *)
(* server may stop at any time and loses its goroutines and the table.     *)
(*                                                                         *)
(* Abstractions.  AppStaging has the steps within Unstage, the secrets and *)
(* the blobs of staging; here a job is listed or gone.  The resource       *)
(* version of a CR is not counted: "stale" holds the commands about to     *)
(* write a copy older than the CR.  Of the settings only the routes are    *)
(* followed.  Other failures are Fail and GiveUp.                          *)
(***************************************************************************)
EXTENDS Naturals, FiniteSets

CONSTANTS
  Cmd,      \* commands, each run once (bound)
  App,      \* applications
  Target,   \* those that the commands are about; the others stay as they are
  Route,    \* routes
  None,     \* the empty string of an unset field
  Old,      \* a push from before the commands
  Ops,      \* kinds of commands
  MaxTries, \* attempts of UpdateImageURL (3 in the code)
  Restarts  \* how often the server stops and starts again (bound)

ASSUME ConstantsAssumption ==
  /\ None \notin Cmd \cup {Old} /\ Old \notin Cmd
  /\ None \notin App /\ Target \subseteq App
  /\ Ops \subseteq {"push", "update", "delete"}
  /\ MaxTries \in Nat \ {0} /\ Restarts \in Nat

VARIABLES app, release, job, table, srv, cli, stale, ran, restarts

vars == <<app, release, job, table, srv, cli, stale, ran, restarts>>
-----------------------------------------------------------------------------
(* Data *)

Build == Cmd \cup {Old, None}

\* The custom resource: its stage id, named by the push that built it, and whether
\* it has an image.  Of a release "ran" notes the stages that it has run.
CR == [exists : BOOLEAN, routes : SUBSET Route, stage : Build, image : BOOLEAN]
NoCR == [exists |-> FALSE, routes |-> {}, stage |-> None, image |-> FALSE]
Release == [exists : BOOLEAN, routes : SUBSET Route]
NoRelease == [exists |-> FALSE, routes |-> {}]

Unfinished == {"pending", "staging", "deploying"}
Status == Unfinished \cup {"none", "succeeded", "failed"}

\* What a command asks for.
Wish == [op : {"none", "push", "update", "delete"}, app : App \cup {None},
         sources : BOOLEAN, routes : SUBSET Route]
NoWish == [op |-> "none", app |-> None, sources |-> FALSE, routes |-> {}]

\* The client: waiting for a handler to create or update the application (push),
\* or to do all of it (wait), about to start the deployment, polling its status.
Client == [pc : {"new", "create", "update", "wait", "start", "poll", "ok", "failed"},
           wish : Wish]
Wants(c) == cli[c].wish
InFlight(c) == cli[c].pc \in {"create", "update", "wait"}
Over(c) == cli[c].pc \in {"ok", "failed"}

\* The server: local variables of the handler or goroutine of a command.
PCs == {"idle", "check", "create", "look", "save", "begin", "staging", "job", "patch",
        "await", "get", "image", "reget", "validate", "lookup", "helm", "list",
        "unstage", "origin", "remove", "delcr"}
Thread == [pc : PCs, copy : CR, routes : SUBSET Route, tries : Nat,
           stage : Build, jobs : SUBSET Cmd, running : BOOLEAN]
Idle == [pc |-> "idle", copy |-> NoCR, routes |-> {}, tries |-> 0,
         stage |-> None, jobs |-> {}, running |-> FALSE]

At(c, pc) == srv[c].pc = pc
Become(c, t) == srv' = [srv EXCEPT ![c] = t]
Goto(c, pc) == Become(c, [srv[c] EXCEPT !.pc = pc])
Of(c) == app[Wants(c).app]

JobState == {"none", "active", "complete", "failed", "gone"}
Listed(a) == {c \in Cmd : Wants(c).app = a /\ job[c] \in {"active", "complete", "failed"}}
Active(a) == {c \in Listed(a) : job[c] = "active"}

WriteCR(a, new) ==
  /\ app' = [app EXCEPT ![a] = new]
  /\ stale' = stale \cup {c \in Cmd : At(c, "image") /\ Wants(c).app = a}

\* A handler answers, if the client still waits; a background deployment has its
\* entry in the table instead.
Background(c) == Wants(c).op = "push" /\ srv[c].pc \notin {"idle", "check", "create", "look", "save"}
Answer(c, pc) ==
  /\ cli' = IF InFlight(c) THEN [cli EXCEPT ![c].pc = pc] ELSE cli
  /\ Become(c, Idle)
  /\ UNCHANGED table
Settle(c, s) ==
  /\ table' = [table EXCEPT ![c] = s]
  /\ Become(c, Idle)
  /\ UNCHANGED cli
Refuse(c) == IF Background(c) THEN Settle(c, "failed") ELSE Answer(c, "failed")
-----------------------------------------------------------------------------
(* Applications deployed earlier, or not there; those that are not a target have all routes *)

Init ==
  /\ app \in [App -> {NoCR} \cup
       {[exists |-> TRUE, routes |-> R, stage |-> Old, image |-> TRUE] : R \in SUBSET Route}]
  /\ \A b \in App \ Target : app[b].routes = Route
  /\ release = [a \in App |-> [exists |-> app[a].exists, routes |-> app[a].routes]]
  /\ job = [c \in Cmd |-> "none"]
  /\ table = [c \in Cmd |-> "none"]
  /\ srv = [c \in Cmd |-> Idle]
  /\ cli = [c \in Cmd |-> [pc |-> "new", wish |-> NoWish]]
  /\ stale = {}
  /\ ran = [a \in App |-> {}]
  /\ restarts = 0
-----------------------------------------------------------------------------
(* The command line client *)

\* A command begins with the call of a handler.
First(op) == CASE op = "push" -> <<"create", "check">>
               [] op = "update" -> <<"wait", "look">>
               [] op = "delete" -> <<"wait", "remove">>
Invoke(c, w) ==
  /\ cli[c].pc = "new" /\ w.op \in Ops
  /\ w.op = "delete" => app[w.app].exists
  /\ cli' = [cli EXCEPT ![c] = [pc |-> First(w.op)[1], wish |-> w]]
  /\ Become(c, [Idle EXCEPT !.pc = First(w.op)[2]])
  /\ UNCHANGED <<app, release, job, table, stale, ran, restarts>>

\* AppDeploymentsStart and the handler DeploymentsStart, which enters the
\* deployment and leaves it to a goroutine.
StartDeployment(c) ==
  /\ cli[c].pc = "start"
  /\ cli' = [cli EXCEPT ![c].pc = "poll"]
  /\ table' = [table EXCEPT ![c] = "pending"]
  /\ Goto(c, "begin")
  /\ UNCHANGED <<app, release, job, stale, ran, restarts>>

\* Mutant: a deployment that is not known is polled for again.
PollOn(c) ==
  /\ cli[c].pc = "poll" /\ table[c] \in {"succeeded", "failed"}
  /\ cli' = [cli EXCEPT ![c].pc = IF table[c] = "succeeded" THEN "ok" ELSE "failed"]
  /\ UNCHANGED <<app, release, job, table, srv, stale, ran, restarts>>

\* waitAsyncDeployment: the status of an unknown deployment is an error.
Poll(c) ==
  /\ cli[c].pc = "poll" /\ table[c] \notin Unfinished
  /\ cli' = [cli EXCEPT ![c].pc = IF table[c] = "succeeded" THEN "ok" ELSE "failed"]
  /\ UNCHANGED <<app, release, job, table, srv, stale, ran, restarts>>

\* The command is interrupted, loses its connection, or its deadline passes.  The
\* context of a handler is cancelled, which it may notice or not; a background
\* deployment goes on.
GiveUp(c) ==
  /\ cli[c].pc # "new" /\ ~Over(c)
  /\ cli' = [cli EXCEPT ![c].pc = "failed"]
  /\ \/ UNCHANGED <<srv, stale>>
     \/ InFlight(c) /\ Become(c, Idle) /\ stale' = stale \ {c}
  /\ UNCHANGED <<app, release, job, table, ran, restarts>>
-----------------------------------------------------------------------------
(* The handlers Create, Update and Delete *)

\* validateRoutes: the ingresses of other applications have none of the routes.
RoutesFree(a, R) == \A b \in App \ {a} : release[b].routes \cap R = {}

\* Create: an application that is there is a conflict, after which the client
\* calls Update, without a restart.
CheckCreate(c) ==
  /\ At(c, "check")
  /\ IF Of(c).exists
     THEN /\ cli' = IF InFlight(c) THEN [cli EXCEPT ![c].pc = "update"] ELSE cli
          /\ Become(c, IF InFlight(c) THEN [Idle EXCEPT !.pc = "look"] ELSE Idle)
          /\ UNCHANGED table
     ELSE IF RoutesFree(Wants(c).app, Wants(c).routes)
          THEN Goto(c, "create") /\ UNCHANGED <<cli, table>>
          ELSE Refuse(c)
  /\ UNCHANGED <<app, release, job, stale, ran, restarts>>

CreateApp(c) ==
  /\ At(c, "create")
  /\ IF Of(c).exists
     THEN Refuse(c) /\ UNCHANGED <<app, stale>>
     ELSE /\ WriteCR(Wants(c).app, [NoCR EXCEPT !.exists = TRUE, !.routes = Wants(c).routes])
          /\ Answer(c, "start")
  /\ UNCHANGED <<release, job, ran, restarts>>

\* Update looks the application up and notes whether it has a workload to restart.
LookUpdate(c) ==
  /\ At(c, "look")
  /\ IF Of(c).exists
     THEN /\ Become(c, [srv[c] EXCEPT
                         !.pc = "save",
                         !.running = release[Wants(c).app].exists /\ Of(c).image])
          /\ UNCHANGED <<cli, table>>
     ELSE Refuse(c)
  /\ UNCHANGED <<app, release, job, stale, ran, restarts>>

\* updateRoutes: a patch, valid whatever the resource version, of routes that
\* nobody validates; then a deployment, unless the update is part of a push.
SaveRoutes(c) ==
  /\ At(c, "save")
  /\ IF Of(c).exists
     THEN /\ WriteCR(Wants(c).app, [Of(c) EXCEPT !.routes = Wants(c).routes])
          /\ IF Wants(c).op = "push" THEN Answer(c, "start")
             ELSE IF srv[c].running
             THEN Goto(c, "lookup") /\ UNCHANGED <<cli, table>>
             ELSE Answer(c, "ok")
     ELSE Refuse(c) /\ UNCHANGED <<app, stale>>
  /\ UNCHANGED <<release, job, ran, restarts>>

RemoveRelease(c) ==
  /\ At(c, "remove")
  /\ release' = [release EXCEPT ![Wants(c).app] = NoRelease]
  /\ Goto(c, "delcr")
  /\ UNCHANGED <<app, job, table, cli, stale, ran, restarts>>

DeleteCR(c) ==
  /\ At(c, "delcr")
  /\ IF Of(c).exists
     THEN WriteCR(Wants(c).app, NoCR) /\ Goto(c, "list") /\ UNCHANGED <<cli, table>>
     ELSE Refuse(c) /\ UNCHANGED <<app, stale>>
  /\ UNCHANGED <<release, job, ran, restarts>>
-----------------------------------------------------------------------------
(* runAsyncDeployment: staging *)

\* Sources are staged, an image is deployed as it is.
BeginRun(c) ==
  /\ At(c, "begin")
  /\ table' = [table EXCEPT ![c] = IF Wants(c).sources THEN "staging" ELSE "deploying"]
  /\ Goto(c, IF Wants(c).sources THEN "staging" ELSE "get")
  /\ UNCHANGED <<app, release, job, cli, stale, ran, restarts>>

\* Get and IsCurrentlyStaging, in which the last job listed decides.
CheckStaging(c) ==
  /\ At(c, "staging")
  /\ \/ /\ Of(c).exists
        /\ Listed(Wants(c).app) # {} => Active(Wants(c).app) # Listed(Wants(c).app)
        /\ Goto(c, "job") /\ UNCHANGED <<cli, table>>
     \/ /\ ~Of(c).exists \/ Active(Wants(c).app) # {}
        /\ Refuse(c)
  /\ UNCHANGED <<app, release, job, stale, ran, restarts>>

CreateJob(c) ==
  /\ At(c, "job")
  /\ job' = [job EXCEPT ![c] = "active"]
  /\ Goto(c, "patch")
  /\ UNCHANGED <<app, release, table, cli, stale, ran, restarts>>

\* updateApp: a merge patch of the stage id.
PatchApp(c) ==
  /\ At(c, "patch")
  /\ IF Of(c).exists
     THEN /\ WriteCR(Wants(c).app, [Of(c) EXCEPT !.stage = c])
          /\ Goto(c, "await") /\ UNCHANGED <<cli, table>>
     ELSE Refuse(c) /\ UNCHANGED <<app, stale>>
  /\ UNCHANGED <<release, job, ran, restarts>>

\* Mutant: the error of a job that is gone leaves the status as it is.
AwaitJobSilently(c) ==
  /\ At(c, "await") /\ job[c] # "active"
  /\ IF job[c] = "complete"
     THEN Goto(c, "get") /\ table' = [table EXCEPT ![c] = "deploying"] /\ UNCHANGED cli
     ELSE IF job[c] = "failed" THEN Refuse(c)
     ELSE Become(c, Idle) /\ UNCHANGED <<cli, table>>
  /\ UNCHANGED <<app, release, job, stale, ran, restarts>>

\* waitForStagingCompletion: a job that is gone is an error.
AwaitJob(c) ==
  /\ At(c, "await") /\ job[c] # "active"
  /\ IF job[c] = "complete"
     THEN Goto(c, "get") /\ table' = [table EXCEPT ![c] = "deploying"] /\ UNCHANGED cli
     ELSE Refuse(c)
  /\ UNCHANGED <<app, release, job, stale, ran, restarts>>
-----------------------------------------------------------------------------
(* runAsyncDeployment: deployment *)

\* The routes validated later are those of this copy.
FetchApp(c) ==
  /\ At(c, "get")
  /\ IF Of(c).exists
     THEN /\ Become(c, [srv[c] EXCEPT !.pc = "image", !.copy = Of(c), !.tries = 1,
                                      !.routes = Of(c).routes])
          /\ UNCHANGED <<cli, table>>
     ELSE Refuse(c)
  /\ UNCHANGED <<app, release, job, stale, ran, restarts>>

\* Mutant: the copy is written whatever the resource version.
UpdateImageURLBlind(c) ==
  /\ At(c, "image") /\ Of(c).exists
  /\ WriteCR(Wants(c).app, [srv[c].copy EXCEPT !.image = TRUE])
  /\ Become(c, [srv[c] EXCEPT !.pc = "validate", !.copy = NoCR, !.tries = 0])
  /\ UNCHANGED <<release, job, table, cli, ran, restarts>>

\* UpdateImageURL: the copy is written back as a whole, which kubernetes refuses
\* when the CR is another by now; it is read again, at most MaxTries times.
UpdateImageURL(c) ==
  /\ At(c, "image")
  /\ \/ /\ Of(c).exists /\ c \notin stale
        /\ app' = [app EXCEPT ![Wants(c).app] = [srv[c].copy EXCEPT !.image = TRUE]]
        /\ stale' = stale \cup {d \in Cmd \ {c} : At(d, "image") /\ Wants(d).app = Wants(c).app}
        /\ Become(c, [srv[c] EXCEPT !.pc = "validate", !.copy = NoCR, !.tries = 0])
        /\ UNCHANGED <<cli, table>>
     \/ /\ Of(c).exists /\ c \in stale /\ srv[c].tries < MaxTries
        /\ Become(c, [srv[c] EXCEPT !.pc = "reget", !.copy = NoCR])
        /\ stale' = stale \ {c} /\ UNCHANGED <<app, cli, table>>
     \/ /\ ~Of(c).exists \/ (c \in stale /\ srv[c].tries = MaxTries)
        /\ Refuse(c)
        /\ stale' = stale \ {c} /\ UNCHANGED app
  /\ UNCHANGED <<release, job, ran, restarts>>

RefetchApp(c) ==
  /\ At(c, "reget")
  /\ IF Of(c).exists
     THEN /\ Become(c, [srv[c] EXCEPT !.pc = "image", !.copy = Of(c), !.tries = @ + 1])
          /\ UNCHANGED <<cli, table>>
     ELSE Refuse(c)
  /\ UNCHANGED <<app, release, job, stale, ran, restarts>>

ValidateRoutes(c) ==
  /\ At(c, "validate")
  /\ IF RoutesFree(Wants(c).app, srv[c].routes)
     THEN /\ Become(c, [srv[c] EXCEPT !.pc = "lookup", !.routes = {}])
          /\ UNCHANGED <<cli, table>>
     ELSE Refuse(c)
  /\ UNCHANGED <<app, release, job, stale, ran, restarts>>

Expected(c) == IF Wants(c).op = "push" /\ Wants(c).sources THEN c ELSE None

\* Mutant: the stage id is not compared with the one expected.
LookupAppAny(c) ==
  /\ At(c, "lookup") /\ Of(c).exists
  /\ Become(c, [srv[c] EXCEPT !.pc = "helm", !.running = FALSE, !.stage = Of(c).stage,
                              !.routes = Of(c).routes])
  /\ UNCHANGED <<app, release, job, table, cli, stale, ran, restarts>>

\* deployApp reads the CR once more; the stage id must be the one expected, if any.
LookupApp(c) ==
  /\ At(c, "lookup")
  /\ IF Of(c).exists /\ Expected(c) \in {None, Of(c).stage} /\ Of(c).image
     THEN /\ Become(c, [srv[c] EXCEPT !.pc = "helm", !.running = FALSE, !.stage = Of(c).stage,
                                      !.routes = Of(c).routes])
          /\ UNCHANGED <<cli, table>>
     ELSE Refuse(c)
  /\ UNCHANGED <<app, release, job, stale, ran, restarts>>

\* What follows a deployment: the origin of a push, the answer of an update.
AfterDeploy(c) ==
  IF Background(c)
  THEN Become(c, [Idle EXCEPT !.pc = "origin"]) /\ UNCHANGED <<cli, table>>
  ELSE Answer(c, "ok")

\* Mutant: the chart is given the stage where it wants the routes.
HelmDeploySwapped(c) ==
  /\ At(c, "helm")
  /\ release' = [release EXCEPT ![Wants(c).app] = [exists |-> TRUE, routes |-> {srv[c].stage}]]
  /\ Goto(c, "list")
  /\ UNCHANGED <<app, job, table, cli, stale, ran, restarts>>

\* helm.Deploy installs release and ingresses as one.
HelmDeploy(c) ==
  /\ At(c, "helm")
  /\ release' = [release EXCEPT ![Wants(c).app] = [exists |-> TRUE, routes |-> srv[c].routes]]
  /\ ran' = [ran EXCEPT ![Wants(c).app] = @ \cup {srv[c].stage}]
  /\ IF srv[c].stage = None
     THEN AfterDeploy(c)
     ELSE /\ Become(c, [Idle EXCEPT !.pc = "list", !.stage = srv[c].stage])
          /\ UNCHANGED <<cli, table>>
  /\ UNCHANGED <<app, job, stale, restarts>>

\* Unstage: lists the jobs other than the one of the stage deployed ...
ListJobs(c) ==
  /\ At(c, "list")
  /\ Become(c, [Idle EXCEPT !.pc = "unstage", !.jobs = Listed(Wants(c).app) \ {srv[c].stage}])
  /\ UNCHANGED <<app, release, job, table, cli, stale, ran, restarts>>

\* ... and deletes one after the other; one that is gone already is an error that
\* ends it, and that a deletion of the application ignores.
Unstage(c) ==
  /\ At(c, "unstage")
  /\ LET gone == {d \in srv[c].jobs : job[d] = "gone"}
     IN  /\ \E del \in SUBSET srv[c].jobs :
              /\ gone = {} => del = srv[c].jobs
              /\ job' = [d \in Cmd |-> IF d \in del THEN "gone" ELSE job[d]]
         /\ IF gone = {} \/ Wants(c).op = "delete" THEN AfterDeploy(c) ELSE Refuse(c)
  /\ UNCHANGED <<app, release, stale, ran, restarts>>

\* The origin is authorised now, and saved with a patch of a part of the CR that
\* is not followed here.
SetOrigin(c) ==
  /\ At(c, "origin")
  /\ \/ Of(c).exists
        /\ WriteCR(Wants(c).app, Of(c))
        /\ Settle(c, "succeeded")
     \/ Refuse(c) /\ UNCHANGED <<app, stale>>
  /\ UNCHANGED <<release, job, ran, restarts>>
-----------------------------------------------------------------------------
(* Kubernetes, and failures *)

JobEnds(c) ==
  /\ job[c] = "active"
  /\ \E st \in {"complete", "failed"} : job' = [job EXCEPT ![c] = st]
  /\ UNCHANGED <<app, release, table, srv, cli, stale, ran, restarts>>

\* A call fails or times out: the handler answers with an error, the background
\* deployment is marked as failed.
Fail(c) ==
  /\ ~At(c, "idle")
  /\ Refuse(c) /\ stale' = stale \ {c}
  /\ UNCHANGED <<app, release, job, ran, restarts>>

\* The server stops and starts: goroutines, connections and the table are lost.
Restart ==
  /\ restarts < Restarts /\ restarts' = restarts + 1
  /\ table' = [c \in Cmd |-> "none"]
  /\ srv' = [c \in Cmd |-> Idle] /\ stale' = {}
  /\ cli' = [c \in Cmd |-> IF InFlight(c) THEN [cli[c] EXCEPT !.pc = "failed"] ELSE cli[c]]
  /\ UNCHANGED <<app, release, job, ran>>
-----------------------------------------------------------------------------
Serve(c) ==
  \/ CheckCreate(c) \/ CreateApp(c) \/ LookUpdate(c) \/ SaveRoutes(c)
  \/ RemoveRelease(c) \/ DeleteCR(c)
  \/ BeginRun(c) \/ CheckStaging(c) \/ CreateJob(c) \/ PatchApp(c) \/ AwaitJob(c)
  \/ FetchApp(c) \/ UpdateImageURL(c) \/ RefetchApp(c) \/ ValidateRoutes(c)
  \/ LookupApp(c) \/ HelmDeploy(c) \/ ListJobs(c) \/ Unstage(c) \/ SetOrigin(c)

Wishes == {w \in Wish : w.op \in Ops /\ w.app \in Target
                        /\ (w.op # "push" => ~w.sources) /\ (w.op = "delete" => w.routes = {})}

Next ==
  \/ \E c \in Cmd : \/ \E w \in Wishes : Invoke(c, w)
                    \/ StartDeployment(c) \/ Poll(c) \/ GiveUp(c)
                    \/ Serve(c) \/ Fail(c) \/ JobEnds(c)
  \/ Restart

Spec == Init /\ [][Next]_vars

\* The Go runtime runs every handler and goroutine, the client goes on with its
\* command, and a staging job ends (kubernetes enforces its deadline); nothing
\* makes a client give up or the server stop.
FairSpec ==
  Spec /\ \A c \in Cmd : /\ WF_vars(Serve(c)) /\ WF_vars(StartDeployment(c))
                         /\ WF_vars(Poll(c)) /\ WF_vars(JobEnds(c))
-----------------------------------------------------------------------------
(* Properties *)

TypeOK ==
  /\ app \in [App -> CR] /\ release \in [App -> Release]
  /\ job \in [Cmd -> JobState]
  /\ table \in [Cmd -> Status]
  /\ srv \in [Cmd -> Thread] /\ cli \in [Cmd -> Client]
  /\ stale \subseteq Cmd /\ ran \in [App -> SUBSET Build] /\ restarts \in 0..Restarts

\* A deployment whose status is unfinished is being worked on, and the other way
\* round: whatever fails, no client polls for a deployment that nobody does, and
\* none is told of an end that has not come (runAsyncDeployment, failErr, failAPI).
StatusSettled == \A c \in Cmd : table[c] \in Unfinished <=> Background(c)

\* A push of sources that reports success was deployed: the release of its
\* application ran the stage that it built, however other pushes, updates and
\* deletions of the application overlapped it (deployApp, "stage id mismatch").
SuccessWasDeployed ==
  \A c \in Cmd : cli[c].pc = "ok" /\ Wants(c).sources => c \in ran[Wants(c).app]

\* The routes of an application change only to what a request asks for: the whole
\* CR that UpdateImageURL writes back never undoes an update of the routes.
RoutesStay ==
  [][\A a \in App : app[a].exists /\ app'[a].exists /\ app'[a].routes # app[a].routes
       => \E c \in Cmd : At(c, "save") /\ Wants(c).app = a /\ app'[a].routes = Wants(c).routes]_vars

\* A push that polls comes to an end, without its deadline: the status settles
\* also when the staging job is deleted by another request, when the CR keeps
\* changing, or when the server has forgotten the deployment.
PushEnds == \A c \in Cmd : cli[c].pc = "poll" ~> Over(c)
=============================================================================
