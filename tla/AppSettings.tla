---------------------------- MODULE AppSettings -----------------------------
(***************************************************************************)
(* The settings of one application: its environment and its bindings to    *)
(* configurations, each kept in a kubernetes secret of its own, and the    *)
(* workload that runs with them.  A request of the API reads and writes    *)
(* the secrets with optimistic concurrency, and redeploys the workload.    *)
(*                                                                         *)
(* One action is one access to kubernetes or helm, so that requests        *)
(* interleave where the server lets them.                                  *)
(*                                                                         *)
(* Abstractions.  A secret holds the names of variables and configurations *)
(* and not the values.  Resource versions are not counted: "stale" holds   *)
(* the requests about to write a copy that is older than the secret.       *)
(* Reads that are used together, and nothing written in between depends    *)
(* on, are one action.  The secrets for scale and services follow the same *)
(* pattern and are left out, as are routes and chart values.               *)
(***************************************************************************)
EXTENDS Naturals

CONSTANTS
  Req,      \* slots for requests: as many are served at the same time (bound)
  Var,      \* names of environment variables
  Config,   \* names of configurations
  Uid,      \* uids of the application's custom resource
  None,     \* no application
  Ops,      \* kinds of requests that clients send
  MaxTries, \* attempts of RetryOnConflict (retry.DefaultRetry: 5 steps)
  Stagings, \* whether stagings begin and end meanwhile
  Faults    \* whether a request may fail between any two accesses

AllOps == {"create", "set", "bind", "unbind", "update", "delconf", "deploy", "delete"}

ASSUME SettingsAssumption ==
  /\ None \notin Uid
  /\ Ops \subseteq AllOps
  /\ MaxTries \in Nat \ {0}
  /\ Stagings \in BOOLEAN /\ Faults \in BOOLEAN

VARIABLES
  app,      \* the uid of the custom resource, if there is one
  image,    \* whether the custom resource names an image
  staging,  \* whether a staging job is active
  secret,   \* the two secrets
  config,   \* the configurations that exist
  workload, \* the helm release and the settings it was deployed with
  stale, req

vars == <<app, image, staging, secret, config, workload, stale, req>>
-----------------------------------------------------------------------------
(* Data *)

Area == {"env", "conf"}
Key == Var \cup Config
KeysOf(a) == IF a = "env" THEN Var ELSE Config

\* The owner of a secret is the custom resource it was created for.
Secret == [owner : Uid \cup {None}, data : SUBSET Key]
NoSecret == [owner |-> None, data |-> {}]
There(a) == secret[a].owner # None

Change == [mode : {"none", "add", "remove", "replace"}, keys : SUBSET Key]
NoChange == [mode |-> "none", keys |-> {}]

\* A plan: the changes to be made, one for each area at most.
Plan == [Area -> Change]
NoPlan == [a \in Area |-> NoChange]
PlanFor(a, mode, keys) == [NoPlan EXCEPT ![a] = [mode |-> mode, keys |-> keys]]
PlanBoth(mode, env, conf) ==
  [a \in Area |-> IF a = "env" THEN [mode |-> mode, keys |-> env]
                               ELSE [mode |-> "replace", keys |-> conf]]

\* modifyEnvironment and modifyBoundConfigurations
Modify(c, d) ==
  CASE c.mode = "add" -> d \cup c.keys
    [] c.mode = "remove" -> d \ c.keys
    [] c.mode = "replace" -> c.keys

Workload == [running : BOOLEAN, env : SUBSET Var, conf : SUBSET Config]
NoWorkload == [running |-> FALSE, env |-> {}, conf |-> {}]

\* What a request holds in its local variables: the changes it has still to
\* make, what it loads a secret for (phase), the copy of a secret and whether
\* that copy has a resource version, the settings of its last lookup, whether it
\* redeploys the workload (in a deployment: whether there is an image to deploy),
\* and the configurations it is about (target).
PCs == {"idle", "lookup", "load", "owner", "make", "state", "exist", "write",
        "bound", "helm", "create", "list", "drop", "remove", "delcr"}
Phases == {"none", "first", "known", "update", "deploy"}
Request ==
  [op : AllOps \cup {"none"}, pc : PCs, plan : Plan, phase : Phases,
   area : Area, copy : SUBSET Key, versioned : BOOLEAN, owner : Uid \cup {None},
   tries : Nat, redeploy : BOOLEAN, env : SUBSET Var, conf : SUBSET Config,
   target : SUBSET Config, unbind : BOOLEAN]
Idle ==
  [op |-> "none", pc |-> "idle", plan |-> NoPlan, phase |-> "none", area |-> "env",
   copy |-> {}, versioned |-> FALSE, owner |-> None, tries |-> 0, redeploy |-> FALSE,
   env |-> {}, conf |-> {}, target |-> {}, unbind |-> FALSE]

At(r, pc) == req[r].pc = pc
Become(r, new) == req' = [req EXCEPT ![r] = new]
End(r) == Become(r, Idle)
Start(r, op) == At(r, "idle") /\ op \in Ops

\* A write of a secret makes the copies old that others are about to write.
Outdate(a, r) == stale' = (stale \ {r}) \cup {q \in Req \ {r} : At(q, "write") /\ req[q].area = a}
-----------------------------------------------------------------------------
(* Before any request, and what happens outside of the requests modelled *)

Init ==
  /\ app = None
  /\ image = FALSE /\ staging = FALSE
  /\ secret = [a \in Area |-> NoSecret]
  /\ config = {}
  /\ workload = NoWorkload
  /\ stale = {}
  /\ req = [r \in Req |-> Idle]

CreateConfiguration(c) ==
  /\ c \notin config
  /\ config' = config \cup {c}
  /\ UNCHANGED <<app, image, staging, secret, workload, stale, req>>

StagingToggles ==
  /\ Stagings /\ app # None
  /\ staging' = ~staging
  /\ UNCHANGED <<app, image, secret, config, workload, stale, req>>

\* Kubernetes collects the secrets of an owner that is gone, in the background.
CollectSecret(a) ==
  /\ There(a) /\ secret[a].owner # app
  /\ secret' = [secret EXCEPT ![a] = NoSecret]
  /\ UNCHANGED <<app, image, staging, config, workload, stale, req>>
-----------------------------------------------------------------------------
(* How requests begin *)

\* Set and Unset of the environment
BeginSet(r, mode, v) ==
  /\ Start(r, "set") /\ mode \in {"add", "remove"}
  /\ Become(r, [Idle EXCEPT !.op = "set", !.pc = "lookup", !.phase = "first",
                            !.plan = PlanFor("env", mode, {v})])
  /\ UNCHANGED <<app, image, staging, secret, config, workload, stale>>

BeginBind(r, c) ==
  /\ Start(r, "bind")
  /\ Become(r, [Idle EXCEPT !.op = "bind", !.pc = "lookup", !.phase = "first",
                            !.target = {c}, !.plan = PlanFor("conf", "add", {c})])
  /\ UNCHANGED <<app, image, staging, secret, config, workload, stale>>

BeginUnbind(r, c) ==
  /\ Start(r, "unbind") /\ c \in config
  /\ Become(r, [Idle EXCEPT !.op = "unbind", !.pc = "lookup", !.phase = "first",
                            !.plan = PlanFor("conf", "remove", {c})])
  /\ UNCHANGED <<app, image, staging, secret, config, workload, stale>>

\* The update of an application: its environment, then its configurations.
BeginUpdate(r, mode, v, cs) ==
  /\ Start(r, "update") /\ mode \in {"add", "replace"}
  /\ Become(r, [Idle EXCEPT !.op = "update", !.pc = "lookup", !.phase = "first",
                            !.target = cs, !.plan = PlanBoth(mode, {v}, cs)])
  /\ UNCHANGED <<app, image, staging, secret, config, workload, stale>>

BeginCreate(r, vs, cs) ==
  /\ Start(r, "create") /\ app = None /\ cs \subseteq config
  /\ Become(r, [Idle EXCEPT !.op = "create", !.pc = "create", !.phase = "update",
                            !.plan = PlanBoth("replace", vs, cs)])
  /\ UNCHANGED <<app, image, staging, secret, config, workload, stale>>

\* The last request of a push, which names the image.
BeginDeploy(r) ==
  /\ Start(r, "deploy") /\ app # None
  /\ image' = TRUE
  /\ Become(r, [Idle EXCEPT !.op = "deploy", !.pc = "lookup", !.phase = "deploy"])
  /\ UNCHANGED <<app, staging, secret, config, workload, stale>>

\* The deletion of a configuration
BeginDelconf(r, c, unbind) ==
  /\ Start(r, "delconf") /\ c \in config
  /\ Become(r, [Idle EXCEPT !.op = "delconf", !.pc = "list", !.target = {c},
                            !.unbind = unbind])
  /\ UNCHANGED <<app, image, staging, secret, config, workload, stale>>

BeginDelete(r) ==
  /\ Start(r, "delete") /\ app # None
  /\ Become(r, [Idle EXCEPT !.op = "delete", !.pc = "remove"])
  /\ UNCHANGED <<app, image, staging, secret, config, workload, stale>>
-----------------------------------------------------------------------------
(* Reading: Lookup and fetch, loadOrCreateSecret *)

Read(r, a, phase) == [req[r] EXCEPT !.pc = "load", !.area = a, !.phase = phase]

\* The custom resource is read first, with the image a deployment is about.
LookupApp(r) ==
  /\ At(r, "lookup")
  /\ IF app # None
     THEN Become(r, [Read(r, "env", req[r].phase) EXCEPT
                       !.redeploy = (req[r].phase = "deploy") /\ image])
     ELSE End(r)
  /\ UNCHANGED <<app, image, staging, secret, config, workload, stale>>

\* How the request goes on with the secret it has loaded, or created.  Only
\* a secret that was loaded has a resource version.
Loaded(r, d, versioned) ==
  LET q == req[r]
  IN  CASE q.phase = "first" /\ q.area = "env" -> Become(r, Read(r, "conf", "first"))
        [] q.phase = "first" /\ q.area = "conf" -> Become(r, [q EXCEPT !.pc = "state"])
        [] q.phase = "known" -> Become(r, [q EXCEPT !.pc = "exist", !.conf = d])
        [] q.phase = "deploy" /\ q.area = "env" ->
             Become(r, [Read(r, "conf", "deploy") EXCEPT !.env = d])
        [] q.phase = "deploy" /\ q.area = "conf" ->
             Become(r, [q EXCEPT !.pc = "bound", !.conf = d])
        [] q.phase = "update" ->
             Become(r, [q EXCEPT !.pc = "write", !.copy = d, !.versioned = versioned])

LoadSecret(r) ==
  /\ At(r, "load")
  /\ IF There(req[r].area)
     THEN Loaded(r, secret[req[r].area].data, TRUE)
     ELSE Become(r, [req[r] EXCEPT !.pc = "owner"])
  /\ UNCHANGED <<app, image, staging, secret, config, workload, stale>>

\* createSecret: the owner is read first.  A secret that was created meanwhile
\* is an error, which is not retried.
ReadOwner(r) ==
  /\ At(r, "owner")
  /\ IF app # None THEN Become(r, [req[r] EXCEPT !.pc = "make", !.owner = app]) ELSE End(r)
  /\ UNCHANGED <<app, image, staging, secret, config, workload, stale>>

MakeSecret(r) ==
  /\ At(r, "make")
  /\ IF There(req[r].area)
     THEN End(r) /\ UNCHANGED <<secret, stale>>
     ELSE /\ secret' = [secret EXCEPT ![req[r].area] = [owner |-> req[r].owner, data |-> {}]]
          /\ Outdate(req[r].area, r)
          /\ Loaded(r, {}, FALSE)
  /\ UNCHANGED <<app, image, staging, config, workload>>

\* The workload, as found by the first lookup: it is redeployed if it is running,
\* which it is not while a staging is active.  An update may ask for no restart,
\* and deploys in any case when it changes the number of instances.
FirstArea(r) == IF req[r].plan["env"] # NoChange THEN "env" ELSE "conf"
ReadState(r) ==
  /\ At(r, "state")
  /\ \E redeploy \in IF req[r].op = "update" THEN BOOLEAN
                     ELSE {workload.running /\ ~staging} :
       Become(r, IF req[r].op = "bind"
                 THEN [Read(r, "conf", "known") EXCEPT !.redeploy = redeploy]
                 ELSE [Read(r, FirstArea(r), "update") EXCEPT !.redeploy = redeploy])
  /\ UNCHANGED <<app, image, staging, secret, config, workload, stale>>

\* Configurations to be bound have to exist.  Binding what is bound is no change.
CheckConfigurations(r) ==
  /\ At(r, "exist")
  /\ IF /\ req[r].target \subseteq config
        /\ req[r].op = "bind" => ~(req[r].target \subseteq req[r].conf)
     THEN Become(r, [Read(r, "conf", "update") EXCEPT !.conf = {}])
     ELSE End(r)
  /\ UNCHANGED <<app, image, staging, secret, config, workload, stale>>
-----------------------------------------------------------------------------
(* Writing: envUpdate and configUpdate *)

\* What follows a change: the next one, or else the deployment.
AfterWrite(r) ==
  LET q == [req[r] EXCEPT !.plan[req[r].area] = NoChange, !.copy = {},
                          !.versioned = FALSE, !.owner = None, !.tries = 0]
  IN  CASE q.plan # NoPlan /\ q.op = "update" -> Become(r, [q EXCEPT !.pc = "exist"])
        [] q.plan # NoPlan /\ q.op = "create" ->
             Become(r, [q EXCEPT !.pc = "load", !.area = "env"])
        [] q.plan = NoPlan /\ q.redeploy ->
             Become(r, [q EXCEPT !.pc = "lookup", !.phase = "deploy", !.redeploy = FALSE])
        [] q.plan = NoPlan /\ ~q.redeploy /\ q.op = "delconf" ->
             Become(r, [q EXCEPT !.pc = "drop"])
        [] OTHER -> End(r)

\* Mutant: a conflict is resolved by writing again without the version.
WriteSecretForce(r) ==
  /\ At(r, "write") /\ There(req[r].area)
  /\ secret' = [secret EXCEPT ![req[r].area].data =
                                   Modify(req[r].plan[req[r].area], req[r].copy)]
  /\ Outdate(req[r].area, r)
  /\ AfterWrite(r)
  /\ UNCHANGED <<app, image, staging, config, workload>>

\* The update is refused when the secret has changed since it was loaded, and
\* retried from the load.  A copy without a version is written in any case.
WriteSecret(r) ==
  /\ At(r, "write")
  /\ LET a == req[r].area
         conflict == req[r].versioned /\ r \in stale
     IN  \/ /\ There(a) /\ ~conflict
            /\ secret' = [secret EXCEPT ![a].data = Modify(req[r].plan[a], req[r].copy)]
            /\ Outdate(a, r)
            /\ AfterWrite(r)
         \/ /\ There(a) /\ conflict /\ req[r].tries + 1 < MaxTries
            /\ Become(r, [Read(r, a, "update") EXCEPT !.tries = @ + 1, !.copy = {},
                                                      !.versioned = FALSE])
            /\ stale' = stale \ {r} /\ UNCHANGED secret
         \/ /\ ~There(a) \/ (conflict /\ req[r].tries + 1 = MaxTries)
            /\ End(r) /\ stale' = stale \ {r} /\ UNCHANGED secret
  /\ UNCHANGED <<app, image, staging, config, workload>>
-----------------------------------------------------------------------------
(* Deployment: deployApp, after its own lookup *)

\* The lookup has to have found an image, and each of the bound configurations,
\* which are looked up, has to be there.
LookupBound(r) ==
  /\ At(r, "bound")
  /\ IF req[r].redeploy /\ req[r].conf \subseteq config
     THEN Become(r, [req[r] EXCEPT !.pc = "helm", !.redeploy = FALSE])
     ELSE End(r)
  /\ UNCHANGED <<app, image, staging, secret, config, workload, stale>>

\* Mutant: environment and configurations are swapped in the chart parameters.
HelmDeploySwapped(r) ==
  /\ At(r, "helm")
  /\ workload' = [running |-> TRUE, env |-> req[r].conf, conf |-> req[r].env]
  /\ End(r)
  /\ UNCHANGED <<app, image, staging, secret, config, stale>>

\* Mutant: the environment is not handed to the chart.
HelmDeployNoEnv(r) ==
  /\ At(r, "helm")
  /\ workload' = [running |-> TRUE, env |-> workload.env, conf |-> req[r].conf]
  /\ End(r)
  /\ UNCHANGED <<app, image, staging, secret, config, stale>>

HelmDeploy(r) ==
  /\ At(r, "helm")
  /\ workload' = [running |-> TRUE, env |-> req[r].env, conf |-> req[r].conf]
  /\ IF req[r].op = "delconf"
     THEN Become(r, [req[r] EXCEPT !.pc = "drop", !.env = {}, !.conf = {}])
     ELSE End(r)
  /\ UNCHANGED <<app, image, staging, secret, config, stale>>
-----------------------------------------------------------------------------
(* Creation and deletion of the application *)

FreshUid(u) ==
  /\ \A a \in Area : secret[a].owner # u
  /\ \A q \in Req : req[q].owner # u

CreateApp(r) ==
  /\ At(r, "create")
  /\ IF app = None
     THEN /\ app' \in {u \in Uid : FreshUid(u)}
          /\ Become(r, Read(r, "conf", "update"))
     ELSE End(r) /\ UNCHANGED app
  /\ UNCHANGED <<image, staging, secret, config, workload, stale>>

RemoveWorkload(r) ==
  /\ At(r, "remove")
  /\ workload' = NoWorkload
  /\ Become(r, [req[r] EXCEPT !.pc = "delcr"])
  /\ UNCHANGED <<app, image, staging, secret, config, stale>>

DeleteApp(r) ==
  /\ At(r, "delcr")
  /\ app' = None /\ image' = FALSE /\ staging' = FALSE
  /\ End(r)
  /\ UNCHANGED <<secret, config, workload, stale>>
-----------------------------------------------------------------------------
(* Deletion of a configuration *)

\* Mutant: bound configurations are deleted like others.
ListBoundIgnore(r) ==
  /\ At(r, "list")
  /\ Become(r, [req[r] EXCEPT !.pc = "drop"])
  /\ UNCHANGED <<app, image, staging, secret, config, workload, stale>>

\* BoundAppsNamesFor: a bound configuration is unbound first, if the request
\* says so, and refused otherwise.
ListBound(r) ==
  /\ At(r, "list")
  /\ LET bound == There("conf") /\ req[r].target \subseteq secret["conf"].data
     IN  \/ ~bound /\ Become(r, [req[r] EXCEPT !.pc = "drop"])
         \/ /\ bound /\ req[r].unbind
            /\ Become(r, [req[r] EXCEPT !.pc = "lookup", !.phase = "first",
                                        !.plan = PlanFor("conf", "remove", req[r].target)])
         \/ bound /\ ~req[r].unbind /\ End(r)
  /\ UNCHANGED <<app, image, staging, secret, config, workload, stale>>

\* Deleting what is gone already is an error.
DropConfiguration(r) ==
  /\ At(r, "drop")
  /\ config' = config \ req[r].target
  /\ End(r)
  /\ UNCHANGED <<app, image, staging, secret, workload, stale>>

\* An access fails, or the server stops: nothing is undone.
Fail(r) ==
  /\ Faults /\ ~At(r, "idle")
  /\ End(r) /\ stale' = stale \ {r}
  /\ UNCHANGED <<app, image, staging, secret, config, workload>>
-----------------------------------------------------------------------------
Begin(r) ==
  \/ \E v \in Var, mode \in {"add", "remove"} : BeginSet(r, mode, v)
  \/ \E c \in Config : BeginBind(r, c) \/ BeginUnbind(r, c)
  \/ \E v \in Var, mode \in {"add", "replace"}, cs \in SUBSET Config :
        BeginUpdate(r, mode, v, cs)
  \/ \E vs \in SUBSET Var, cs \in SUBSET Config : BeginCreate(r, vs, cs)
  \/ BeginDeploy(r)
  \/ \E c \in Config, unbind \in BOOLEAN : BeginDelconf(r, c, unbind)
  \/ BeginDelete(r)

Proceed(r) ==
  \/ LookupApp(r) \/ LoadSecret(r) \/ ReadOwner(r) \/ MakeSecret(r) \/ ReadState(r)
  \/ CheckConfigurations(r) \/ WriteSecret(r)
  \/ LookupBound(r) \/ HelmDeploy(r)
  \/ CreateApp(r) \/ RemoveWorkload(r) \/ DeleteApp(r)
  \/ ListBound(r) \/ DropConfiguration(r)

Outside ==
  \/ \E c \in Config : CreateConfiguration(c)
  \/ StagingToggles
  \/ \E a \in Area : CollectSecret(a)

Next == (\E r \in Req : Begin(r) \/ Proceed(r) \/ Fail(r)) \/ Outside

Spec == Init /\ [][Next]_vars
-----------------------------------------------------------------------------
(* Properties *)

TypeOK ==
  /\ app \in Uid \cup {None}
  /\ image \in BOOLEAN /\ staging \in BOOLEAN
  /\ secret \in [Area -> Secret]
  /\ config \subseteq Config
  /\ workload \in Workload
  /\ stale \subseteq Req
  /\ req \in [Req -> Request]
  /\ \A a \in Area : secret[a].data \subseteq KeysOf(a)
  /\ \A r \in Req : /\ req[r].copy \subseteq KeysOf(req[r].area)
                    /\ \A a \in Area : req[r].plan[a].keys \subseteq KeysOf(a)

\* While the application is not deleted, each request makes its changes to the
\* settings as they are at that moment, each once, or gives up: the
\* conflicts and retries of envUpdate and configUpdate never lose the change of
\* another request, although a secret just created is written without a version.
Atomic == INSTANCE AtomicSettings WITH
            data <- [a \in Area |-> secret[a].data],
            todo <- [r \in Req |-> req[r].plan]
AtomicChanges == Atomic!Spec

\* A configuration that is bound exists.  "While it should not be possible through
\* epinio itself ... `epinio configuration delete S` on a bound configuration S will
\* either reject the operation, or, when forced, unbind S from the app" (create.go).
BindingsExist == secret["conf"].data \subseteq config

\* When no request is in progress the workload runs with the settings as saved:
\* "If the application is active the workload is restarted to update it to the new
\* settings" (env.go, EnvironmentSet).
WorkloadCurrent ==
  (\A r \in Req : At(r, "idle")) /\ workload.running
    => workload.env = secret["env"].data /\ workload.conf = secret["conf"].data
=============================================================================
