-------------------------- MODULE ServiceInstances --------------------------
(***************************************************************************)
(* The service instances of one namespace, and their bindings to           *)
(* applications.  A service is a secret with its settings, the release of  *)
(* its chart, and the credentials: secrets that the chart makes and the    *)
(* server turns into configurations by labelling them.  An application     *)
(* keeps two sets: the configurations bound to it, and the services.       *)
(*                                                                         *)
(* One action is one access of a request to kubernetes or helm.  How helm  *)
(* is called is the subject of HelmRelease, how the sets of an application *)
(* are stored that of AppSettings: here both are single steps, save that   *)
(* an installation begins and ends.                                        *)
(*                                                                         *)
(* Abstractions.  A service has one credential, named like the service.    *)
(* The two tries of an installation are one.  Applications stay, and run   *)
(* or do not; of their pods the configurations they were deployed with are *)
(* kept.  A conflict may or may not be the last that is retried.           *)
(***************************************************************************)
EXTENDS Naturals

CONSTANTS
  Req,     \* slots for requests and their goroutines (bound)
  Service,
  App,
  Key,     \* names of settings
  Val,     \* their values
  None,    \* no value
  Keep,    \* in a change of settings: the value stays
  Together, \* operations that are under way at the same time (bound)
  Faults   \* whether calls fail and requests stop halfway

ASSUME ServiceAssumption ==
  /\ None \notin Val /\ Keep \notin Val \cup {None}
  /\ Faults \in BOOLEAN

VARIABLES
  secret,  \* the secrets of the services, with the settings
  release, \* their helm releases
  cred,    \* their credentials
  bound,   \* what is bound to the applications
  pods,    \* the workloads of the applications
  req,
  past     \* history: what has happened that may spoil the order

vars == <<secret, release, cred, bound, pods, req, past>>
stores == <<secret, release, cred, bound, pods>>
-----------------------------------------------------------------------------
(* Data *)

Settings == [Key -> Val \cup {None}]
NoSettings == [k \in Key |-> None]
Change == [Key -> Val \cup {None, Keep}]

\* Set and Remove of an update, or all the settings of a replacement
Apply(settings, change) ==
  [k \in Key |-> IF change[k] = Keep THEN settings[k] ELSE change[k]]

\* ReuseValues: a setting that is not given keeps its value in the release.
Reuse(old, new) == [k \in Key |-> IF new[k] = None THEN old[k] ELSE new[k]]

Secret == [exists : BOOLEAN, settings : Settings]
NoSecret == [exists |-> FALSE, settings |-> NoSettings]
Release == [status : {"none", "pending", "deployed", "failed"}, settings : Settings]
NoRelease == [status |-> "none", settings |-> NoSettings]
Bound == [configs : SUBSET Service, services : SUBSET Service]
Pods == [runs : BOOLEAN, mounts : SUBSET Service]

Ops == {"none", "create", "update", "replace", "bind", "unbind", "unbindconfig",
        "delete", "deleteall"}
PCs == {"idle", "load", "store", "check", "cleanup", "install", "installing", "hook",
        "list", "restart", "undo", "validate", "bind", "deploy", "bindservice",
        "configs", "unset", "unbindservice", "collect", "next", "remove", "secret"}

\* svc, app: what is worked on now; svcs: all services of the request; todo: those
\* yet to do; found: those whose credentials are bound or unbound together; pairs:
\* what a deletion unbinds; copy, fresh: the secret read, and whether it is current;
\* pub: the settings the release gets; sync, flag: Wait, and Restart or Unbind.
Request == [pc : PCs, op : Ops, svc : Service \cup {None}, app : App \cup {None},
            svcs : SUBSET Service, todo : SUBSET Service, found : SUBSET Service,
            pairs : SUBSET (App \X Service), apps : SUBSET App, change : Change,
            copy : Settings, fresh : BOOLEAN, pub : Settings,
            sync : BOOLEAN, flag : BOOLEAN]
Idle == [pc |-> "idle", op |-> "none", svc |-> None, app |-> None, svcs |-> {},
         todo |-> {}, found |-> {}, pairs |-> {}, apps |-> {}, change |-> NoSettings,
         copy |-> NoSettings, fresh |-> FALSE, pub |-> NoSettings,
         sync |-> FALSE, flag |-> FALSE]

At(r, pc) == req[r].pc = pc
Become(r, new) == req' = [req EXCEPT ![r] = new]
Goto(r, pc) == Become(r, [req[r] EXCEPT !.pc = pc])
End(r) == Become(r, Idle)

\* ValidateService
Ready(s) == secret[s].exists /\ release[s].status = "deployed"
\* Somebody holds the mutex of the release.
Busy(s) == \E q \in Req : At(q, "installing") /\ req[q].svc = s
\* LabelServiceSecrets
Labelled(s) == IF cred[s] = "none" THEN "none" ELSE "config"

\* Secret s changes: those who have read it will be refused to write.
Outdate(s) == [q \in Req |-> IF req[q].svc = s THEN [req[q] EXCEPT !.fresh = FALSE] ELSE req[q]]
-----------------------------------------------------------------------------
Init ==
  /\ secret = [s \in Service |-> NoSecret]
  /\ release = [s \in Service |-> NoRelease]
  /\ cred = [s \in Service |-> "none"]
  /\ bound = [a \in App |-> [configs |-> {}, services |-> {}]]
  /\ pods \in [App -> [runs : BOOLEAN, mounts : {{}}]]
  /\ req = [r \in Req |-> Idle]
  /\ past = {}

AllIdle == \A q \in Req : At(q, "idle")

\* A request begins, while others are under way or not.
Start(r, new) ==
  /\ At(r, "idle") /\ Become(r, new)
  /\ AllIdle \/ \A q \in Req : req'[q].op \in Together \cup {"none"}
  /\ past' = IF AllIdle THEN past ELSE past \cup {"overlap"}

\* Create: the name is free, and stays so until the secret is created.
CreateService(r, s, settings, sync) ==
  /\ ~secret[s].exists
  /\ secret' = [secret EXCEPT ![s] = [exists |-> TRUE, settings |-> settings]]
  /\ Start(r, [Idle EXCEPT !.pc = "check", !.op = "create", !.svc = s,
                           !.pub = settings, !.sync = sync])
  /\ UNCHANGED <<release, cred, bound, pods>>

\* Update and Replace
BeginChange(r, op, s, change, restart) ==
  /\ secret[s].exists
  /\ op = "replace" => change \in Settings
  /\ Start(r, [Idle EXCEPT !.pc = "load", !.op = op, !.svc = s, !.change = change,
                           !.flag = restart])
  /\ UNCHANGED stores

\* Bind and BatchBind
BeginBind(r, a, svcs) ==
  /\ svcs # {}
  /\ Start(r, [Idle EXCEPT !.pc = "validate", !.op = "bind", !.app = a, !.svcs = svcs,
                           !.todo = svcs])
  /\ UNCHANGED stores

BeginUnbind(r, a, s) ==
  /\ Ready(s)
  /\ Start(r, [Idle EXCEPT !.pc = "configs", !.op = "unbind", !.app = a, !.svc = s])
  /\ UNCHANGED stores

BeginDelete(r, svcs, unbind) ==
  /\ svcs # {} /\ \A s \in svcs : secret[s].exists
  /\ Start(r, [Idle EXCEPT !.pc = "collect", !.op = "delete", !.svcs = svcs,
                           !.todo = svcs, !.flag = unbind])
  /\ UNCHANGED stores

\* DeleteAll, when the namespace is deleted
BeginDeleteAll(r) ==
  /\ \E s \in Service : secret[s].exists
  /\ Start(r, [Idle EXCEPT !.pc = "remove", !.op = "deleteall",
                           !.todo = {s \in Service : secret[s].exists}])
  /\ UNCHANGED stores

\* A user unbinds the configuration that is a credential of the service.
BeginUnbindConfig(r, a, s) ==
  /\ cred[s] = "config" /\ At(r, "idle") /\ AllIdle
  /\ Become(r, [Idle EXCEPT !.pc = "unset", !.op = "unbindconfig", !.app = a, !.svc = s,
                            !.found = {s}])
  /\ past' = past \cup {"direct"}
  /\ UNCHANGED stores
-----------------------------------------------------------------------------
(* UpdateService, ReplaceService: the secret is read, changed and written, again if *)
(* it has changed in between.                                                       *)

New(r) == Apply(req[r].copy, req[r].change)

LoadSettings(r) ==
  /\ At(r, "load")
  /\ LET s == req[r].svc
     IN  IF ~secret[s].exists \/ (req[r].op = "replace" /\ req[r].change = secret[s].settings)
         THEN End(r)
         ELSE Become(r, [req[r] EXCEPT !.pc = "store", !.copy = secret[s].settings,
                                       !.fresh = TRUE])
  /\ UNCHANGED <<stores, past>>

\* Mutant: whatever the secret has become is overwritten.
StoreSettingsBlind(r) ==
  /\ At(r, "store") /\ secret[req[r].svc].exists
  /\ secret' = [secret EXCEPT ![req[r].svc].settings = New(r)]
  /\ req' = [Outdate(req[r].svc) EXCEPT
               ![r] = [req[r] EXCEPT !.pc = "check",
                                     !.pub = IF req[r].op = "replace" THEN New(r) ELSE @]]
  /\ UNCHANGED <<release, cred, bound, pods, past>>

\* A replacement publishes the settings it has written to the release, an update
\* those it failed to write.
StoreSettings(r) ==
  /\ At(r, "store") /\ secret[req[r].svc].exists /\ req[r].fresh
  /\ secret' = [secret EXCEPT ![req[r].svc].settings = New(r)]
  /\ req' = [Outdate(req[r].svc) EXCEPT
               ![r] = [req[r] EXCEPT !.pc = "check",
                                     !.pub = IF req[r].op = "replace" THEN New(r) ELSE @]]
  /\ UNCHANGED <<release, cred, bound, pods, past>>

\* Mutant: what was asked for is published, not what comes of it.
StoreRefusedRaw(r) ==
  /\ At(r, "store") /\ (~req[r].fresh \/ ~secret[req[r].svc].exists)
  /\ \/ End(r)
     \/ /\ secret[req[r].svc].exists
        /\ Become(r, [req[r] EXCEPT !.pc = "load",
                                    !.pub = IF req[r].op = "update" THEN req[r].change ELSE @])
  /\ UNCHANGED <<stores, past>>

\* A conflict, which is tried again or was the last; or the secret is gone.
StoreRefused(r) ==
  /\ At(r, "store") /\ (~req[r].fresh \/ ~secret[req[r].svc].exists)
  /\ \/ End(r)
     \/ /\ secret[req[r].svc].exists
        /\ Become(r, [req[r] EXCEPT !.pc = "load",
                                    !.pub = IF req[r].op = "update" THEN New(r) ELSE @])
  /\ UNCHANGED <<stores, past>>
-----------------------------------------------------------------------------
(* DeployService, waiting or in the background, and WhenFullyDeployed *)

\* A failed creation that waits takes its secret back.
DeployFails(r) == IF req[r].op = "create" /\ req[r].sync THEN Goto(r, "undo") ELSE End(r)

CheckRelease(r) ==
  /\ At(r, "check")
  /\ Goto(r, IF release[req[r].svc].status \in {"none", "deployed"} THEN "install" ELSE "cleanup")
  /\ UNCHANGED <<stores, past>>

Uninstall(s) ==
  /\ ~Busy(s)
  /\ release' = [release EXCEPT ![s] = NoRelease]
  /\ cred' = [cred EXCEPT ![s] = "none"]

CleanupRelease(r) ==
  /\ At(r, "cleanup") /\ Uninstall(req[r].svc)
  /\ Goto(r, "install")
  /\ UNCHANGED <<secret, bound, pods, past>>

Install(r) ==
  /\ At(r, "install") /\ ~Busy(req[r].svc)
  /\ IF release[req[r].svc].status = "pending"
     THEN DeployFails(r) /\ UNCHANGED release
     ELSE /\ release' = [release EXCEPT ![req[r].svc].status = "pending"]
          /\ Goto(r, "installing")
  /\ UNCHANGED <<secret, cred, bound, pods, past>>

Installed(r) ==
  /\ At(r, "installing")
  /\ LET s == req[r].svc
     IN  /\ release' = [release EXCEPT ![s] = [status |-> "deployed",
                                               settings |-> Reuse(@.settings, req[r].pub)]]
         /\ cred' = [cred EXCEPT ![s] = IF @ = "none" THEN "plain" ELSE @]
  /\ Goto(r, "hook")
  /\ UNCHANGED <<secret, bound, pods, past>>

InstallFails(r) ==
  /\ Faults /\ At(r, "installing")
  /\ release' = [release EXCEPT ![req[r].svc].status = "failed"]
  /\ \/ UNCHANGED cred
     \/ cred' = [cred EXCEPT ![req[r].svc] = IF @ = "none" THEN "plain" ELSE @]
  /\ DeployFails(r)
  /\ past' = past \cup {"fault"}
  /\ UNCHANGED <<secret, bound, pods>>

\* Mutant: the secrets of the new service are not labelled.
PublishNothing(r) ==
  /\ At(r, "hook")
  /\ IF req[r].op = "update" /\ req[r].flag THEN Goto(r, "list") ELSE End(r)
  /\ UNCHANGED <<stores, past>>

\* The hook: the credentials become configurations.  After an update the bound
\* applications are restarted.  A replacement looks for applications bound to a
\* configuration with the name of the service, and finds none.
Publish(r) ==
  /\ At(r, "hook")
  /\ IF Ready(req[r].svc)
     THEN /\ cred' = [cred EXCEPT ![req[r].svc] = Labelled(req[r].svc)]
          /\ IF req[r].op = "update" /\ req[r].flag THEN Goto(r, "list") ELSE End(r)
     ELSE DeployFails(r) /\ UNCHANGED cred
  /\ UNCHANGED <<secret, release, bound, pods, past>>

\* ServicesBoundAppsNamesFor
ListBoundApps(r) ==
  /\ At(r, "list")
  /\ Become(r, [req[r] EXCEPT !.pc = "restart",
                              !.apps = {a \in App : req[r].svc \in bound[a].services}])
  /\ UNCHANGED <<stores, past>>

DeployApp(a) == pods' = IF pods[a].runs THEN [pods EXCEPT ![a].mounts = bound[a].configs] ELSE pods

\* Redeploy
RestartApp(r) ==
  /\ At(r, "restart")
  /\ \/ /\ req[r].apps = {} /\ End(r) /\ UNCHANGED pods
     \/ \E a \in req[r].apps :
          DeployApp(a) /\ Become(r, [req[r] EXCEPT !.apps = @ \ {a}])
  /\ UNCHANGED <<secret, release, cred, bound, past>>

\* The end of a failed Create, DeleteSecret: by name, whosever it is by now
UndoCreate(r) ==
  /\ At(r, "undo")
  /\ secret' = [secret EXCEPT ![req[r].svc] = NoSecret]
  /\ req' = [Outdate(req[r].svc) EXCEPT ![r] = Idle]
  /\ UNCHANGED <<release, cred, bound, pods, past>>
-----------------------------------------------------------------------------
(* Binding *)

\* One service after the other is validated, and its credentials are labelled.
ValidateBind(r) ==
  /\ At(r, "validate")
  /\ \E s \in req[r].todo :
       IF Ready(s)
       THEN /\ cred' = [cred EXCEPT ![s] = Labelled(s)]
            /\ LET todo == req[r].todo \ {s}
               IN  Become(r, [req[r] EXCEPT !.todo = todo,
                                            !.found = IF cred[s] = "none" THEN @ ELSE @ \cup {s},
                                            !.pc = IF todo = {} THEN "bind" ELSE "validate"])
       ELSE End(r) /\ UNCHANGED cred
  /\ UNCHANGED <<secret, release, bound, pods, past>>

\* CreateConfigurationBinding: what is bound is skipped, what is gone (todo) is an
\* error at the end, the rest is bound and deployed.
BindConfigs(r) ==
  /\ At(r, "bind")
  /\ LET a == req[r].app
         new == req[r].found \ bound[a].configs
         ok == {s \in new : cred[s] = "config"}
     IN  /\ bound' = [bound EXCEPT ![a].configs = @ \cup ok]
         /\ Become(r, [req[r] EXCEPT !.todo = new \ ok,
                                     !.pc = IF ok = {} THEN "bindservice" ELSE "deploy"])
  /\ UNCHANGED <<secret, release, cred, pods, past>>

\* The configurations of the application have changed: it is deployed with them.
DeployChanged(r) ==
  /\ At(r, "deploy")
  /\ DeployApp(req[r].app)
  /\ Goto(r, IF req[r].op = "bind" THEN "bindservice" ELSE "unbindservice")
  /\ UNCHANGED <<secret, release, cred, bound, past>>

\* Mutant: only the first of several services is recorded.
BindOneService(r) ==
  /\ At(r, "bindservice")
  /\ IF req[r].todo # {}
     THEN UNCHANGED bound
     ELSE \E s \in req[r].svcs : bound' = [bound EXCEPT ![req[r].app].services = @ \cup {s}]
  /\ End(r)
  /\ UNCHANGED <<secret, release, cred, pods, past>>

\* BoundServicesSet
BindServices(r) ==
  /\ At(r, "bindservice")
  /\ bound' = IF req[r].todo # {} THEN bound
              ELSE [bound EXCEPT ![req[r].app].services = @ \cup req[r].svcs]
  /\ End(r)
  /\ UNCHANGED <<secret, release, cred, pods, past>>
-----------------------------------------------------------------------------
(* Unbinding and deleting *)

\* ForService: labelled credentials only
FindConfigs(r) ==
  /\ At(r, "configs")
  /\ IF cred[req[r].svc] = "config"
     THEN Become(r, [req[r] EXCEPT !.pc = "unset", !.found = {req[r].svc}])
     ELSE Goto(r, "unbindservice")
  /\ UNCHANGED <<stores, past>>

\* DeleteBinding
UnsetConfigs(r) ==
  /\ At(r, "unset")
  /\ bound' = [bound EXCEPT ![req[r].app].configs = @ \ req[r].found]
  /\ Goto(r, "deploy")
  /\ UNCHANGED <<secret, release, cred, pods, past>>

\* BoundServicesUnset; nothing for a plain configuration
UnbindServices(r) ==
  /\ At(r, "unbindservice")
  /\ bound' = IF req[r].op = "unbindconfig" THEN bound
              ELSE [bound EXCEPT ![req[r].app].services = @ \ {req[r].svc}]
  /\ IF req[r].op = "delete" THEN Goto(r, "next") ELSE End(r)
  /\ UNCHANGED <<secret, release, cred, pods, past>>

\* The applications bound to labelled credentials of the services.
CollectBound(r) ==
  /\ At(r, "collect")
  /\ LET pairs == {p \in App \X req[r].svcs :
                     cred[p[2]] = "config" /\ p[2] \in bound[p[1]].configs}
     IN  IF pairs # {} /\ ~req[r].flag
         THEN End(r)
         ELSE Become(r, [req[r] EXCEPT !.pc = "next", !.pairs = pairs])
  /\ UNCHANGED <<stores, past>>

UnbindNext(r) ==
  /\ At(r, "next")
  /\ \/ req[r].pairs = {} /\ Goto(r, "remove")
     \/ \E p \in req[r].pairs :
          Become(r, [req[r] EXCEPT !.pc = "unset", !.app = p[1], !.svc = p[2],
                                   !.found = {p[2]}, !.pairs = @ \ {p}])
  /\ UNCHANGED <<stores, past>>

\* Delete: the release first, which may be missing
RemoveRelease(r) ==
  /\ At(r, "remove")
  /\ \E s \in req[r].todo :
       /\ Uninstall(s)
       /\ Become(r, [req[r] EXCEPT !.pc = "secret", !.svc = s, !.todo = @ \ {s}])
  /\ UNCHANGED <<secret, bound, pods, past>>

\* ... then the secret.  When that is missing a DeleteAll ends, with services left.
DeleteSecret(r) ==
  /\ At(r, "secret")
  /\ LET s == req[r].svc
     IN  /\ secret' = [secret EXCEPT ![s] = NoSecret]
         /\ req' = [Outdate(s) EXCEPT
                      ![r] = IF req[r].todo = {} \/ (req[r].op = "deleteall" /\ ~secret[s].exists)
                             THEN Idle ELSE [req[r] EXCEPT !.pc = "remove"]]
  /\ UNCHANGED <<release, cred, bound, pods, past>>

\* A call fails and with it the request, or the server stops.
Fail(r) ==
  /\ Faults /\ ~At(r, "idle")
  /\ \/ req[r].pc \in {"check", "cleanup", "hook"} /\ DeployFails(r)
     \/ End(r)
  /\ past' = past \cup {"fault"}
  /\ UNCHANGED stores
-----------------------------------------------------------------------------
\* An update sets or removes one setting.
OneChange == {c \in Change : \E k \in Key : \A l \in Key : c[l] = Keep <=> l # k}

Begin(r) ==
  \/ \E s \in Service :
       \/ \E v \in Settings, sync \in BOOLEAN : CreateService(r, s, v, sync)
       \/ \E v \in Settings : BeginChange(r, "replace", s, v, FALSE)
       \/ \E c \in OneChange, restart \in BOOLEAN : BeginChange(r, "update", s, c, restart)
  \/ \E a \in App, svcs \in SUBSET Service : BeginBind(r, a, svcs)
  \/ \E a \in App, s \in Service : BeginUnbind(r, a, s) \/ BeginUnbindConfig(r, a, s)
  \/ \E svcs \in SUBSET Service, unbind \in BOOLEAN : BeginDelete(r, svcs, unbind)
  \/ BeginDeleteAll(r)

Proceed(r) ==
  \/ LoadSettings(r) \/ StoreSettings(r) \/ StoreRefused(r)
  \/ CheckRelease(r) \/ CleanupRelease(r) \/ Install(r) \/ Installed(r) \/ InstallFails(r)
  \/ Publish(r) \/ ListBoundApps(r) \/ RestartApp(r) \/ UndoCreate(r)
  \/ ValidateBind(r) \/ BindConfigs(r) \/ DeployChanged(r) \/ BindServices(r)
  \/ FindConfigs(r) \/ UnsetConfigs(r) \/ UnbindServices(r)
  \/ CollectBound(r) \/ UnbindNext(r) \/ RemoveRelease(r) \/ DeleteSecret(r)

Next == \E r \in Req : Begin(r) \/ Proceed(r) \/ Fail(r)

Spec == Init /\ [][Next]_vars
-----------------------------------------------------------------------------
(* Properties *)

TypeOK ==
  /\ secret \in [Service -> Secret]
  /\ release \in [Service -> Release]
  /\ cred \in [Service -> {"none", "plain", "config"}]
  /\ bound \in [App -> Bound]
  /\ pods \in [App -> Pods]
  /\ req \in [Req -> Request]
  /\ past \in SUBSET {"overlap", "fault", "direct"}

\* However updates, replacements, creations and deletions race, whoever changes the
\* settings of a service changes those that are there: none of the other's settings
\* is lost or comes back ("retry.RetryOnConflict" in UpdateService, ReplaceService).
SettingsApply ==
  [][\A s \in Service :
       secret[s].exists /\ secret'[s].exists /\ secret'[s] # secret[s]
       => \E r \in Req : /\ At(r, "store") /\ req[r].svc = s
                         /\ secret'[s].settings = Apply(secret[s].settings, req[r].change)]_vars

\* When requests neither failed nor overlapped, and nobody touched the credentials,
\* all is in order between the requests.
Orderly == past = {} /\ AllIdle

\* A service that is there is deployed and its credential is a configuration, and
\* what is deleted is gone altogether (Create, WhenFullyDeployed, Delete, DeleteAll).
ServiceComplete ==
  Orderly => \A s \in Service :
    /\ release[s].status = IF secret[s].exists THEN "deployed" ELSE "none"
    /\ cred[s] = IF secret[s].exists THEN "config" ELSE "none"

\* The two sets of an application agree, and its pods mount just what is bound (Bind,
\* BatchBind, Unbind, Delete).
BindingsAgree ==
  Orderly => \A a \in App :
    /\ bound[a].services = bound[a].configs
    /\ pods[a].mounts = IF pods[a].runs THEN bound[a].configs ELSE {}

\* instances.go, UpdateService: "Update the secret first. As part of that we get the
\* updated settings as well.": the release then has the settings that are saved.
SettingsReachRelease ==
  Orderly => \A s \in Service, k \in Key :
    secret[s].settings[k] # None => release[s].settings[k] = secret[s].settings[k]
=============================================================================
