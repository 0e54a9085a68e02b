----------------------- MODULE ServiceInstancesProofs -----------------------
(***************************************************************************)
(* Proofs about ServiceInstances, for any number of requests and services. *)
(*                                                                         *)
(* That no change of settings is lost rests on CopyInv: what a request has *)
(* read of a secret is what the secret holds, until somebody else writes   *)
(* it and the copy is outdated.                                            *)
(*                                                                         *)
(* That services are complete and bindings agree rests on OrderInv: while  *)
(* nothing failed or overlapped, one request works at most, and how far it *)
(* has come tells what is not yet in order.                                *)
(***************************************************************************)
EXTENDS ServiceInstances, TLAPS

\* A request that is about to write has read the secret as it is.
CopyInv ==
  \A r \in Req :
    /\ req[r].pc \in {"load", "store", "configs"} => req[r].svc \in Service
    /\ req[r].pc = "store" /\ req[r].fresh =>
         secret[req[r].svc].exists /\ req[r].copy = secret[req[r].svc].settings

IInv == TypeOK /\ CopyInv

\* What one step does to the settings of the services
ChangeApplies ==
  \A s \in Service :
    secret[s].exists /\ secret'[s].exists /\ secret'[s] # secret[s]
    => \E r \in Req : /\ At(r, "store") /\ req[r].svc = s
                      /\ secret'[s].settings = Apply(secret[s].settings, req[r].change)

StoresTypeOK ==
  /\ secret \in [Service -> Secret]
  /\ release \in [Service -> Release]
  /\ cred \in [Service -> {"none", "plain", "config"}]
  /\ bound \in [App -> Bound]
  /\ pods \in [App -> Pods]

USE DEF At
-----------------------------------------------------------------------------
(* Types *)

LEMMA SettingsTypes ==
  /\ NoSettings \in Settings /\ Settings \subseteq Change
  /\ NoSecret \in Secret /\ NoRelease \in Release
BY DEF NoSettings, Settings, Change, NoSecret, Secret, NoRelease, Release

\* What an update or a replacement makes of settings are settings.
LEMMA ApplyType ==
  ASSUME NEW v \in Settings, NEW c \in Change PROVE Apply(v, c) \in Settings
BY ServiceAssumption DEF Apply, Settings, Change

\* So are the settings of a release that reuses the earlier ones.
LEMMA ReuseType ==
  ASSUME NEW v \in Settings, NEW w \in Settings PROVE Reuse(v, w) \in Settings
BY DEF Reuse, Settings

\* The components of a request
LEMMA RequestType ==
  ASSUME NEW q \in Request
  PROVE  /\ q.pc \in PCs /\ q.op \in Ops /\ q.svc \in Service \cup {None}
         /\ q.app \in App \cup {None} /\ q.svcs \in SUBSET Service
         /\ q.todo \in SUBSET Service /\ q.found \in SUBSET Service
         /\ q.pairs \in SUBSET (App \X Service) /\ q.apps \in SUBSET App
         /\ q.change \in Change /\ q.copy \in Settings /\ q.fresh \in BOOLEAN
         /\ q.pub \in Settings /\ q.sync \in BOOLEAN /\ q.flag \in BOOLEAN
BY DEF Request

\* The places of requests and the operations
LEMMA Names ==
  /\ \A pc \in {"idle", "load", "store", "check", "cleanup", "install", "installing", "hook",
                "list", "restart", "undo", "validate", "bind", "deploy", "bindservice",
                "configs", "unset", "unbindservice", "collect", "next", "remove", "secret"} :
       pc \in PCs
  /\ \A op \in {"none", "create", "update", "replace", "bind", "unbind", "unbindconfig",
                "delete", "deleteall"} : op \in Ops
BY DEF PCs, Ops

LEMMA IdleType == Idle \in Request
BY SettingsTypes, Names DEF Idle, Request

\* A request that goes on elsewhere
LEMMA GotoType ==
  ASSUME NEW q \in Request, NEW pc \in PCs PROVE [q EXCEPT !.pc = pc] \in Request
BY DEF Request
-----------------------------------------------------------------------------
(* The two kinds of steps *)

\* A request goes on and no secret changes.
LEMMA QuietStep ==
  ASSUME IInv, NEW r \in Req, NEW new \in Request, Become(r, new), UNCHANGED secret,
         new.pc \in {"load", "store", "configs"} => new.svc \in Service,
         new.pc = "store" => /\ secret[new.svc].exists
                             /\ new.copy = secret[new.svc].settings
  PROVE  req' \in [Req -> Request] /\ CopyInv' /\ ChangeApplies
<1>1. req' \in [Req -> Request] /\ \A q \in Req : req'[q] = IF q = r THEN new ELSE req[q]
  BY DEF Become, IInv, TypeOK
<1>2. CopyInv'
  BY <1>1 DEF IInv, CopyInv
<1>3. ChangeApplies
  BY DEF ChangeApplies
<1> QED BY <1>1, <1>2, <1>3

\* The secret of a service changes, and whoever has read it is outdated.
LEMMA SecretStep ==
  ASSUME IInv, NEW r \in Req, NEW new \in Request, NEW s, NEW value \in Secret,
         secret' = [secret EXCEPT ![s] = value],
         req' = [Outdate(s) EXCEPT ![r] = new],
         new.pc \notin {"load", "store", "configs"}
  PROVE  /\ req' \in [Req -> Request] /\ CopyInv' /\ secret' \in [Service -> Secret]
         /\ \A t \in Service : secret'[t] # secret[t] => t = s /\ secret'[t] = value
<1>1. secret' \in [Service -> Secret]
      /\ \A t \in Service : secret'[t] = IF t = s THEN value ELSE secret[t]
  BY DEF IInv, TypeOK
<1>2. \A q \in Req : [req[q] EXCEPT !.fresh = FALSE] \in Request
  <2> TAKE q \in Req
  <2>1. req[q] \in Request
    BY DEF IInv, TypeOK
  <2> QED BY <2>1 DEF Request
<1>3. Outdate(s) \in [Req -> Request]
  BY <1>2 DEF Outdate, IInv, TypeOK
<1>4. req' \in [Req -> Request]
  BY <1>3
<1>5. \A q \in Req : req'[q] = IF q = r THEN new ELSE Outdate(s)[q]
  BY <1>3
<1>6. \A q \in Req : Outdate(s)[q].pc = req[q].pc /\ Outdate(s)[q].svc = req[q].svc
                     /\ Outdate(s)[q].copy = req[q].copy
                     /\ (Outdate(s)[q].fresh => req[q].fresh /\ req[q].svc # s)
  <2> TAKE q \in Req
  <2>1. req[q] \in Request
    BY DEF IInv, TypeOK
  <2>2. Outdate(s)[q] = IF req[q].svc = s THEN [req[q] EXCEPT !.fresh = FALSE] ELSE req[q]
    BY DEF Outdate
  <2>3. CASE req[q].svc = s
    BY <2>1, <2>2, <2>3 DEF Request
  <2>4. CASE req[q].svc # s
    BY <2>1, <2>2, <2>4
  <2> QED BY <2>3, <2>4
<1>7. CopyInv'
  <2> SUFFICES ASSUME NEW q \in Req
               PROVE  /\ req'[q].pc \in {"load", "store", "configs"} => req'[q].svc \in Service
                      /\ req'[q].pc = "store" /\ req'[q].fresh =>
                           /\ secret'[req'[q].svc].exists
                           /\ req'[q].copy = secret'[req'[q].svc].settings
    BY DEF CopyInv
  <2>1. CASE q = r
    BY <1>5, <2>1
  <2>2. CASE q # r
    <3>1. /\ req'[q].pc = req[q].pc /\ req'[q].svc = req[q].svc /\ req'[q].copy = req[q].copy
          /\ (req'[q].fresh => req[q].fresh /\ req[q].svc # s)
      BY <1>5, <1>6, <2>2
    <3>2. /\ req[q].pc \in {"load", "store", "configs"} => req[q].svc \in Service
          /\ req[q].pc = "store" /\ req[q].fresh =>
               secret[req[q].svc].exists /\ req[q].copy = secret[req[q].svc].settings
      BY DEF IInv, CopyInv
    <3> QED BY <1>1, <3>1, <3>2
  <2> QED BY <2>1, <2>2
<1> QED BY <1>1, <1>4, <1>7
-----------------------------------------------------------------------------
(* What each action does *)

\* The result of every step
Good == IInv' /\ ChangeApplies

PastType == SUBSET {"overlap", "fault", "direct"}

\* A request goes on while the stores other than the secrets stay well typed.
LEMMA QuietGood ==
  ASSUME IInv, NEW r \in Req, NEW new \in Request, Become(r, new), UNCHANGED secret,
         new.pc \in {"load", "store", "configs"} => new.svc \in Service,
         new.pc = "store" => /\ secret[new.svc].exists
                             /\ new.copy = secret[new.svc].settings,
         StoresTypeOK', past' \in PastType
  PROVE  Good
<1>1. req' \in [Req -> Request] /\ CopyInv' /\ ChangeApplies
  BY QuietStep
<1>2. TypeOK'
  BY <1>1 DEF TypeOK, StoresTypeOK, PastType
<1> QED BY <1>1, <1>2 DEF Good, IInv

\* The secret of a service is created, or deleted.
LEMMA SecretGood ==
  ASSUME IInv, NEW r \in Req, NEW new \in Request, NEW s, NEW value \in Secret,
         secret' = [secret EXCEPT ![s] = value],
         req' = [Outdate(s) EXCEPT ![r] = new],
         new.pc \notin {"load", "store", "configs"},
         s \in Service /\ secret[s].exists => ~value.exists,
         UNCHANGED <<release, cred, bound, pods, past>>
  PROVE  Good
<1>1. /\ req' \in [Req -> Request] /\ CopyInv' /\ secret' \in [Service -> Secret]
      /\ \A t \in Service : secret'[t] # secret[t] => t = s /\ secret'[t] = value
  BY SecretStep
<1>2. TypeOK'
  BY <1>1 DEF IInv, TypeOK
<1>3. ChangeApplies
  BY <1>1 DEF ChangeApplies
<1> QED BY <1>1, <1>2, <1>3 DEF Good, IInv

\* The stores and the requests, before a step
LEMMA Before ==
  ASSUME IInv
  PROVE  /\ StoresTypeOK /\ past \in PastType
         /\ \A r \in Req : req[r] \in Request
         /\ UNCHANGED stores => StoresTypeOK'
BY DEF IInv, TypeOK, StoresTypeOK, stores, PastType

\* A request begins that changes no store.
LEMMA StartGood ==
  ASSUME IInv, NEW r \in Req, NEW new \in Request, Start(r, new), UNCHANGED stores,
         new.pc \in {"load", "store", "configs"} => new.svc \in Service, new.pc # "store"
  PROVE  Good
<1>1. Become(r, new) /\ past' \in PastType
  BY Before DEF Start, PastType
<1>2. StoresTypeOK' /\ UNCHANGED secret
  BY Before DEF stores
<1> QED BY <1>1, <1>2, QuietGood

\* A request ends, or goes on to a place other than where secrets are read and written.
LEMMA GotoGood ==
  ASSUME IInv, NEW r \in Req, NEW pc \in PCs \ {"load", "store", "configs"},
         Goto(r, pc) \/ End(r), UNCHANGED secret, StoresTypeOK', past' \in PastType
  PROVE  Good
<1>1. req[r] \in Request
  BY Before
<1>2. CASE Goto(r, pc)
  <2> DEFINE new == [req[r] EXCEPT !.pc = pc]
  <2>1. new \in Request /\ new.pc = pc /\ Become(r, new)
    BY <1>1, <1>2, GotoType, RequestType DEF Goto, Request
  <2> HIDE DEF new
  <2> QED BY <2>1, QuietGood
<1>3. CASE End(r)
  <2>1. Idle.pc = "idle" /\ Become(r, Idle)
    BY <1>3 DEF End, Idle
  <2> QED BY <2>1, IdleType, QuietGood
<1> QED BY <1>2, <1>3

\* The release of a service and its credentials
LEMMA UninstallType ==
  ASSUME IInv, NEW s, Uninstall(s), UNCHANGED <<secret, bound, pods>>
  PROVE  StoresTypeOK'
BY SettingsTypes DEF IInv, TypeOK, StoresTypeOK, Uninstall

\* The pods of an application
LEMMA DeployType ==
  ASSUME IInv, NEW a, DeployApp(a), UNCHANGED <<secret, release, cred, bound>>
  PROVE  StoresTypeOK'
<1>1. a \in App => [pods[a] EXCEPT !.mounts = bound[a].configs] \in Pods
  BY DEF IInv, TypeOK, Pods, Bound
<1>2. pods' \in [App -> Pods]
  BY <1>1 DEF DeployApp, IInv, TypeOK
<1> QED BY <1>2 DEF IInv, TypeOK, StoresTypeOK
-----------------------------------------------------------------------------
(* Beginning *)

LEMMA CreateGood ==
  ASSUME IInv, NEW r \in Req, NEW s \in Service, NEW v \in Settings, NEW sync \in BOOLEAN,
         CreateService(r, s, v, sync)
  PROVE  Good
<1> DEFINE new == [Idle EXCEPT !.pc = "check", !.op = "create", !.svc = s,
                               !.pub = v, !.sync = sync]
           value == [exists |-> TRUE, settings |-> v]
<1>1. new \in Request /\ new.pc = "check"
  BY IdleType, Names DEF Request
<1>2. value \in Secret
  BY DEF Secret
<1>3. Become(r, new) /\ past' \in PastType
  BY Before DEF CreateService, Start, PastType
<1>4. ~secret[s].exists /\ secret' = [secret EXCEPT ![s] = value]
      /\ UNCHANGED <<release, cred, bound, pods>>
  BY DEF CreateService
<1> HIDE DEF new, value
<1>5. req' \in [Req -> Request] /\ \A q \in Req : req'[q] = IF q = r THEN new ELSE req[q]
  BY <1>1, <1>3 DEF Become, IInv, TypeOK
<1>6. secret' \in [Service -> Secret]
      /\ \A u \in Service : secret'[u] = IF u = s THEN value ELSE secret[u]
  BY <1>2, <1>4 DEF IInv, TypeOK
<1>7. TypeOK'
  BY <1>3, <1>4, <1>5, <1>6 DEF IInv, TypeOK, PastType
<1>8. CopyInv'
  BY <1>1, <1>4, <1>5, <1>6 DEF IInv, CopyInv
<1>9. ChangeApplies
  BY <1>4, <1>6 DEF ChangeApplies
<1> QED BY <1>7, <1>8, <1>9 DEF Good, IInv

LEMMA BeginChangeGood ==
  ASSUME IInv, NEW r \in Req, NEW op \in {"update", "replace"}, NEW s \in Service,
         NEW c \in Change, NEW restart \in BOOLEAN, BeginChange(r, op, s, c, restart)
  PROVE  Good
<1> DEFINE new == [Idle EXCEPT !.pc = "load", !.op = op, !.svc = s, !.change = c,
                               !.flag = restart]
<1>1. new \in Request /\ new.pc = "load" /\ new.svc = s
  BY IdleType, Names DEF Request
<1>2. Start(r, new) /\ UNCHANGED stores
  BY DEF BeginChange
<1> HIDE DEF new
<1> QED BY <1>1, <1>2, StartGood

LEMMA BeginBindGood ==
  ASSUME IInv, NEW r \in Req, NEW a \in App, NEW svcs \in SUBSET Service, BeginBind(r, a, svcs)
  PROVE  Good
<1> DEFINE new == [Idle EXCEPT !.pc = "validate", !.op = "bind", !.app = a, !.svcs = svcs,
                               !.todo = svcs]
<1>1. new \in Request /\ new.pc = "validate"
  BY IdleType, Names DEF Request
<1>2. Start(r, new) /\ UNCHANGED stores
  BY DEF BeginBind
<1> HIDE DEF new
<1> QED BY <1>1, <1>2, StartGood

LEMMA BeginUnbindGood ==
  ASSUME IInv, NEW r \in Req, NEW a \in App, NEW s \in Service, BeginUnbind(r, a, s)
  PROVE  Good
<1> DEFINE new == [Idle EXCEPT !.pc = "configs", !.op = "unbind", !.app = a, !.svc = s]
<1>1. new \in Request /\ new.pc = "configs" /\ new.svc = s
  BY IdleType, Names DEF Request
<1>2. Start(r, new) /\ UNCHANGED stores
  BY DEF BeginUnbind
<1> HIDE DEF new
<1> QED BY <1>1, <1>2, StartGood

LEMMA BeginDeleteGood ==
  ASSUME IInv, NEW r \in Req, NEW svcs \in SUBSET Service, NEW unbind \in BOOLEAN,
         BeginDelete(r, svcs, unbind)
  PROVE  Good
<1> DEFINE new == [Idle EXCEPT !.pc = "collect", !.op = "delete", !.svcs = svcs,
                               !.todo = svcs, !.flag = unbind]
<1>1. new \in Request /\ new.pc = "collect"
  BY IdleType, Names DEF Request
<1>2. Start(r, new) /\ UNCHANGED stores
  BY DEF BeginDelete
<1> HIDE DEF new
<1> QED BY <1>1, <1>2, StartGood

LEMMA BeginDeleteAllGood ==
  ASSUME IInv, NEW r \in Req, BeginDeleteAll(r) PROVE Good
<1> DEFINE todo == {s \in Service : secret[s].exists}
           new == [Idle EXCEPT !.pc = "remove", !.op = "deleteall", !.todo = todo]
<1>1. todo \in SUBSET Service
  OBVIOUS
<1> HIDE DEF todo
<1>2. new \in Request /\ new.pc = "remove"
  BY <1>1, IdleType, Names DEF Request
<1>3. Start(r, new) /\ UNCHANGED stores
  BY DEF BeginDeleteAll, todo
<1> HIDE DEF new
<1> QED BY <1>2, <1>3, StartGood

LEMMA BeginUnbindConfigGood ==
  ASSUME IInv, NEW r \in Req, NEW a \in App, NEW s \in Service, BeginUnbindConfig(r, a, s)
  PROVE  Good
<1> DEFINE new == [Idle EXCEPT !.pc = "unset", !.op = "unbindconfig", !.app = a, !.svc = s,
                               !.found = {s}]
<1>1. new \in Request /\ new.pc = "unset"
  BY IdleType, Names DEF Request
<1>2. Become(r, new) /\ UNCHANGED stores /\ past' \in PastType
  BY Before DEF BeginUnbindConfig, PastType
<1>3. StoresTypeOK' /\ UNCHANGED secret
  BY <1>2, Before DEF stores
<1> HIDE DEF new
<1> QED BY <1>1, <1>2, <1>3, QuietGood

LEMMA BeginGood == ASSUME IInv, NEW r \in Req, Begin(r) PROVE Good
<1>1. OneChange \subseteq Change /\ Settings \subseteq Change
  BY SettingsTypes DEF OneChange
<1> QED
  BY <1>1, CreateGood, BeginChangeGood, BeginBindGood, BeginUnbindGood, BeginDeleteGood,
     BeginDeleteAllGood, BeginUnbindConfigGood DEF Begin
-----------------------------------------------------------------------------
(* Settings *)

LEMMA LoadGood == ASSUME IInv, NEW r \in Req, LoadSettings(r) PROVE Good
<1>1. req[r] \in Request /\ req[r].svc \in Service /\ At(r, "load")
  BY Before DEF LoadSettings, IInv, CopyInv
<1>2. StoresTypeOK' /\ UNCHANGED secret /\ past' \in PastType
  BY Before DEF LoadSettings, stores
<1>3. CASE End(r)
  BY <1>2, <1>3, GotoGood DEF PCs
<1>4. CASE ~End(r)
  <2> DEFINE new == [req[r] EXCEPT !.pc = "store", !.copy = secret[req[r].svc].settings,
                                   !.fresh = TRUE]
  <2>1. secret[req[r].svc].exists /\ Become(r, new)
    BY <1>4 DEF LoadSettings
  <2>2. secret[req[r].svc].settings \in Settings
    BY <1>1 DEF IInv, TypeOK, Secret
  <2>3. /\ new \in Request /\ new.pc = "store" /\ new.svc = req[r].svc
        /\ new.copy = secret[req[r].svc].settings
    BY <1>1, <2>2, Names DEF Request
  <2> HIDE DEF new
  <2> QED BY <1>1, <1>2, <2>1, <2>3, QuietGood
<1> QED BY <1>3, <1>4

\* The copy is what the secret holds, so that the change is applied to just that.
LEMMA StoreGood == ASSUME IInv, NEW r \in Req, StoreSettings(r) PROVE Good
<1> DEFINE s == req[r].svc
           value == [secret[s] EXCEPT !.settings = New(r)]
           new == [req[r] EXCEPT !.pc = "check",
                                 !.pub = IF req[r].op = "replace" THEN New(r) ELSE @]
<1>1. /\ req[r] \in Request /\ At(r, "store") /\ req[r].fresh
      /\ s \in Service /\ secret[s].exists /\ req[r].copy = secret[s].settings
  BY Before DEF StoreSettings, IInv, CopyInv
<1>2. New(r) \in Settings
  BY <1>1, RequestType, ApplyType DEF New
<1>3. new \in Request /\ new.pc = "check"
  BY <1>1, <1>2, Names DEF Request
<1>4. value \in Secret /\ value.settings = New(r)
  BY <1>1, <1>2 DEF IInv, TypeOK, Secret
<1>5. secret' = [secret EXCEPT ![s] = value] /\ req' = [Outdate(s) EXCEPT ![r] = new]
      /\ UNCHANGED <<release, cred, bound, pods, past>>
  BY DEF StoreSettings
<1>6. New(r) = Apply(secret[s].settings, req[r].change)
  BY <1>1 DEF New
<1> HIDE DEF value, new, s
<1>7. /\ req' \in [Req -> Request] /\ CopyInv' /\ secret' \in [Service -> Secret]
      /\ \A u \in Service : secret'[u] # secret[u] => u = s /\ secret'[u] = value
  BY <1>3, <1>4, <1>5, SecretStep
<1>8. TypeOK'
  BY <1>5, <1>7 DEF IInv, TypeOK
<1>9. ChangeApplies
  <2> SUFFICES ASSUME NEW u \in Service, secret'[u] # secret[u]
               PROVE  /\ At(r, "store") /\ req[r].svc = u
                      /\ secret'[u].settings = Apply(secret[u].settings, req[r].change)
    BY DEF ChangeApplies
  <2>1. u = s /\ secret'[u] = value
    BY <1>7
  <2> QED BY <1>1, <1>4, <1>6, <2>1 DEF s
<1> QED BY <1>7, <1>8, <1>9 DEF Good, IInv

LEMMA StoreRefusedGood == ASSUME IInv, NEW r \in Req, StoreRefused(r) PROVE Good
<1>1. req[r] \in Request /\ req[r].svc \in Service
  BY Before DEF StoreRefused, IInv, CopyInv
<1>2. StoresTypeOK' /\ UNCHANGED secret /\ past' \in PastType
  BY Before DEF StoreRefused, stores
<1>3. CASE End(r)
  BY <1>2, <1>3, GotoGood DEF PCs
<1>4. CASE ~End(r)
  <2> DEFINE new == [req[r] EXCEPT !.pc = "load",
                                   !.pub = IF req[r].op = "update" THEN New(r) ELSE @]
  <2>1. Become(r, new)
    BY <1>4 DEF StoreRefused
  <2>2. New(r) \in Settings
    BY <1>1, RequestType, ApplyType DEF New
  <2>3. new \in Request /\ new.pc = "load" /\ new.svc = req[r].svc
    BY <1>1, <2>2, Names DEF Request
  <2> HIDE DEF new
  <2> QED BY <1>1, <1>2, <2>1, <2>3, QuietGood
<1> QED BY <1>3, <1>4
-----------------------------------------------------------------------------
(* Deploying *)

\* The deployment of a service fails: the request ends, or takes its secret back.
LEMMA FailGood ==
  ASSUME IInv, NEW r \in Req, DeployFails(r), UNCHANGED secret, StoresTypeOK', past' \in PastType
  PROVE  Good
<1>1. "undo" \in PCs \ {"load", "store", "configs"}
  BY DEF PCs
<1>2. Goto(r, "undo") \/ End(r)
  BY DEF DeployFails
<1> QED BY <1>1, <1>2, GotoGood

\* The places that steps without a change of the request's data go to
LEMMA Places ==
  \A pc \in {"cleanup", "install", "installing", "hook", "list", "bindservice", "unset",
             "unbindservice", "next", "remove", "deploy"} : pc \in PCs \ {"load", "store", "configs"}
BY DEF PCs

LEMMA CheckGood == ASSUME IInv, NEW r \in Req, CheckRelease(r) PROVE Good
<1>1. StoresTypeOK' /\ UNCHANGED secret /\ past' \in PastType
  BY Before DEF CheckRelease, stores
<1>2. Goto(r, "install") \/ Goto(r, "cleanup")
  BY DEF CheckRelease
<1> QED BY <1>1, <1>2, Places, GotoGood

LEMMA CleanupGood == ASSUME IInv, NEW r \in Req, CleanupRelease(r) PROVE Good
<1>1. StoresTypeOK' /\ UNCHANGED secret /\ past' \in PastType
  BY Before, UninstallType DEF CleanupRelease
<1>2. Goto(r, "install")
  BY DEF CleanupRelease
<1> QED BY <1>1, <1>2, Places, GotoGood

\* The release of a service changes its state.
LEMMA StatusType ==
  ASSUME IInv, NEW s, NEW status \in {"none", "pending", "deployed", "failed"},
         release' = [release EXCEPT ![s].status = status], UNCHANGED <<secret, bound, pods>>,
         cred' \in [Service -> {"none", "plain", "config"}]
  PROVE  StoresTypeOK'
<1>1. s \in Service => [release[s] EXCEPT !.status = status] \in Release
  BY DEF IInv, TypeOK, Release
<1> QED BY <1>1 DEF IInv, TypeOK, StoresTypeOK

LEMMA InstallGood == ASSUME IInv, NEW r \in Req, Install(r) PROVE Good
<1>1. UNCHANGED <<secret, cred, bound, pods, past>> /\ past' \in PastType
  BY Before DEF Install
<1>2. CASE release[req[r].svc].status = "pending"
  <2>1. DeployFails(r) /\ StoresTypeOK'
    BY <1>1, <1>2, Before DEF Install, stores
  <2> QED BY <1>1, <2>1, FailGood
<1>3. CASE release[req[r].svc].status # "pending"
  <2>1. release' = [release EXCEPT ![req[r].svc].status = "pending"] /\ Goto(r, "installing")
    BY <1>3 DEF Install
  <2>2. cred' \in [Service -> {"none", "plain", "config"}]
    BY <1>1 DEF IInv, TypeOK
  <2>3. StoresTypeOK'
    BY <1>1, <2>1, <2>2, StatusType
  <2> QED BY <1>1, <2>1, <2>3, Places, GotoGood
<1> QED BY <1>2, <1>3

LEMMA InstalledGood == ASSUME IInv, NEW r \in Req, Installed(r) PROVE Good
<1> DEFINE s == req[r].svc
           new == [status |-> "deployed", settings |-> Reuse(release[s].settings, req[r].pub)]
<1>1. UNCHANGED <<secret, bound, pods, past>> /\ past' \in PastType /\ Goto(r, "hook")
  BY Before DEF Installed
<1>2. release' = [release EXCEPT ![s] = new]
      /\ cred' = [cred EXCEPT ![s] = IF cred[s] = "none" THEN "plain" ELSE cred[s]]
  BY DEF Installed
<1>3. s \in Service => new \in Release
  <2> SUFFICES ASSUME s \in Service PROVE new \in Release
    OBVIOUS
  <2>1. release[s].settings \in Settings
    BY DEF IInv, TypeOK, Release
  <2>2. req[r].pub \in Settings
    BY Before, RequestType
  <2>3. Reuse(release[s].settings, req[r].pub) \in Settings
    BY <2>1, <2>2, ReuseType
  <2> QED BY <2>3 DEF Release
<1> HIDE DEF new, s
<1>4. StoresTypeOK'
  BY <1>1, <1>2, <1>3 DEF IInv, TypeOK, StoresTypeOK
<1> QED BY <1>1, <1>4, Places, GotoGood

LEMMA InstallFailsGood == ASSUME IInv, NEW r \in Req, InstallFails(r) PROVE Good
<1>1. /\ UNCHANGED <<secret, bound, pods>> /\ past' \in PastType /\ DeployFails(r)
      /\ release' = [release EXCEPT ![req[r].svc].status = "failed"]
  BY Before DEF InstallFails, PastType
<1>2. cred' \in [Service -> {"none", "plain", "config"}]
  BY DEF InstallFails, IInv, TypeOK
<1>3. StoresTypeOK'
  BY <1>1, <1>2, StatusType
<1> QED BY <1>1, <1>3, FailGood

LEMMA PublishGood == ASSUME IInv, NEW r \in Req, Publish(r) PROVE Good
<1>1. UNCHANGED <<secret, release, bound, pods, past>> /\ past' \in PastType
  BY Before DEF Publish
<1>2. cred' \in [Service -> {"none", "plain", "config"}]
  BY DEF Publish, IInv, TypeOK, Labelled
<1>3. StoresTypeOK'
  BY <1>1, <1>2 DEF IInv, TypeOK, StoresTypeOK
<1>4. Goto(r, "list") \/ End(r) \/ DeployFails(r)
  BY DEF Publish
<1> QED BY <1>1, <1>3, <1>4, Places, GotoGood, FailGood

LEMMA ListGood == ASSUME IInv, NEW r \in Req, ListBoundApps(r) PROVE Good
<1> DEFINE apps == {a \in App : req[r].svc \in bound[a].services}
           new == [req[r] EXCEPT !.pc = "restart", !.apps = apps]
<1>1. StoresTypeOK' /\ UNCHANGED secret /\ past' \in PastType
  BY Before DEF ListBoundApps, stores
<1>2. apps \in SUBSET App
  OBVIOUS
<1>3. Become(r, new)
  BY DEF ListBoundApps
<1> HIDE DEF apps
<1>0. req[r] \in Request
  BY Before
<1>4. new \in Request /\ new.pc = "restart"
  BY <1>0, <1>2, Names DEF Request
<1> HIDE DEF new
<1> QED BY <1>1, <1>3, <1>4, QuietGood

LEMMA RestartGood == ASSUME IInv, NEW r \in Req, RestartApp(r) PROVE Good
<1>1. UNCHANGED <<secret, release, cred, bound, past>> /\ past' \in PastType /\ At(r, "restart")
  BY Before DEF RestartApp
<1>2. CASE End(r) /\ UNCHANGED pods
  <2>1. StoresTypeOK'
    BY <1>1, <1>2, Before DEF stores
  <2> QED BY <1>1, <1>2, <2>1, Places, GotoGood
<1>3. CASE \E a \in req[r].apps : DeployApp(a) /\ Become(r, [req[r] EXCEPT !.apps = @ \ {a}])
  <2>1. PICK a \in req[r].apps : DeployApp(a) /\ Become(r, [req[r] EXCEPT !.apps = @ \ {a}])
    BY <1>3
  <2> DEFINE new == [req[r] EXCEPT !.apps = @ \ {a}]
  <2>0. req[r] \in Request
    BY Before
  <2>2. new \in Request /\ new.pc = "restart"
    BY <1>1, <2>0 DEF Request
  <2>3. StoresTypeOK'
    BY <1>1, <2>1, DeployType
  <2> HIDE DEF new
  <2> QED BY <1>1, <2>1, <2>2, <2>3, QuietGood DEF new
<1> QED BY <1>2, <1>3 DEF RestartApp

LEMMA UndoGood == ASSUME IInv, NEW r \in Req, UndoCreate(r) PROVE Good
<1>1. /\ secret' = [secret EXCEPT ![req[r].svc] = NoSecret]
      /\ req' = [Outdate(req[r].svc) EXCEPT ![r] = Idle]
      /\ UNCHANGED <<release, cred, bound, pods, past>>
  BY DEF UndoCreate
<1>2. ~NoSecret.exists /\ NoSecret \in Secret /\ Idle \in Request /\ Idle.pc = "idle"
  BY SettingsTypes, IdleType DEF NoSecret, Idle
<1> QED BY <1>1, <1>2, SecretGood
-----------------------------------------------------------------------------
(* Binding, unbinding, deleting *)

LEMMA ValidateGood == ASSUME IInv, NEW r \in Req, ValidateBind(r) PROVE Good
<1>1. /\ UNCHANGED <<secret, release, bound, pods, past>> /\ past' \in PastType
      /\ req[r] \in Request
  BY Before DEF ValidateBind
<1>2. PICK s \in req[r].todo :
        IF Ready(s)
        THEN /\ cred' = [cred EXCEPT ![s] = Labelled(s)]
             /\ LET todo == req[r].todo \ {s}
                IN  Become(r, [req[r] EXCEPT !.todo = todo,
                                             !.found = IF cred[s] = "none" THEN @ ELSE @ \cup {s},
                                             !.pc = IF todo = {} THEN "bind" ELSE "validate"])
        ELSE End(r) /\ UNCHANGED cred
  BY DEF ValidateBind
<1>3. s \in Service
  BY <1>1, RequestType
<1>4. CASE Ready(s)
  <2> DEFINE todo == req[r].todo \ {s}
             new == [req[r] EXCEPT !.todo = todo,
                                   !.found = IF cred[s] = "none" THEN @ ELSE @ \cup {s},
                                   !.pc = IF todo = {} THEN "bind" ELSE "validate"]
  <2>1. Become(r, new) /\ cred' = [cred EXCEPT ![s] = Labelled(s)]
    BY <1>2, <1>4
  <2>2. StoresTypeOK'
    BY <1>1, <2>1 DEF IInv, TypeOK, StoresTypeOK, Labelled
  <2>3. new \in Request /\ new.pc \in {"bind", "validate"}
    BY <1>1, <1>3, Names DEF Request
  <2> HIDE DEF new
  <2> QED BY <1>1, <2>1, <2>2, <2>3, QuietGood
<1>5. CASE ~Ready(s)
  <2>1. End(r) /\ StoresTypeOK'
    BY <1>1, <1>2, <1>5, Before DEF stores
  <2> QED BY <1>1, <2>1, Places, GotoGood
<1> QED BY <1>4, <1>5

\* The sets of an application change.
LEMMA BoundType ==
  ASSUME IInv, bound' \in [App -> Bound], UNCHANGED <<secret, release, cred, pods, past>>
  PROVE  StoresTypeOK' /\ past' \in PastType
BY DEF IInv, TypeOK, StoresTypeOK, PastType

LEMMA BindGood == ASSUME IInv, NEW r \in Req, BindConfigs(r) PROVE Good
<1> DEFINE a == req[r].app
           fresh == req[r].found \ bound[a].configs
           ok == {s \in fresh : cred[s] = "config"}
           new == [req[r] EXCEPT !.todo = fresh \ ok,
                                 !.pc = IF ok = {} THEN "bindservice" ELSE "deploy"]
<1>1. /\ bound' = [bound EXCEPT ![a].configs = @ \cup ok] /\ Become(r, new)
      /\ UNCHANGED <<secret, release, cred, pods, past>>
  BY DEF BindConfigs
<1>2. req[r] \in Request
  BY Before
<1>3. fresh \in SUBSET Service /\ ok \in SUBSET Service
  BY <1>2, RequestType
<1> HIDE DEF fresh, ok
<1>4. new \in Request /\ new.pc \in {"bindservice", "deploy"}
  BY <1>2, <1>3, Names DEF Request
<1> HIDE DEF new
<1>5. \A b \in App : [bound[b] EXCEPT !.configs = @ \cup ok] \in Bound
  BY <1>3 DEF IInv, TypeOK, Bound
<1>6. bound' \in [App -> Bound]
  BY <1>1, <1>5 DEF IInv, TypeOK
<1> QED BY <1>1, <1>4, <1>6, BoundType, QuietGood

LEMMA DeployChangedGood == ASSUME IInv, NEW r \in Req, DeployChanged(r) PROVE Good
<1>1. /\ UNCHANGED <<secret, release, cred, bound, past>> /\ past' \in PastType
      /\ DeployApp(req[r].app)
  BY Before DEF DeployChanged
<1>2. Goto(r, "bindservice") \/ Goto(r, "unbindservice")
  BY DEF DeployChanged
<1>3. StoresTypeOK'
  BY <1>1, DeployType
<1> QED BY <1>1, <1>2, <1>3, Places, GotoGood

LEMMA BindServicesGood == ASSUME IInv, NEW r \in Req, BindServices(r) PROVE Good
<1>1. UNCHANGED <<secret, release, cred, pods, past>> /\ End(r)
  BY DEF BindServices
<1>2. req[r].svcs \in SUBSET Service
  BY Before, RequestType
<1>3. \A b \in App : [bound[b] EXCEPT !.services = @ \cup req[r].svcs] \in Bound
  BY <1>2 DEF IInv, TypeOK, Bound
<1>4. bound' \in [App -> Bound]
  BY <1>3 DEF BindServices, IInv, TypeOK
<1> QED BY <1>1, <1>4, BoundType, Places, GotoGood

LEMMA FindGood == ASSUME IInv, NEW r \in Req, FindConfigs(r) PROVE Good
<1>1. /\ StoresTypeOK' /\ UNCHANGED secret /\ past' \in PastType
      /\ req[r] \in Request /\ req[r].svc \in Service
  BY Before DEF FindConfigs, stores, IInv, CopyInv
<1>2. CASE cred[req[r].svc] # "config"
  <2>1. Goto(r, "unbindservice")
    BY <1>2 DEF FindConfigs
  <2> QED BY <1>1, <2>1, Places, GotoGood
<1>3. CASE cred[req[r].svc] = "config"
  <2> DEFINE new == [req[r] EXCEPT !.pc = "unset", !.found = {req[r].svc}]
  <2>1. Become(r, new)
    BY <1>3 DEF FindConfigs
  <2>2. new \in Request /\ new.pc = "unset"
    BY <1>1, Names DEF Request
  <2> HIDE DEF new
  <2> QED BY <1>1, <2>1, <2>2, QuietGood
<1> QED BY <1>2, <1>3

LEMMA UnsetGood == ASSUME IInv, NEW r \in Req, UnsetConfigs(r) PROVE Good
<1>1. UNCHANGED <<secret, release, cred, pods, past>> /\ Goto(r, "deploy")
  BY DEF UnsetConfigs
<1>2. \A b \in App : [bound[b] EXCEPT !.configs = @ \ req[r].found] \in Bound
  BY DEF IInv, TypeOK, Bound
<1>3. bound' \in [App -> Bound]
  BY <1>2 DEF UnsetConfigs, IInv, TypeOK
<1> QED BY <1>1, <1>3, BoundType, Places, GotoGood

LEMMA UnbindServicesGood == ASSUME IInv, NEW r \in Req, UnbindServices(r) PROVE Good
<1>1. UNCHANGED <<secret, release, cred, pods, past>> /\ (Goto(r, "next") \/ End(r))
  BY DEF UnbindServices
<1>2. \A b \in App : [bound[b] EXCEPT !.services = @ \ {req[r].svc}] \in Bound
  BY DEF IInv, TypeOK, Bound
<1>3. bound' \in [App -> Bound]
  BY <1>2 DEF UnbindServices, IInv, TypeOK
<1> QED BY <1>1, <1>3, BoundType, Places, GotoGood

LEMMA CollectGood == ASSUME IInv, NEW r \in Req, CollectBound(r) PROVE Good
<1> DEFINE pairs == {p \in App \X req[r].svcs :
                       cred[p[2]] = "config" /\ p[2] \in bound[p[1]].configs}
           new == [req[r] EXCEPT !.pc = "next", !.pairs = pairs]
<1>1. StoresTypeOK' /\ UNCHANGED secret /\ past' \in PastType /\ req[r] \in Request
  BY Before DEF CollectBound, stores
<1>2. pairs \in SUBSET (App \X Service)
  BY <1>1, RequestType
<1>3. End(r) \/ Become(r, new)
  BY DEF CollectBound
<1> HIDE DEF pairs
<1>4. new \in Request /\ new.pc = "next"
  BY <1>1, <1>2, Names DEF Request
<1> HIDE DEF new
<1>5. CASE End(r)
  BY <1>1, <1>5, Places, GotoGood
<1>6. CASE Become(r, new)
  BY <1>1, <1>4, <1>6, QuietGood
<1> QED BY <1>3, <1>5, <1>6

LEMMA NextUnbindGood == ASSUME IInv, NEW r \in Req, UnbindNext(r) PROVE Good
<1>1. StoresTypeOK' /\ UNCHANGED secret /\ past' \in PastType /\ req[r] \in Request
  BY Before DEF UnbindNext, stores
<1>2. CASE Goto(r, "remove")
  BY <1>1, <1>2, Places, GotoGood
<1>3. CASE ~Goto(r, "remove")
  <2>1. PICK p \in req[r].pairs :
          Become(r, [req[r] EXCEPT !.pc = "unset", !.app = p[1], !.svc = p[2],
                                   !.found = {p[2]}, !.pairs = @ \ {p}])
    BY <1>3 DEF UnbindNext
  <2> DEFINE new == [req[r] EXCEPT !.pc = "unset", !.app = p[1], !.svc = p[2],
                                   !.found = {p[2]}, !.pairs = @ \ {p}]
  <2>2. p[1] \in App /\ p[2] \in Service
    BY <1>1, RequestType
  <2>3. new \in Request /\ new.pc = "unset"
    BY <1>1, <2>2, Names DEF Request
  <2>4. Become(r, new)
    BY <2>1
  <2> HIDE DEF new
  <2> QED BY <1>1, <2>3, <2>4, QuietGood
<1> QED BY <1>2, <1>3

LEMMA RemoveGood == ASSUME IInv, NEW r \in Req, RemoveRelease(r) PROVE Good
<1>1. UNCHANGED <<secret, bound, pods, past>> /\ past' \in PastType /\ req[r] \in Request
  BY Before DEF RemoveRelease
<1>2. PICK s \in req[r].todo :
        /\ Uninstall(s)
        /\ Become(r, [req[r] EXCEPT !.pc = "secret", !.svc = s, !.todo = @ \ {s}])
  BY DEF RemoveRelease
<1> DEFINE new == [req[r] EXCEPT !.pc = "secret", !.svc = s, !.todo = @ \ {s}]
<1>3. s \in Service
  BY <1>1, RequestType
<1>4. new \in Request /\ new.pc = "secret"
  BY <1>1, <1>3, Names DEF Request
<1>5. StoresTypeOK' /\ Become(r, new)
  BY <1>1, <1>2, UninstallType
<1> HIDE DEF new
<1> QED BY <1>1, <1>4, <1>5, QuietGood

LEMMA DeleteSecretGood == ASSUME IInv, NEW r \in Req, DeleteSecret(r) PROVE Good
<1> DEFINE s == req[r].svc
           new == IF req[r].todo = {} \/ (req[r].op = "deleteall" /\ ~secret[s].exists)
                  THEN Idle ELSE [req[r] EXCEPT !.pc = "remove"]
<1>1. /\ secret' = [secret EXCEPT ![s] = NoSecret] /\ req' = [Outdate(s) EXCEPT ![r] = new]
      /\ UNCHANGED <<release, cred, bound, pods, past>>
  BY DEF DeleteSecret
<1>2. req[r] \in Request
  BY Before
<1>3. new \in Request /\ new.pc \in {"idle", "remove"}
  BY <1>2, IdleType, Names DEF Request, Idle
<1>4. ~NoSecret.exists /\ NoSecret \in Secret
  BY SettingsTypes DEF NoSecret
<1> HIDE DEF s, new
<1> QED BY <1>1, <1>3, <1>4, SecretGood

LEMMA StopGood == ASSUME IInv, NEW r \in Req, Fail(r) PROVE Good
<1>1. StoresTypeOK' /\ UNCHANGED secret /\ past' \in PastType
  BY Before DEF Fail, stores, PastType
<1>2. DeployFails(r) \/ End(r)
  BY DEF Fail
<1> QED BY <1>1, <1>2, FailGood, Places, GotoGood
-----------------------------------------------------------------------------
(* The theorems *)

\* No service, no request: the invariant holds at first.
LEMMA InitInv == Init => IInv
<1> SUFFICES ASSUME Init PROVE IInv
  OBVIOUS
<1>1. TypeOK
  BY SettingsTypes, IdleType DEF Init, TypeOK, Bound, Pods
<1>2. CopyInv
  BY DEF Init, CopyInv, Idle
<1> QED BY <1>1, <1>2 DEF IInv

\* Every step keeps the invariant and changes settings as it should.
LEMMA StepGood == IInv /\ [Next]_vars => Good
<1> SUFFICES ASSUME IInv, [Next]_vars PROVE Good
  OBVIOUS
<1>1. CASE UNCHANGED vars
  BY <1>1 DEF vars, Good, ChangeApplies, IInv, TypeOK, CopyInv
<1>2. CASE Next
  <2>1. PICK r \in Req : Begin(r) \/ Proceed(r) \/ Fail(r)
    BY <1>2 DEF Next
  <2>2. CASE Proceed(r)
    BY <2>2, LoadGood, StoreGood, StoreRefusedGood, CheckGood, CleanupGood, InstallGood,
       InstalledGood, InstallFailsGood, PublishGood, ListGood, RestartGood, UndoGood,
       ValidateGood, BindGood, DeployChangedGood, BindServicesGood, FindGood, UnsetGood,
       UnbindServicesGood, CollectGood, NextUnbindGood, RemoveGood, DeleteSecretGood
       DEF Proceed
  <2> QED BY <2>1, <2>2, BeginGood, StopGood
<1> QED BY <1>1, <1>2

\* Types: the secrets, releases, bindings and requests of any number of services and
\* requests are well formed in every state.
THEOREM ServiceTypes == Spec => []TypeOK
<1>1. IInv /\ [Next]_vars => IInv'
  BY StepGood DEF Good
<1>2. IInv => TypeOK
  BY DEF IInv
<1> QED BY InitInv, <1>1, <1>2, PTL DEF Spec

\* However many updates, replacements, creations and deletions of services race: each
\* write of settings applies one request's change to the settings that are there
\* (UpdateService, ReplaceService).
THEOREM NoSettingsLost == Spec => SettingsApply
<1>1. IInv /\ [Next]_vars => IInv' /\ ChangeApplies
  BY StepGood DEF Good
<1>2. IInv /\ [Next]_vars => [ChangeApplies]_vars
  BY <1>1
<1>3. SettingsApply <=> [][ChangeApplies]_vars
  BY DEF SettingsApply, ChangeApplies
<1> QED BY InitInv, <1>1, <1>2, <1>3, PTL DEF Spec
-----------------------------------------------------------------------------
(* The order between the requests.  As long as no request failed or overlapped *)
(* with another and no credential was unbound by itself, one request works at  *)
(* most, and only the service and the application it works on may be out of    *)
(* order, in the way that its place says.                                      *)

Complete(s) ==
  /\ release[s].status = IF secret[s].exists THEN "deployed" ELSE "none"
  /\ cred[s] = IF secret[s].exists THEN "config" ELSE "none"
Agrees(a) == bound[a].services = bound[a].configs
Mounts(a) == pods[a].mounts = IF pods[a].runs THEN bound[a].configs ELSE {}

Settled ==
  (\A s \in Service : Complete(s)) /\ (\A a \in App : Agrees(a) /\ Mounts(a))

Alone(r) == \A q \in Req : q # r => At(q, "idle")

\* Only what request r works on may be out of order.
OthersSettled(r) ==
  /\ \A s \in Service :
       \/ Complete(s)
       \/ s = req[r].svc /\ req[r].pc \in {"check", "install", "installing", "hook", "secret"}
  /\ \A a \in App :
       \/ Agrees(a)
       \/ a = req[r].app /\ req[r].pc \in {"deploy", "bindservice", "unbindservice"}
  /\ \A a \in App : Mounts(a) \/ (a = req[r].app /\ At(r, "deploy") /\ pods[a].runs)

\* How far the service of request r is installed or removed
ServiceStage(r) ==
  LET s == req[r].svc
  IN  /\ req[r].pc \notin {"cleanup", "undo"}
      /\ req[r].pc \in {"check", "install", "installing", "hook", "configs", "secret"} => s \in Service
      /\ req[r].pc \in {"check", "install", "installing", "hook"} => secret[s].exists
      /\ req[r].pc \in {"check", "install"} =>
           \/ release[s].status = "none" /\ cred[s] = "none"
           \/ release[s].status = "deployed" /\ cred[s] = "config"
      /\ At(r, "installing") => cred[s] \in {"none", "config"}
      /\ At(r, "hook") => release[s].status = "deployed" /\ cred[s] # "none"
      /\ At(r, "secret") => release[s].status = "none" /\ cred[s] = "none"
      /\ At(r, "configs") => cred[s] = "config"

\* How far the services of request r are bound to, or unbound from, its application
BindingStage(r) ==
  LET a == req[r].app
  IN  /\ req[r].pc \in {"validate", "bind", "configs", "unset", "deploy", "bindservice",
                        "unbindservice"} => a \in App
      /\ req[r].pc \in {"validate", "bind", "bindservice"} => req[r].op = "bind"
      /\ At(r, "configs") => req[r].op = "unbind"
      /\ req[r].pc \in {"unset", "unbindservice"} => req[r].op \in {"unbind", "delete"}
      /\ At(r, "deploy") => req[r].op \in {"bind", "unbind", "delete"}
      /\ req[r].pc \in {"collect", "next"} => req[r].op = "delete"
      /\ req[r].pc \in {"validate", "bind"} => \A s \in req[r].found : cred[s] = "config"
      /\ At(r, "validate") => req[r].svcs = req[r].found \cup req[r].todo
      /\ At(r, "bind") => req[r].svcs = req[r].found
      /\ At(r, "unset") => req[r].found = {req[r].svc}
      /\ req[r].pc \in {"deploy", "bindservice", "unbindservice"} =>
           IF req[r].op = "bind"
           THEN req[r].todo = {} /\ bound[a].configs = bound[a].services \cup req[r].svcs
           ELSE bound[a].configs = bound[a].services \ {req[r].svc}

InOrder(r) == Alone(r) /\ OthersSettled(r) /\ ServiceStage(r) /\ BindingStage(r)

OrderInv == past = {} => (AllIdle /\ Settled) \/ (\E r \in Req : InOrder(r))
-----------------------------------------------------------------------------
(* Steps that keep the order *)

\* Where request r is after a step, and the others
LEMMA Moved ==
  ASSUME IInv, NEW r \in Req, NEW new, NEW s,
         Become(r, new) \/ req' = [Outdate(s) EXCEPT ![r] = new]
  PROVE  req'[r] = new /\ (Alone(r) => Alone(r)')
<1>1. CASE Become(r, new)
  BY <1>1 DEF Become, IInv, TypeOK, Alone
<1>2. CASE req' = [Outdate(s) EXCEPT ![r] = new]
  <2>1. \A q \in Req : req'[q] = IF q = r THEN new ELSE Outdate(s)[q]
    BY <1>2 DEF Outdate
  <2>2. \A q \in Req : Outdate(s)[q].pc = req[q].pc
    <3> TAKE q \in Req
    <3>1. req[q] \in Request
      BY Before
    <3> QED BY <3>1 DEF Outdate, Request
  <2> QED BY <2>1, <2>2 DEF Alone
<1> QED BY <1>1, <1>2

\* A request works at a service: the applications are left alone.
LEMMA ServiceWork ==
  ASSUME IInv, NEW r \in Req, InOrder(r), NEW new, req'[r] = new, Alone(r)',
         UNCHANGED <<bound, pods>>,
         req[r].pc \notin {"deploy", "bindservice", "unbindservice"},
         \A s \in Service :
           \/ Complete(s)'
           \/ s = new.svc /\ new.pc \in {"check", "install", "installing", "hook", "secret"},
         new.pc \notin {"validate", "bind", "configs", "unset", "deploy", "bindservice",
                        "unbindservice", "collect", "next"},
         ServiceStage(r)'
  PROVE  InOrder(r)'
<1>1. \A a \in App : Agrees(a)' /\ Mounts(a)'
  BY DEF InOrder, OthersSettled, Agrees, Mounts
<1>2. OthersSettled(r)'
  BY <1>1 DEF OthersSettled
<1>3. BindingStage(r)'
  BY DEF BindingStage
<1> QED BY <1>2, <1>3 DEF InOrder

\* A request works at the bindings of an application: the services are left alone.
LEMMA BindingWork ==
  ASSUME IInv, NEW r \in Req, InOrder(r), NEW new, req'[r] = new, Alone(r)',
         UNCHANGED <<secret, release>>, \A s \in Service : Complete(s) => Complete(s)',
         req[r].pc \notin {"check", "install", "installing", "hook", "secret"},
         new.pc \notin {"check", "install", "installing", "hook", "secret", "cleanup", "undo"},
         new.pc = "configs" => new.svc \in Service /\ cred'[new.svc] = "config",
         \A a \in App : Agrees(a)' \/ (a = new.app
                          /\ new.pc \in {"deploy", "bindservice", "unbindservice"}),
         \A a \in App : Mounts(a)' \/ (a = new.app /\ new.pc = "deploy" /\ pods'[a].runs),
         BindingStage(r)'
  PROVE  InOrder(r)'
<1>1. \A s \in Service : Complete(s)'
  BY DEF InOrder, OthersSettled
<1>2. OthersSettled(r)'
  BY <1>1 DEF OthersSettled
<1>3. ServiceStage(r)'
  BY DEF ServiceStage
<1> QED BY <1>2, <1>3 DEF InOrder

\* The request is over, and all is in order.
LEMMA Rest ==
  ASSUME IInv, NEW r \in Req, InOrder(r), NEW s,
         Become(r, Idle) \/ req' = [Outdate(s) EXCEPT ![r] = Idle], Settled'
  PROVE  InOrder(r)'
<1>1. req'[r].pc = "idle" /\ Alone(r)'
  BY Moved DEF InOrder, Idle
<1> QED BY <1>1 DEF InOrder, OthersSettled, ServiceStage, BindingStage, Settled

\* A request that is neither installing nor removing, binding nor unbinding, leaves
\* all in order.
LEMMA Quiet ==
  ASSUME NEW r \in Req, InOrder(r),
         req[r].pc \notin {"check", "install", "installing", "hook", "secret", "deploy",
                           "bindservice", "unbindservice"}
  PROVE  Settled
BY DEF InOrder, OthersSettled, Settled

LEMMA SettledKept == UNCHANGED stores /\ Settled => Settled'
BY DEF stores, Settled, Complete, Agrees, Mounts
-----------------------------------------------------------------------------
(* Beginning *)

LEMMA BeginOrder ==
  ASSUME IInv, NEW r \in Req, Begin(r), past' = {}, AllIdle, Settled
  PROVE  InOrder(r)'
<1>0. past = {} /\ Alone(r)
  BY Before DEF Begin, CreateService, BeginChange, BeginBind, BeginUnbind, BeginDelete,
     BeginDeleteAll, BeginUnbindConfig, Start, AllIdle, Alone
<1>1. ASSUME NEW new, Become(r, new), UNCHANGED stores,
             new.pc \notin {"check", "install", "installing", "hook", "secret", "deploy",
                            "bindservice", "unbindservice", "cleanup", "undo"},
             new.pc = "configs" => new.svc \in Service /\ cred[new.svc] = "config",
             BindingStage(r)'
      PROVE  InOrder(r)'
  <2>1. req'[r] = new /\ Alone(r)' /\ Settled'
    BY <1>0, <1>1, Moved, SettledKept
  <2>2. OthersSettled(r)'
    BY <2>1 DEF OthersSettled, Settled
  <2>3. ServiceStage(r)'
    BY <1>1, <2>1 DEF ServiceStage, stores
  <2> QED BY <1>1, <2>1, <2>2, <2>3 DEF InOrder
<1>2. ASSUME NEW s \in Service, NEW v \in Settings, NEW sync \in BOOLEAN,
             CreateService(r, s, v, sync)
      PROVE  InOrder(r)'
  <2> DEFINE new == [Idle EXCEPT !.pc = "check", !.op = "create", !.svc = s,
                                 !.pub = v, !.sync = sync]
  <2>1. new.pc = "check" /\ new.svc = s
    BY DEF Idle
  <2>2. Become(r, new)
    BY <1>2 DEF CreateService, Start
  <2> HIDE DEF new
  <2>3. req'[r] = new /\ Alone(r)'
    BY <1>0, <2>2, Moved
  <2>4. /\ ~secret[s].exists /\ UNCHANGED <<release, cred, bound, pods>>
        /\ \A t \in Service : IF t = s THEN secret'[t].exists ELSE secret'[t] = secret[t]
    BY <1>2 DEF CreateService, IInv, TypeOK
  <2>5. \A t \in Service : Complete(t)
    BY DEF Settled
  <2>6. \A t \in Service : t = s \/ Complete(t)'
    BY <2>4, <2>5 DEF Complete
  <2>7. \A a \in App : Agrees(a)' /\ Mounts(a)'
    BY <2>4 DEF Settled, Agrees, Mounts
  <2>8. OthersSettled(r)'
    BY <2>1, <2>3, <2>6, <2>7 DEF OthersSettled
  <2>9. release'[s].status = "none" /\ cred'[s] = "none" /\ secret'[s].exists
    BY <2>4, <2>5 DEF Complete
  <2>10. ServiceStage(r)'
    BY <2>1, <2>3, <2>9 DEF ServiceStage
  <2>11. BindingStage(r)'
    BY <2>1, <2>3 DEF BindingStage
  <2> QED BY <2>3, <2>8, <2>10, <2>11 DEF InOrder
<1>3. ASSUME NEW op \in {"update", "replace"}, NEW s \in Service, NEW c, NEW restart,
             BeginChange(r, op, s, c, restart)
      PROVE  InOrder(r)'
  <2> DEFINE new == [Idle EXCEPT !.pc = "load", !.op = op, !.svc = s, !.change = c,
                                 !.flag = restart]
  <2>1. Become(r, new) /\ UNCHANGED stores /\ new.pc = "load"
    BY <1>3 DEF BeginChange, Start, Idle
  <2> HIDE DEF new
  <2>2. BindingStage(r)'
    BY <2>1, Moved DEF BindingStage
  <2> QED BY <1>1, <2>1, <2>2
<1>4. ASSUME NEW a \in App, NEW svcs \in SUBSET Service, BeginBind(r, a, svcs)
      PROVE  InOrder(r)'
  <2> DEFINE new == [Idle EXCEPT !.pc = "validate", !.op = "bind", !.app = a, !.svcs = svcs,
                                 !.todo = svcs]
  <2>1. /\ Become(r, new) /\ UNCHANGED stores /\ new.pc = "validate" /\ new.op = "bind"
        /\ new.app = a /\ new.svcs = svcs /\ new.todo = svcs /\ new.found = {}
    BY <1>4 DEF BeginBind, Start, Idle
  <2> HIDE DEF new
  <2>2. BindingStage(r)'
    BY <2>1, Moved DEF BindingStage
  <2> QED BY <1>1, <2>1, <2>2
<1>5. ASSUME NEW a \in App, NEW s \in Service, BeginUnbind(r, a, s)
      PROVE  InOrder(r)'
  <2> DEFINE new == [Idle EXCEPT !.pc = "configs", !.op = "unbind", !.app = a, !.svc = s]
  <2>1. /\ Become(r, new) /\ UNCHANGED stores /\ new.pc = "configs" /\ new.op = "unbind"
        /\ new.app = a /\ new.svc = s
    BY <1>5 DEF BeginUnbind, Start, Idle
  <2>2. cred[s] = "config"
    BY <1>5 DEF BeginUnbind, Ready, Settled, Complete
  <2> HIDE DEF new
  <2>3. BindingStage(r)'
    BY <2>1, Moved DEF BindingStage
  <2> QED BY <1>1, <2>1, <2>2, <2>3
<1>6. ASSUME NEW svcs, NEW unbind, BeginDelete(r, svcs, unbind)
      PROVE  InOrder(r)'
  <2> DEFINE new == [Idle EXCEPT !.pc = "collect", !.op = "delete", !.svcs = svcs,
                                 !.todo = svcs, !.flag = unbind]
  <2>1. Become(r, new) /\ UNCHANGED stores /\ new.pc = "collect" /\ new.op = "delete"
    BY <1>6 DEF BeginDelete, Start, Idle
  <2> HIDE DEF new
  <2>2. BindingStage(r)'
    BY <2>1, Moved DEF BindingStage
  <2> QED BY <1>1, <2>1, <2>2
<1>7. CASE BeginDeleteAll(r)
  <2> DEFINE new == [Idle EXCEPT !.pc = "remove", !.op = "deleteall",
                                 !.todo = {s \in Service : secret[s].exists}]
  <2>1. Become(r, new) /\ UNCHANGED stores /\ new.pc = "remove"
    BY <1>7 DEF BeginDeleteAll, Start, Idle
  <2> HIDE DEF new
  <2>2. BindingStage(r)'
    BY <2>1, Moved DEF BindingStage
  <2> QED BY <1>1, <2>1, <2>2
<1>8. ASSUME NEW a, NEW s, BeginUnbindConfig(r, a, s) PROVE FALSE
  BY <1>8 DEF BeginUnbindConfig
<1> QED BY <1>2, <1>3, <1>4, <1>5, <1>6, <1>7, <1>8 DEF Begin
-----------------------------------------------------------------------------
(* Installing, and removing services *)

\* The store that a step of request r leaves alone besides its service
LEMMA OtherServices ==
  ASSUME NEW r \in Req, InOrder(r), NEW s,
         \A t \in Service : t # s => UNCHANGED <<secret[t], release[t], cred[t]>>,
         req[r].pc \in {"check", "install", "installing", "hook", "secret"} => s = req[r].svc
  PROVE  \A t \in Service : t # s => Complete(t)'
BY DEF InOrder, OthersSettled, Complete

LEMMA LoadOrder ==
  ASSUME IInv, NEW r \in Req, InOrder(r), LoadSettings(r) PROVE InOrder(r)'
<1>1. At(r, "load") /\ Settled /\ Settled' /\ UNCHANGED stores
  BY Quiet, SettledKept DEF LoadSettings
<1>2. CASE End(r)
  BY <1>1, <1>2, Rest DEF End
<1>3. CASE ~End(r)
  <2> DEFINE new == [req[r] EXCEPT !.pc = "store", !.copy = secret[req[r].svc].settings,
                                   !.fresh = TRUE]
  <2>1. Become(r, new) /\ new.pc = "store"
    BY <1>3, Before DEF LoadSettings, Request
  <2> HIDE DEF new
  <2>2. req'[r] = new /\ Alone(r)'
    BY <2>1, Moved DEF InOrder
  <2> QED BY <1>1, <2>1, <2>2 DEF InOrder, OthersSettled, ServiceStage, BindingStage, Settled
<1> QED BY <1>2, <1>3

LEMMA StoreOrder ==
  ASSUME IInv, NEW r \in Req, InOrder(r), StoreSettings(r) PROVE InOrder(r)'
<1> DEFINE s == req[r].svc
           new == [req[r] EXCEPT !.pc = "check",
                                 !.pub = IF req[r].op = "replace" THEN New(r) ELSE @]
<1>1. /\ At(r, "store") /\ s \in Service /\ secret[s].exists /\ Settled
      /\ UNCHANGED <<release, cred, bound, pods>>
  BY Quiet DEF StoreSettings, IInv, CopyInv
<1>2. new.pc = "check" /\ new.svc = s
  BY Before DEF Request
<1>3. req'[r] = new /\ Alone(r)'
  BY Moved DEF StoreSettings, InOrder
<1>4. \A t \in Service : secret'[t].exists = secret[t].exists
  BY DEF StoreSettings, IInv, TypeOK, Secret
<1> HIDE DEF s, new
<1>5. \A t \in Service : Complete(t) /\ Complete(t)'
  BY <1>1, <1>4 DEF Settled, Complete
<1>6. ServiceStage(r)'
  BY <1>1, <1>2, <1>3, <1>4, <1>5 DEF ServiceStage, Complete
<1> QED BY <1>1, <1>2, <1>3, <1>5, <1>6, ServiceWork

LEMMA StoreRefusedOrder ==
  ASSUME IInv, NEW r \in Req, InOrder(r), StoreRefused(r) PROVE InOrder(r)'
<1>1. At(r, "store") /\ Settled /\ Settled' /\ UNCHANGED stores
  BY Quiet, SettledKept DEF StoreRefused
<1>2. CASE End(r)
  BY <1>1, <1>2, Rest DEF End
<1>3. CASE ~End(r)
  <2> DEFINE new == [req[r] EXCEPT !.pc = "load",
                                   !.pub = IF req[r].op = "update" THEN New(r) ELSE @]
  <2>1. Become(r, new) /\ new.pc = "load"
    BY <1>3, Before DEF StoreRefused, Request
  <2> HIDE DEF new
  <2>2. req'[r] = new /\ Alone(r)'
    BY <2>1, Moved DEF InOrder
  <2> QED BY <1>1, <2>1, <2>2 DEF InOrder, OthersSettled, ServiceStage, BindingStage, Settled
<1> QED BY <1>2, <1>3

\* The release is missing or deployed: nothing has to be cleaned up.
LEMMA CheckOrder ==
  ASSUME IInv, NEW r \in Req, InOrder(r), CheckRelease(r) PROVE InOrder(r)'
<1> DEFINE s == req[r].svc
           new == [req[r] EXCEPT !.pc = "install"]
<1>1. At(r, "check") /\ UNCHANGED stores /\ s \in Service
  BY DEF CheckRelease, InOrder, ServiceStage
<1>2. new.pc = "install" /\ new.svc = s
  BY Before DEF Request
<1>3. Become(r, new)
  BY <1>1 DEF CheckRelease, InOrder, ServiceStage, Goto
<1> HIDE DEF new
<1>4. req'[r] = new /\ Alone(r)'
  BY <1>3, Moved DEF InOrder
<1>5. \A t \in Service : t # s => Complete(t)'
  BY <1>1, OtherServices DEF stores
<1>6. ServiceStage(r)'
  BY <1>1, <1>2, <1>4 DEF InOrder, ServiceStage, stores
<1> QED BY <1>1, <1>2, <1>4, <1>5, <1>6, ServiceWork DEF stores

LEMMA InstallOrder ==
  ASSUME IInv, NEW r \in Req, InOrder(r), Install(r) PROVE InOrder(r)'
<1> DEFINE s == req[r].svc
           new == [req[r] EXCEPT !.pc = "installing"]
<1>1. /\ At(r, "install") /\ UNCHANGED <<secret, cred, bound, pods>> /\ s \in Service
      /\ secret[s].exists /\ release[s].status # "pending" /\ cred[s] \in {"none", "config"}
  BY DEF Install, InOrder, ServiceStage
<1>2. new.pc = "installing" /\ new.svc = s
  BY Before DEF Request
<1>3. Become(r, new) /\ release' = [release EXCEPT ![s].status = "pending"]
  BY <1>1 DEF Install, Goto
<1> HIDE DEF new
<1>4. req'[r] = new /\ Alone(r)'
  BY <1>3, Moved DEF InOrder
<1>5. \A t \in Service : t # s => Complete(t)'
  BY <1>1, <1>3, OtherServices DEF IInv, TypeOK
<1>6. ServiceStage(r)'
  BY <1>1, <1>2, <1>4 DEF ServiceStage
<1> QED BY <1>1, <1>2, <1>4, <1>5, <1>6, ServiceWork

LEMMA InstalledOrder ==
  ASSUME IInv, NEW r \in Req, InOrder(r), Installed(r) PROVE InOrder(r)'
<1> DEFINE s == req[r].svc
           new == [req[r] EXCEPT !.pc = "hook"]
<1>1. /\ At(r, "installing") /\ UNCHANGED <<secret, bound, pods>> /\ s \in Service
      /\ secret[s].exists /\ Become(r, new)
  BY DEF Installed, InOrder, ServiceStage, Goto
<1>2. new.pc = "hook" /\ new.svc = s
  BY Before DEF Request
<1>3. release'[s].status = "deployed" /\ cred'[s] # "none"
      /\ \A t \in Service : t # s => UNCHANGED <<release[t], cred[t]>>
  BY <1>1 DEF Installed, IInv, TypeOK
<1> HIDE DEF s, new
<1>4. req'[r] = new /\ Alone(r)'
  BY <1>1, Moved DEF InOrder
<1>5. \A t \in Service : t # s => Complete(t)'
  BY <1>1, <1>3, OtherServices DEF s
<1>6. ServiceStage(r)'
  BY <1>1, <1>2, <1>3, <1>4 DEF ServiceStage
<1> QED BY <1>1, <1>2, <1>4, <1>5, <1>6, ServiceWork

\* The service is ready, and complete once its credential is labelled.
LEMMA PublishOrder ==
  ASSUME IInv, NEW r \in Req, InOrder(r), Publish(r) PROVE InOrder(r)'
<1> DEFINE s == req[r].svc
           new == [req[r] EXCEPT !.pc = "list"]
<1>1. /\ At(r, "hook") /\ UNCHANGED <<secret, release, bound, pods>> /\ s \in Service
      /\ secret[s].exists /\ release[s].status = "deployed" /\ cred[s] # "none"
  BY DEF Publish, InOrder, ServiceStage
<1>2. cred' = [cred EXCEPT ![s] = "config"] /\ (Become(r, new) \/ End(r))
  BY <1>1 DEF Publish, Ready, Labelled, Goto
<1>3. \A t \in Service : Complete(t)'
  <2>1. \A t \in Service : t # s => Complete(t)'
    BY <1>1, <1>2, OtherServices DEF IInv, TypeOK
  <2>2. \A t \in Service : t = s => Complete(t)'
    BY <1>1, <1>2 DEF Complete, IInv, TypeOK
  <2> QED BY <2>1, <2>2
<1>4. CASE Become(r, new)
  <2>1. new.pc = "list"
    BY Before DEF Request
  <2> HIDE DEF new
  <2>2. req'[r] = new /\ Alone(r)'
    BY <1>4, Moved DEF InOrder
  <2>3. ServiceStage(r)'
    BY <2>1, <2>2 DEF ServiceStage
  <2> QED BY <1>1, <1>3, <2>1, <2>2, <2>3, ServiceWork
<1>5. CASE End(r)
  <2>1. Settled'
    BY <1>1, <1>3 DEF InOrder, OthersSettled, Settled, Agrees, Mounts
  <2> QED BY <1>5, <2>1, Rest DEF End
<1> QED BY <1>2, <1>4, <1>5

LEMMA ListOrder ==
  ASSUME IInv, NEW r \in Req, InOrder(r), ListBoundApps(r) PROVE InOrder(r)'
<1> DEFINE new == [req[r] EXCEPT !.pc = "restart",
                                 !.apps = {a \in App : req[r].svc \in bound[a].services}]
<1>1. Settled' /\ Become(r, new)
  BY Quiet, SettledKept DEF ListBoundApps
<1>2. new.pc = "restart"
  BY Before DEF Request
<1> HIDE DEF new
<1>3. req'[r] = new /\ Alone(r)'
  BY <1>1, Moved DEF InOrder
<1> QED BY <1>1, <1>2, <1>3 DEF InOrder, OthersSettled, ServiceStage, BindingStage, Settled

\* An application that is deployed mounts what is bound to it.
LEMMA DeployMounts ==
  ASSUME IInv, NEW a \in App, DeployApp(a), UNCHANGED bound
  PROVE  /\ \A b \in App : Agrees(b) => Agrees(b)'
         /\ \A b \in App : b # a /\ Mounts(b) => Mounts(b)'
         /\ pods[a].runs \/ Mounts(a) => Mounts(a)'
<1>1. /\ \A b \in App : b # a => pods'[b] = pods[b]
      /\ pods'[a].runs = pods[a].runs
      /\ pods'[a].mounts = IF pods[a].runs THEN bound[a].configs ELSE pods[a].mounts
  BY DEF DeployApp, IInv, TypeOK, Pods
<1> QED BY <1>1 DEF Agrees, Mounts

LEMMA RestartOrder ==
  ASSUME IInv, NEW r \in Req, InOrder(r), RestartApp(r) PROVE InOrder(r)'
<1>1. UNCHANGED <<secret, release, cred, bound>> /\ At(r, "restart") /\ Settled
  BY Quiet DEF RestartApp
<1>2. CASE End(r) /\ UNCHANGED pods
  BY <1>1, <1>2, SettledKept, Rest DEF End, stores
<1>3. CASE \E a \in req[r].apps : DeployApp(a) /\ Become(r, [req[r] EXCEPT !.apps = @ \ {a}])
  <2>1. PICK a \in req[r].apps : DeployApp(a) /\ Become(r, [req[r] EXCEPT !.apps = @ \ {a}])
    BY <1>3
  <2> DEFINE new == [req[r] EXCEPT !.apps = @ \ {a}]
  <2>2. a \in App /\ new.pc = "restart"
    BY <1>1, Before, RequestType DEF Request
  <2>3. Become(r, new)
    BY <2>1
  <2> HIDE DEF new
  <2>4. req'[r] = new /\ Alone(r)'
    BY <2>3, Moved DEF InOrder
  <2>5. Settled'
    BY <1>1, <2>1, <2>2, DeployMounts DEF Settled, Complete
  <2> QED BY <2>2, <2>4, <2>5 DEF InOrder, OthersSettled, ServiceStage, BindingStage, Settled
<1> QED BY <1>2, <1>3 DEF RestartApp

LEMMA RemoveOrder ==
  ASSUME IInv, NEW r \in Req, InOrder(r), RemoveRelease(r) PROVE InOrder(r)'
<1>1. UNCHANGED <<secret, bound, pods>> /\ At(r, "remove") /\ Settled
  BY Quiet DEF RemoveRelease
<1>2. PICK s \in req[r].todo :
        /\ Uninstall(s)
        /\ Become(r, [req[r] EXCEPT !.pc = "secret", !.svc = s, !.todo = @ \ {s}])
  BY DEF RemoveRelease
<1> DEFINE new == [req[r] EXCEPT !.pc = "secret", !.svc = s, !.todo = @ \ {s}]
<1>3. s \in Service /\ new.pc = "secret" /\ new.svc = s
  BY Before, RequestType DEF Request
<1>4. Become(r, new)
  BY <1>2
<1> HIDE DEF new
<1>5. req'[r] = new /\ Alone(r)'
  BY <1>4, Moved DEF InOrder
<1>6. release'[s].status = "none" /\ cred'[s] = "none"
      /\ \A t \in Service : t # s => UNCHANGED <<release[t], cred[t]>>
  BY <1>2, <1>3 DEF Uninstall, NoRelease, IInv, TypeOK
<1>7. \A t \in Service : t # s => Complete(t)'
  BY <1>1, <1>6, OtherServices
<1>8. ServiceStage(r)'
  BY <1>3, <1>5, <1>6 DEF ServiceStage
<1> QED BY <1>1, <1>3, <1>5, <1>7, <1>8, ServiceWork

LEMMA DeleteSecretOrder ==
  ASSUME IInv, NEW r \in Req, InOrder(r), DeleteSecret(r) PROVE InOrder(r)'
<1> DEFINE s == req[r].svc
           new == [req[r] EXCEPT !.pc = "remove"]
<1>1. /\ At(r, "secret") /\ UNCHANGED <<release, cred, bound, pods>> /\ s \in Service
      /\ release[s].status = "none" /\ cred[s] = "none"
  BY DEF DeleteSecret, InOrder, ServiceStage
<1>2. ~secret'[s].exists /\ \A t \in Service : t # s => secret'[t] = secret[t]
  BY <1>1 DEF DeleteSecret, NoSecret, IInv, TypeOK
<1>3. req' = [Outdate(s) EXCEPT ![r] = new] \/ req' = [Outdate(s) EXCEPT ![r] = Idle]
  BY DEF DeleteSecret
<1>4. \A t \in Service : Complete(t)'
  <2>1. \A t \in Service : t # s => Complete(t)'
    BY <1>1, <1>2, OtherServices
  <2>2. \A t \in Service : t = s => Complete(t)'
    BY <1>1, <1>2 DEF Complete
  <2> QED BY <2>1, <2>2
<1>5. CASE req' = [Outdate(s) EXCEPT ![r] = new]
  <2>1. new.pc = "remove"
    BY Before DEF Request
  <2>2. req'[r] = new /\ Alone(r)'
    BY <1>5, Moved DEF InOrder
  <2> HIDE DEF new
  <2>3. ServiceStage(r)'
    BY <2>1, <2>2 DEF ServiceStage
  <2> QED BY <1>1, <1>4, <2>1, <2>2, <2>3, ServiceWork
<1>6. CASE req' = [Outdate(s) EXCEPT ![r] = Idle]
  <2>1. Settled'
    BY <1>1, <1>4 DEF InOrder, OthersSettled, Settled, Agrees, Mounts
  <2> QED BY <1>6, <2>1, Rest
<1> QED BY <1>3, <1>5, <1>6
-----------------------------------------------------------------------------
(* Binding and unbinding *)

\* All services are complete, so that a validated one has been labelled before.
LEMMA ValidateOrder ==
  ASSUME IInv, NEW r \in Req, InOrder(r), ValidateBind(r) PROVE InOrder(r)'
<1>1. /\ UNCHANGED <<secret, release, bound, pods>> /\ At(r, "validate") /\ Settled
      /\ req[r] \in Request /\ req[r].app \in App /\ req[r].op = "bind"
      /\ req[r].svcs = req[r].found \cup req[r].todo
      /\ \A t \in req[r].found : cred[t] = "config"
  BY Quiet, Before DEF ValidateBind, InOrder, BindingStage
<1>2. PICK s \in req[r].todo :
        IF Ready(s)
        THEN /\ cred' = [cred EXCEPT ![s] = Labelled(s)]
             /\ LET todo == req[r].todo \ {s}
                IN  Become(r, [req[r] EXCEPT !.todo = todo,
                                             !.found = IF cred[s] = "none" THEN @ ELSE @ \cup {s},
                                             !.pc = IF todo = {} THEN "bind" ELSE "validate"])
        ELSE End(r) /\ UNCHANGED cred
  BY DEF ValidateBind
<1>3. s \in Service
  BY <1>1, <1>2, RequestType
<1>4. CASE Ready(s)
  <2> DEFINE todo == req[r].todo \ {s}
             new == [req[r] EXCEPT !.todo = todo,
                                   !.found = IF cred[s] = "none" THEN @ ELSE @ \cup {s},
                                   !.pc = IF todo = {} THEN "bind" ELSE "validate"]
  <2>1. cred[s] = "config"
    BY <1>1, <1>3, <1>4 DEF Settled, Complete, Ready
  <2>2. cred' = cred
    BY <1>2, <1>4, <2>1 DEF Labelled, IInv, TypeOK
  <2>3. /\ new.pc = (IF todo = {} THEN "bind" ELSE "validate") /\ new.op = "bind"
        /\ new.app = req[r].app /\ new.svcs = req[r].svcs /\ new.todo = todo
        /\ new.found = req[r].found \cup {s}
    BY <1>1, <2>1 DEF Request
  <2>4. Become(r, new)
    BY <1>2, <1>4
  <2> HIDE DEF new
  <2>5. req'[r] = new /\ Alone(r)'
    BY <2>4, Moved DEF InOrder
  <2>6. new.svcs = new.found \cup new.todo /\ \A t \in new.found : cred'[t] = "config"
    BY <1>1, <1>2, <2>1, <2>2, <2>3
  <2>7. new.pc = "bind" => new.todo = {}
    BY <2>3
  <2>8. new.pc \in {"validate", "bind"} /\ new.op = "bind" /\ new.app \in App
    BY <1>1, <2>3
  <2>9. BindingStage(r)'
    BY <2>5, <2>6, <2>7, <2>8 DEF BindingStage
  <2>10. Settled'
    BY <1>1, <2>2, SettledKept DEF stores
  <2>11. OthersSettled(r)'
    BY <2>10 DEF OthersSettled, Settled
  <2>12. ServiceStage(r)'
    BY <2>3, <2>5 DEF ServiceStage
  <2> QED BY <2>5, <2>9, <2>11, <2>12 DEF InOrder
<1>5. CASE ~Ready(s)
  <2>1. End(r) /\ Settled'
    BY <1>1, <1>2, <1>5, SettledKept DEF stores
  <2> QED BY <2>1, Rest DEF End
<1> QED BY <1>4, <1>5

\* All credentials are found, and those that are not yet bound get bound.
LEMMA BindOrder ==
  ASSUME IInv, NEW r \in Req, InOrder(r), BindConfigs(r) PROVE InOrder(r)'
<1> DEFINE a == req[r].app
           fresh == req[r].found \ bound[a].configs
           ok == {s \in fresh : cred[s] = "config"}
           new == [req[r] EXCEPT !.todo = fresh \ ok,
                                 !.pc = IF ok = {} THEN "bindservice" ELSE "deploy"]
<1>1. /\ At(r, "bind") /\ UNCHANGED <<secret, release, cred, pods>> /\ Settled
      /\ a \in App /\ req[r].op = "bind" /\ req[r].svcs = req[r].found
      /\ \A s \in req[r].found : cred[s] = "config"
  BY Quiet DEF BindConfigs, InOrder, BindingStage
<1>2. ok = fresh /\ req[r] \in Request
  BY <1>1, Before
<1>3. /\ new.pc = (IF ok = {} THEN "bindservice" ELSE "deploy") /\ new.todo = {}
      /\ new.op = "bind" /\ new.app = a /\ new.svcs = req[r].found
  BY <1>1, <1>2 DEF Request
<1>4. Become(r, new) /\ bound' = [bound EXCEPT ![a].configs = @ \cup ok]
  BY DEF BindConfigs
<1>5. /\ \A b \in App : b # a => bound'[b] = bound[b]
      /\ bound'[a].services = bound[a].services
      /\ bound'[a].configs = bound[a].configs \cup req[r].found
  BY <1>1, <1>2, <1>4 DEF IInv, TypeOK, Bound
<1>6. ok = {} => bound'[a].configs = bound[a].configs
  BY <1>2, <1>5
<1> HIDE DEF new, ok, fresh
<1>7. req'[r] = new /\ Alone(r)'
  BY <1>4, Moved DEF InOrder
<1> HIDE DEF a
<1>8. \A b \in App : /\ b # a => Agrees(b)' /\ Mounts(b)'
                     /\ ok = {} \/ ~pods'[b].runs => Mounts(b)'
  BY <1>1, <1>5, <1>6 DEF Settled, Agrees, Mounts
<1>9. bound[a].configs = bound[a].services
  BY <1>1 DEF Settled, Agrees
<1>10. BindingStage(r)'
  BY <1>1, <1>3, <1>5, <1>7, <1>9 DEF BindingStage
<1>11. \A s \in Service : Complete(s) => Complete(s)'
  BY <1>1 DEF Complete
<1> QED BY <1>1, <1>3, <1>7, <1>8, <1>10, <1>11, BindingWork

LEMMA DeployChangedOrder ==
  ASSUME IInv, NEW r \in Req, InOrder(r), DeployChanged(r) PROVE InOrder(r)'
<1> DEFINE a == req[r].app
           new == [req[r] EXCEPT !.pc = IF req[r].op = "bind" THEN "bindservice"
                                        ELSE "unbindservice"]
<1>1. /\ At(r, "deploy") /\ UNCHANGED <<secret, release, cred, bound>> /\ a \in App
      /\ req[r].op \in {"bind", "unbind", "delete"} /\ DeployApp(a) /\ Become(r, new)
  BY DEF DeployChanged, InOrder, BindingStage, Goto
<1>2. /\ new.pc = (IF req[r].op = "bind" THEN "bindservice" ELSE "unbindservice")
      /\ new.op = req[r].op /\ new.app = a /\ new.svc = req[r].svc
      /\ new.svcs = req[r].svcs /\ new.todo = req[r].todo
  BY Before DEF Request
<1> HIDE DEF new
<1>3. req'[r] = new /\ Alone(r)'
  BY <1>1, Moved DEF InOrder
<1>4. /\ \A b \in App : b # a => Agrees(b)' /\ Mounts(b)'
      /\ \A b \in App : b = a => Mounts(b)'
  BY <1>1, DeployMounts DEF InOrder, OthersSettled
<1>5. BindingStage(r)'
  BY <1>1, <1>2, <1>3 DEF InOrder, BindingStage
<1>6. \A s \in Service : Complete(s) => Complete(s)'
  BY <1>1 DEF Complete
<1> QED BY <1>1, <1>2, <1>3, <1>4, <1>5, <1>6, BindingWork

LEMMA BindServicesOrder ==
  ASSUME IInv, NEW r \in Req, InOrder(r), BindServices(r) PROVE InOrder(r)'
<1> DEFINE a == req[r].app
<1>1. /\ At(r, "bindservice") /\ UNCHANGED <<secret, release, cred, pods>> /\ a \in App
      /\ req[r].todo = {} /\ bound[a].configs = bound[a].services \cup req[r].svcs
  BY DEF BindServices, InOrder, BindingStage
<1>2. /\ \A b \in App : b # a => bound'[b] = bound[b]
      /\ bound'[a].configs = bound[a].configs
      /\ bound'[a].services = bound[a].services \cup req[r].svcs
  BY <1>1 DEF BindServices, IInv, TypeOK, Bound
<1> HIDE DEF a
<1>3. \A b \in App : Agrees(b)' /\ Mounts(b)'
  BY <1>1, <1>2 DEF InOrder, OthersSettled, Agrees, Mounts, a
<1>4. Settled'
  BY <1>1, <1>3 DEF InOrder, OthersSettled, Settled, Complete
<1> QED BY <1>4, Rest DEF BindServices, End

LEMMA FindOrder ==
  ASSUME IInv, NEW r \in Req, InOrder(r), FindConfigs(r) PROVE InOrder(r)'
<1> DEFINE new == [req[r] EXCEPT !.pc = "unset", !.found = {req[r].svc}]
<1>1. /\ At(r, "configs") /\ UNCHANGED stores /\ Settled' /\ req[r].app \in App
      /\ req[r].op = "unbind" /\ cred[req[r].svc] = "config"
  BY Quiet, SettledKept DEF FindConfigs, InOrder, BindingStage, ServiceStage
<1>2. /\ new.pc = "unset" /\ new.op = "unbind" /\ new.found = {new.svc}
      /\ new.app = req[r].app
  BY <1>1, Before DEF Request
<1>3. Become(r, new)
  BY <1>1 DEF FindConfigs
<1> HIDE DEF new
<1>4. req'[r] = new /\ Alone(r)'
  BY <1>3, Moved DEF InOrder
<1> QED BY <1>1, <1>2, <1>4 DEF InOrder, OthersSettled, ServiceStage, BindingStage, Settled

LEMMA UnsetOrder ==
  ASSUME IInv, NEW r \in Req, InOrder(r), UnsetConfigs(r) PROVE InOrder(r)'
<1> DEFINE a == req[r].app
           new == [req[r] EXCEPT !.pc = "deploy"]
<1>1. /\ At(r, "unset") /\ UNCHANGED <<secret, release, cred, pods>> /\ a \in App
      /\ req[r].op \in {"unbind", "delete"} /\ req[r].found = {req[r].svc}
      /\ Settled /\ Become(r, new)
  BY Quiet DEF UnsetConfigs, InOrder, BindingStage, Goto
<1>2. new.pc = "deploy" /\ new.op = req[r].op /\ new.app = a /\ new.svc = req[r].svc
  BY Before DEF Request
<1>3. /\ \A b \in App : b # a => bound'[b] = bound[b]
      /\ bound'[a].services = bound[a].services
      /\ bound'[a].configs = bound[a].configs \ {req[r].svc}
  BY <1>1 DEF UnsetConfigs, IInv, TypeOK, Bound
<1> HIDE DEF new
<1>4. req'[r] = new /\ Alone(r)'
  BY <1>1, Moved DEF InOrder
<1> HIDE DEF a
<1>5. \A b \in App : /\ b # a => Agrees(b)' /\ Mounts(b)'
                     /\ ~pods'[b].runs => Mounts(b)'
  BY <1>1, <1>3 DEF Settled, Agrees, Mounts
<1>6. bound[a].configs = bound[a].services
  BY <1>1 DEF Settled, Agrees
<1>7. BindingStage(r)'
  BY <1>1, <1>2, <1>3, <1>4, <1>6 DEF BindingStage
<1>8. \A s \in Service : Complete(s) => Complete(s)'
  BY <1>1 DEF Complete
<1> QED BY <1>1, <1>2, <1>4, <1>5, <1>7, <1>8, BindingWork

LEMMA UnbindServicesOrder ==
  ASSUME IInv, NEW r \in Req, InOrder(r), UnbindServices(r) PROVE InOrder(r)'
<1> DEFINE a == req[r].app
           new == [req[r] EXCEPT !.pc = "next"]
<1>1. /\ At(r, "unbindservice") /\ UNCHANGED <<secret, release, cred, pods>> /\ a \in App
      /\ req[r].op \in {"unbind", "delete"}
      /\ bound[a].configs = bound[a].services \ {req[r].svc}
  BY DEF UnbindServices, InOrder, BindingStage
<1>2. /\ \A b \in App : b # a => bound'[b] = bound[b]
      /\ bound'[a].configs = bound[a].configs
      /\ bound'[a].services = bound[a].services \ {req[r].svc}
  BY <1>1 DEF UnbindServices, IInv, TypeOK, Bound
<1> HIDE DEF a
<1>3. \A b \in App : Agrees(b)' /\ Mounts(b)'
  BY <1>1, <1>2 DEF InOrder, OthersSettled, Agrees, Mounts, a
<1>4. Settled'
  BY <1>1, <1>3 DEF InOrder, OthersSettled, Settled, Complete
<1>5. CASE End(r)
  BY <1>4, <1>5, Rest DEF End
<1>6. CASE req[r].op = "delete" /\ Become(r, new)
  <2>1. new.pc = "next" /\ new.op = "delete"
    BY <1>6, Before DEF Request
  <2> HIDE DEF new
  <2>2. req'[r] = new /\ Alone(r)'
    BY <1>6, Moved DEF InOrder
  <2> QED BY <1>4, <2>1, <2>2 DEF InOrder, OthersSettled, ServiceStage, BindingStage, Settled
<1> QED BY <1>5, <1>6 DEF UnbindServices, Goto

LEMMA CollectOrder ==
  ASSUME IInv, NEW r \in Req, InOrder(r), CollectBound(r) PROVE InOrder(r)'
<1>1. Settled' /\ At(r, "collect") /\ req[r].op = "delete"
  BY Quiet, SettledKept DEF CollectBound, InOrder, BindingStage
<1>2. CASE End(r)
  BY <1>1, <1>2, Rest DEF End
<1>3. CASE ~End(r)
  <2> DEFINE pairs == {p \in App \X req[r].svcs :
                         cred[p[2]] = "config" /\ p[2] \in bound[p[1]].configs}
             new == [req[r] EXCEPT !.pc = "next", !.pairs = pairs]
  <2>1. Become(r, new)
    BY <1>3 DEF CollectBound
  <2>2. new.pc = "next" /\ new.op = "delete"
    BY <1>1, Before DEF Request
  <2> HIDE DEF new
  <2>3. req'[r] = new /\ Alone(r)'
    BY <2>1, Moved DEF InOrder
  <2> QED BY <1>1, <2>2, <2>3 DEF InOrder, OthersSettled, ServiceStage, BindingStage, Settled
<1> QED BY <1>2, <1>3

LEMMA UnbindNextOrder ==
  ASSUME IInv, NEW r \in Req, InOrder(r), UnbindNext(r) PROVE InOrder(r)'
<1>1. Settled' /\ At(r, "next") /\ req[r] \in Request /\ req[r].op = "delete"
  BY Quiet, SettledKept, Before DEF UnbindNext, InOrder, BindingStage
<1>2. CASE Goto(r, "remove")
  <2> DEFINE new == [req[r] EXCEPT !.pc = "remove"]
  <2>1. new.pc = "remove" /\ Become(r, new)
    BY <1>1, <1>2 DEF Goto, Request
  <2> HIDE DEF new
  <2>2. req'[r] = new /\ Alone(r)'
    BY <2>1, Moved DEF InOrder
  <2> QED BY <1>1, <2>1, <2>2 DEF InOrder, OthersSettled, ServiceStage, BindingStage, Settled
<1>3. CASE ~Goto(r, "remove")
  <2>1. PICK p \in req[r].pairs :
          Become(r, [req[r] EXCEPT !.pc = "unset", !.app = p[1], !.svc = p[2],
                                   !.found = {p[2]}, !.pairs = @ \ {p}])
    BY <1>3 DEF UnbindNext
  <2> DEFINE new == [req[r] EXCEPT !.pc = "unset", !.app = p[1], !.svc = p[2],
                                   !.found = {p[2]}, !.pairs = @ \ {p}]
  <2>2. p[1] \in App
    BY <1>1, RequestType
  <2>3. /\ new.pc = "unset" /\ new.op = "delete" /\ new.app = p[1]
        /\ new.svc = p[2] /\ new.found = {p[2]}
    BY <1>1 DEF Request
  <2>4. Become(r, new)
    BY <2>1
  <2> HIDE DEF new
  <2>5. req'[r] = new /\ Alone(r)'
    BY <2>4, Moved DEF InOrder
  <2>6. BindingStage(r)'
    BY <2>2, <2>3, <2>5 DEF BindingStage
  <2> QED BY <1>1, <2>3, <2>5, <2>6 DEF InOrder, OthersSettled, ServiceStage, Settled
<1> QED BY <1>2, <1>3
-----------------------------------------------------------------------------
(* The order is kept *)

\* A request goes on, alone, as long as nothing spoils the order.
LEMMA ProceedOrder ==
  ASSUME IInv, NEW r \in Req, InOrder(r), Proceed(r), past' = {} PROVE InOrder(r)'
<1>1. ~InstallFails(r)
  BY DEF InstallFails
<1>2. ~CleanupRelease(r) /\ ~UndoCreate(r)
  BY DEF CleanupRelease, UndoCreate, InOrder, ServiceStage
<1> QED
  BY <1>1, <1>2, LoadOrder, StoreOrder, StoreRefusedOrder, CheckOrder, InstallOrder,
     InstalledOrder, PublishOrder, ListOrder, RestartOrder, ValidateOrder, BindOrder,
     DeployChangedOrder, BindServicesOrder, FindOrder, UnsetOrder, UnbindServicesOrder,
     CollectOrder, UnbindNextOrder, RemoveOrder, DeleteSecretOrder DEF Proceed

\* A request that takes a step, or none at all
LEMMA Acts ==
  ASSUME IInv, NEW r \in Req, Proceed(r) \/ Fail(r)
  PROVE  ~At(r, "idle") /\ (past' = {} => past = {} /\ Proceed(r))
<1>1. ~At(r, "idle")
  BY DEF Proceed, Fail, LoadSettings, StoreSettings, StoreRefused, CheckRelease,
     CleanupRelease, Install, Installed, InstallFails, Publish, ListBoundApps, RestartApp,
     UndoCreate, ValidateBind, BindConfigs, DeployChanged, BindServices, FindConfigs,
     UnsetConfigs, UnbindServices, CollectBound, UnbindNext, RemoveRelease, DeleteSecret
<1>2. \/ past' = past
      \/ past' = past \cup {"fault"}
  BY DEF Proceed, Fail, LoadSettings, StoreSettings, StoreRefused, CheckRelease,
     CleanupRelease, Install, Installed, InstallFails, Publish, ListBoundApps, RestartApp,
     UndoCreate, ValidateBind, BindConfigs, DeployChanged, BindServices, FindConfigs,
     UnsetConfigs, UnbindServices, CollectBound, UnbindNext, RemoveRelease, DeleteSecret
<1>3. Fail(r) => "fault" \in past'
  BY DEF Fail
<1> QED BY <1>1, <1>2, <1>3

LEMMA OrderInit == Init => OrderInv
<1> SUFFICES ASSUME Init PROVE AllIdle /\ Settled
  BY DEF OrderInv
<1>1. AllIdle
  BY DEF Init, AllIdle, Idle
<1>2. \A s \in Service : Complete(s)
  BY DEF Init, Complete, NoSecret, NoRelease
<1>3. \A a \in App : Agrees(a) /\ Mounts(a)
  BY DEF Init, Agrees, Mounts
<1> QED BY <1>1, <1>2, <1>3 DEF Settled

LEMMA OrderStep == IInv /\ OrderInv /\ [Next]_vars => OrderInv'
<1> SUFFICES ASSUME IInv, OrderInv, [Next]_vars, past' = {} PROVE OrderInv'
  BY DEF OrderInv
<1>1. CASE UNCHANGED vars
  <2>1. UNCHANGED <<secret, release, cred, bound, pods, req>>
    BY <1>1 DEF vars
  <2>2. \A s \in Service : Complete(s)' = Complete(s)
    BY <2>1 DEF Complete
  <2>3. \A a \in App : Agrees(a)' = Agrees(a) /\ Mounts(a)' = Mounts(a)
    BY <2>1 DEF Agrees, Mounts
  <2>4. AllIdle /\ Settled => AllIdle' /\ Settled'
    BY <2>1, <2>2, <2>3 DEF AllIdle, Settled
  <2>5. ASSUME NEW r \in Req, InOrder(r) PROVE InOrder(r)'
    <3>1. Alone(r)' /\ OthersSettled(r)'
      BY <2>1, <2>2, <2>3, <2>5 DEF InOrder, Alone, OthersSettled
    <3>2. ServiceStage(r)'
      BY <2>1, <2>5 DEF InOrder, ServiceStage
    <3>3. BindingStage(r)'
      BY <2>1, <2>5 DEF InOrder, BindingStage
    <3> QED BY <3>1, <3>2, <3>3 DEF InOrder
  <2>6. past = {}
    BY <1>1 DEF vars
  <2> QED BY <2>4, <2>5, <2>6 DEF OrderInv
<1>2. CASE Next
  <2>1. PICK r \in Req : Begin(r) \/ Proceed(r) \/ Fail(r)
    BY <1>2 DEF Next
  <2>2. ASSUME past = {}, AllIdle PROVE Settled
    BY <2>2 DEF OrderInv, AllIdle, InOrder, OthersSettled, Settled
  <2>3. CASE Begin(r)
    <3>1. past = {} /\ AllIdle
      BY <2>3 DEF Begin, CreateService, BeginChange, BeginBind, BeginUnbind, BeginDelete,
         BeginDeleteAll, BeginUnbindConfig, Start
    <3> QED BY <2>2, <2>3, <3>1, BeginOrder DEF OrderInv
  <2>4. CASE Proceed(r) \/ Fail(r)
    <3>1. ~At(r, "idle") /\ past = {} /\ Proceed(r)
      BY <2>4, Acts
    <3>2. InOrder(r)
      BY <3>1 DEF OrderInv, AllIdle, InOrder, Alone
    <3> QED BY <3>1, <3>2, ProceedOrder DEF OrderInv
  <2> QED BY <2>1, <2>3, <2>4
<1> QED BY <1>1, <1>2

\* Between the requests all is settled, as long as nothing has spoilt the order.
LEMMA OrderSettles == IInv /\ OrderInv /\ Orderly => Settled
BY DEF Orderly, OrderInv, AllIdle, InOrder, OthersSettled, Settled

LEMMA OrderAlways == Spec => [](IInv /\ OrderInv)
<1>1. IInv /\ [Next]_vars => IInv'
  BY StepGood DEF Good
<1> QED BY InitInv, OrderInit, OrderStep, <1>1, PTL DEF Spec

\* For any number of services, however many requests have gone before: when they
\* neither failed nor overlapped, a service that is there is deployed and its credential
\* is a configuration, and one that was deleted has left nothing (Create,
\* WhenFullyDeployed, Delete, DeleteAll).
THEOREM ServicesComplete == Spec => []ServiceComplete
<1>1. IInv /\ OrderInv => ServiceComplete
  BY OrderSettles DEF ServiceComplete, Settled, Complete
<1> QED BY OrderAlways, <1>1, PTL

\* Under the same condition the services and the configurations bound to an application
\* are the same, and its pods mount just these (Bind, BatchBind, Unbind, Delete).
THEOREM BindingsStayEqual == Spec => []BindingsAgree
<1>1. IInv /\ OrderInv => BindingsAgree
  BY OrderSettles DEF BindingsAgree, Settled, Agrees, Mounts
<1> QED BY OrderAlways, <1>1, PTL
=============================================================================
