------------------------ MODULE AppSettingsSeqProofs ------------------------
(***************************************************************************)
(* Proofs about AppSettings for requests that follow one another: what is  *)
(* bound exists, and the workload runs with the settings as saved.         *)
(*                                                                         *)
(* Neither is inductive.  That a change leaves no binding to what does not *)
(* exist depends on what its request has checked before, and on what the   *)
(* deletion of a configuration has unbound before it drops it (BoundInv).  *)
(* That the workload becomes current again after a change depends on the   *)
(* request getting as far as helm from there, with the settings it has     *)
(* looked up on the way (DeployInv).                                       *)
(***************************************************************************)
EXTENDS AppSettingsProofs

\* Requests are made one after the other.
OneAtATime == \A q, r \in Req : q = r

\* A request is about to change the bindings.
Writing(q) == q.phase = "update" /\ q.area = "conf" /\ q.pc \in Loading \cup {"write"}

\* The change of the bindings that a request has still to make is the one of its operation.
Aims(q) ==
  /\ q.op \in {"bind", "update"} /\ q.plan["conf"] # NoChange
       => q.plan["conf"].mode \in {"add", "replace"} /\ q.plan["conf"].keys = q.target
  /\ q.op = "delconf" =>
       /\ \E c \in Config : q.target = {c}
       /\ q.plan["env"] = NoChange
       /\ q.plan["conf"] \in {NoChange, [mode |-> "remove", keys |-> q.target]}
  /\ q.op \notin {"bind", "update", "create"} => q.plan["conf"].mode \in {"none", "remove"}
  /\ q.pc = "drop" => q.op = "delconf"
  /\ q.pc \in {"bound", "helm"} => q.phase = "deploy"

AimInv == \A r \in Req : Aims(req[r])

\* What is to be bound has been found to exist, and what is to be dropped is unbound.
Checked(q) ==
  /\ q.pc = "create" \/ Writing(q)
       => q.plan["conf"].mode = "remove" \/ q.plan["conf"].keys \subseteq config
  /\ Writing(q) /\ q.pc = "write" => q.copy \subseteq config
  /\ q.op = "delconf" /\ (q.pc = "drop" \/ q.phase = "deploy")
       => q.target \cap secret["conf"].data = {}

\* A secret that is not there holds nothing.
NothingMissing == \A a \in Area : ~There(a) => secret[a].data = {}

BoundInv == BindingsExist /\ NothingMissing /\ \A r \in Req : Checked(req[r])

\* A request is on its way to deploy the workload.
Deploying(q) == q.phase = "deploy" /\ q.pc \in Loading \cup {"lookup", "bound", "helm"}

\* The workload, if it runs, does so with the settings as saved.
Saved ==
  workload.running => workload.env = secret["env"].data /\ workload.conf = secret["conf"].data

\* A request that changes settings has found out whether the workload runs, and one
\* that deploys gets as far as helm, with the settings as saved.
Deploys(q) ==
  /\ q.op # "update"
  /\ q.phase # "none" /\ q.pc # "create" /\ (q.phase = "first" => q.pc # "lookup")
       => app # None
  /\ q.pc = "create" => app = None
  /\ q.pc \in {"owner", "make"} => ~There(q.area)
  /\ q.pc = "make" => q.owner = app
  /\ q.phase \in {"known", "update"} => q.redeploy = workload.running
  /\ q.pc \in {"list", "remove", "delcr"} => q.phase = "none"
  /\ q.pc = "delcr" => ~workload.running
  /\ Deploying(q) => image /\ (q.pc \notin {"lookup", "helm"} => q.redeploy)
  /\ Deploying(q) /\ q.area = "conf" /\ q.pc # "lookup" => q.env = secret["env"].data
  /\ q.pc \in {"bound", "helm"} =>
       q.area = "conf" /\ q.conf = secret["conf"].data

DeployInv ==
  /\ ~staging
  /\ workload.running => image /\ app # None
  /\ (\A r \in Req : ~Deploying(req[r])) => Saved
  /\ \A r \in Req : Deploys(req[r])

\* The secrets of an application that was deleted are collected before it is created anew.
Collected == app # None => \A a \in Area : secret[a].owner \in {None, app}
-----------------------------------------------------------------------------
(* How requests move *)

\* A request that keeps what it is about.
Keeps(q, new) == new.op = q.op /\ new.target = q.target /\ new.plan = q.plan

\* How a request begins.
LEMMA BeginMoves ==
  ASSUME TypeOK, NEW r \in Req, Begin(r)
  PROVE  /\ At(r, "idle") /\ UNCHANGED <<app, staging, secret, config, workload, stale>>
         /\ \E new :
              /\ Become(r, new) /\ new.op \in Ops /\ new.redeploy = FALSE
              /\ \/ /\ new.pc = "lookup" /\ new.phase = "first" /\ image' = image
                    /\ new.op \in {"set", "bind", "unbind", "update"}
                    /\ IF new.op \in {"bind", "update"}
                       THEN /\ new.plan["conf"].mode \in {"add", "replace"}
                            /\ new.plan["conf"].keys = new.target
                       ELSE new.plan["conf"].mode \in {"none", "remove"}
                 \/ /\ new.pc = "create" /\ new.phase = "update" /\ image' = image
                    /\ new.op = "create" /\ app = None
                    /\ new.plan["conf"].keys \subseteq config
                 \/ /\ new.pc = "lookup" /\ new.phase = "deploy" /\ image'
                    /\ new.op = "deploy" /\ app # None /\ new.plan = NoPlan
                 \/ /\ new.pc = "list" /\ new.phase = "none" /\ image' = image
                    /\ new.op = "delconf" /\ new.plan = NoPlan
                    /\ \E c \in Config : new.target = {c}
                 \/ /\ new.pc = "remove" /\ new.phase = "none" /\ image' = image
                    /\ new.op = "delete" /\ new.plan = NoPlan
<1>a. "env" \in Area /\ "conf" \in Area /\ KeysOf("env") = Var /\ KeysOf("conf") = Config
  BY DEF Area, KeysOf
<1>i. /\ Idle.plan = NoPlan /\ Idle.redeploy = FALSE /\ Idle.phase = "none"
      /\ Idle \in Request
  BY ConstantTypes DEF Idle
<1>1. ASSUME NEW v \in Var, NEW mode \in {"add", "remove"}, BeginSet(r, mode, v)
      PROVE  \E new : /\ Become(r, new) /\ new.op = "set" /\ new.op \in Ops /\ new.pc = "lookup"
                      /\ new.phase = "first" /\ new.redeploy = FALSE
                      /\ new.plan["conf"].mode = "none"
  <2> DEFINE plan == PlanFor("env", mode, {v})
             new == [Idle EXCEPT !.op = "set", !.pc = "lookup", !.phase = "first",
                                 !.plan = plan]
  <2>1. plan["conf"] = NoChange
    BY DEF PlanFor, NoPlan, Area
  <2>2. Become(r, new) /\ "set" \in Ops
    BY <1>1 DEF BeginSet, Start
  <2> HIDE DEF plan
  <2>3. /\ new.op = "set" /\ new.pc = "lookup" /\ new.phase = "first" /\ new.redeploy = FALSE
        /\ new.plan = plan
    BY <1>i DEF Request
  <2> HIDE DEF new
  <2> QED BY <2>1, <2>2, <2>3 DEF NoChange
<1>2. ASSUME NEW c \in Config, BeginBind(r, c)
      PROVE  \E new : /\ Become(r, new) /\ new.op = "bind" /\ new.op \in Ops /\ new.pc = "lookup"
                      /\ new.phase = "first" /\ new.redeploy = FALSE
                      /\ new.plan["conf"].mode = "add" /\ new.plan["conf"].keys = new.target
  <2> DEFINE plan == PlanFor("conf", "add", {c})
             new == [Idle EXCEPT !.op = "bind", !.pc = "lookup", !.phase = "first",
                                 !.target = {c}, !.plan = plan]
  <2>1. plan["conf"] = [mode |-> "add", keys |-> {c}]
    <3>1. {c} \in SUBSET KeysOf("conf")
      BY <1>a
    <3> QED BY <1>a, <3>1, PlanTypes
  <2>2. Become(r, new) /\ "bind" \in Ops
    BY <1>2 DEF BeginBind, Start
  <2> HIDE DEF plan
  <2>3. /\ new.op = "bind" /\ new.pc = "lookup" /\ new.phase = "first" /\ new.redeploy = FALSE
        /\ new.plan = plan /\ new.target = {c}
    BY <1>i DEF Request
  <2> HIDE DEF new
  <2>4. new.plan["conf"].mode = "add" /\ new.plan["conf"].keys = {c}
    BY <2>1, <2>3
  <2> QED BY <2>2, <2>3, <2>4
<1>3. ASSUME NEW c \in Config, BeginUnbind(r, c)
      PROVE  \E new : /\ Become(r, new) /\ new.op = "unbind" /\ new.op \in Ops
                      /\ new.pc = "lookup" /\ new.phase = "first" /\ new.redeploy = FALSE
                      /\ new.plan["conf"].mode = "remove"
  <2> DEFINE plan == PlanFor("conf", "remove", {c})
             new == [Idle EXCEPT !.op = "unbind", !.pc = "lookup", !.phase = "first",
                                 !.plan = plan]
  <2>1. plan["conf"] = [mode |-> "remove", keys |-> {c}]
    <3>1. {c} \in SUBSET KeysOf("conf")
      BY <1>a
    <3> QED BY <1>a, <3>1, PlanTypes
  <2>2. Become(r, new) /\ "unbind" \in Ops
    BY <1>3 DEF BeginUnbind, Start
  <2> HIDE DEF plan
  <2>3. /\ new.op = "unbind" /\ new.pc = "lookup" /\ new.phase = "first"
        /\ new.redeploy = FALSE /\ new.plan = plan
    BY <1>i DEF Request
  <2> HIDE DEF new
  <2> QED BY <2>1, <2>2, <2>3
<1>4. ASSUME NEW v \in Var, NEW mode \in {"add", "replace"}, NEW cs \in SUBSET Config,
             BeginUpdate(r, mode, v, cs)
      PROVE  \E new : /\ Become(r, new) /\ new.op = "update" /\ new.op \in Ops
                      /\ new.pc = "lookup" /\ new.phase = "first" /\ new.redeploy = FALSE
                      /\ new.plan["conf"].mode = "replace" /\ new.plan["conf"].keys = new.target
  <2> DEFINE plan == PlanBoth(mode, {v}, cs)
             new == [Idle EXCEPT !.op = "update", !.pc = "lookup", !.phase = "first",
                                 !.target = cs, !.plan = plan]
  <2>1. plan["conf"] = [mode |-> "replace", keys |-> cs]
    BY DEF PlanBoth, Area
  <2>2. Become(r, new) /\ "update" \in Ops
    BY <1>4 DEF BeginUpdate, Start
  <2> HIDE DEF plan
  <2>3. /\ new.op = "update" /\ new.pc = "lookup" /\ new.phase = "first"
        /\ new.redeploy = FALSE /\ new.plan = plan /\ new.target = cs
    BY <1>i DEF Request
  <2> HIDE DEF new
  <2> QED BY <2>1, <2>2, <2>3
<1>5. ASSUME NEW vs \in SUBSET Var, NEW cs \in SUBSET Config, BeginCreate(r, vs, cs)
      PROVE  \E new : /\ Become(r, new) /\ new.op = "create" /\ new.op \in Ops
                      /\ new.pc = "create" /\ new.phase = "update" /\ new.redeploy = FALSE
                      /\ new.plan["conf"].keys \subseteq config
  <2> DEFINE plan == PlanBoth("replace", vs, cs)
             new == [Idle EXCEPT !.op = "create", !.pc = "create", !.phase = "update",
                                 !.plan = plan]
  <2>1. plan["conf"] = [mode |-> "replace", keys |-> cs]
    BY PlanBothTypes
  <2>2. Become(r, new) /\ "create" \in Ops /\ cs \subseteq config
    BY <1>5 DEF BeginCreate, Start
  <2> HIDE DEF plan
  <2>3. /\ new.op = "create" /\ new.pc = "create" /\ new.phase = "update"
        /\ new.redeploy = FALSE /\ new.plan = plan
    BY <1>i DEF Request
  <2> HIDE DEF new
  <2> QED BY <2>1, <2>2, <2>3
<1>6. ASSUME BeginDeploy(r)
      PROVE  \E new : /\ Become(r, new) /\ new.op = "deploy" /\ new.op \in Ops
                      /\ new.pc = "lookup" /\ new.phase = "deploy" /\ new.redeploy = FALSE
                      /\ new.plan = NoPlan
  <2> DEFINE new == [Idle EXCEPT !.op = "deploy", !.pc = "lookup", !.phase = "deploy"]
  <2>1. Become(r, new) /\ "deploy" \in Ops
    BY <1>6 DEF BeginDeploy, Start
  <2>2. /\ new.op = "deploy" /\ new.pc = "lookup" /\ new.phase = "deploy"
        /\ new.redeploy = FALSE /\ new.plan = NoPlan
    BY <1>i DEF Request
  <2> HIDE DEF new
  <2> QED BY <2>1, <2>2
<1>7. ASSUME NEW c \in Config, NEW unbind \in BOOLEAN, BeginDelconf(r, c, unbind)
      PROVE  \E new : /\ Become(r, new) /\ new.op = "delconf" /\ new.op \in Ops
                      /\ new.pc = "list" /\ new.phase = "none" /\ new.redeploy = FALSE
                      /\ new.plan = NoPlan /\ new.target = {c}
  <2> DEFINE new == [Idle EXCEPT !.op = "delconf", !.pc = "list", !.target = {c},
                                 !.unbind = unbind]
  <2>1. Become(r, new) /\ "delconf" \in Ops
    BY <1>7 DEF BeginDelconf, Start
  <2>2. /\ new.op = "delconf" /\ new.pc = "list" /\ new.phase = "none"
        /\ new.redeploy = FALSE /\ new.plan = NoPlan /\ new.target = {c}
    BY <1>i DEF Request
  <2> HIDE DEF new
  <2> QED BY <2>1, <2>2
<1>8. ASSUME BeginDelete(r)
      PROVE  \E new : /\ Become(r, new) /\ new.op = "delete" /\ new.op \in Ops
                      /\ new.pc = "remove" /\ new.phase = "none" /\ new.redeploy = FALSE
                      /\ new.plan = NoPlan
  <2> DEFINE new == [Idle EXCEPT !.op = "delete", !.pc = "remove"]
  <2>1. Become(r, new) /\ "delete" \in Ops
    BY <1>8 DEF BeginDelete, Start
  <2>2. /\ new.op = "delete" /\ new.pc = "remove" /\ new.phase = "none"
        /\ new.redeploy = FALSE /\ new.plan = NoPlan
    BY <1>i DEF Request
  <2> HIDE DEF new
  <2> QED BY <2>1, <2>2
<1>9. /\ At(r, "idle") /\ UNCHANGED <<app, staging, secret, config, workload, stale>>
      /\ \/ image' = image
         \/ BeginDeploy(r)
  BY DEF Begin, BeginSet, BeginBind, BeginUnbind, BeginUpdate, BeginCreate, BeginDeploy,
         BeginDelconf, BeginDelete, Start
<1>10. CASE \E v \in Var, mode \in {"add", "remove"} : BeginSet(r, mode, v)
  <2>1. image' = image
    BY <1>10 DEF BeginSet
  <2> QED BY <1>1, <1>9, <1>10, <2>1
<1>11. CASE \E c \in Config : BeginBind(r, c)
  <2>1. image' = image
    BY <1>11 DEF BeginBind
  <2> QED BY <1>2, <1>9, <1>11, <2>1
<1>12. CASE \E c \in Config : BeginUnbind(r, c)
  <2>1. image' = image
    BY <1>12 DEF BeginUnbind
  <2> QED BY <1>3, <1>9, <1>12, <2>1
<1>13. CASE \E v \in Var, mode \in {"add", "replace"}, cs \in SUBSET Config :
              BeginUpdate(r, mode, v, cs)
  <2>1. image' = image
    BY <1>13 DEF BeginUpdate
  <2> QED BY <1>4, <1>9, <1>13, <2>1
<1>14. CASE \E vs \in SUBSET Var, cs \in SUBSET Config : BeginCreate(r, vs, cs)
  <2>1. image' = image /\ app = None
    BY <1>14 DEF BeginCreate
  <2> QED BY <1>5, <1>9, <1>14, <2>1
<1>15. CASE BeginDeploy(r)
  <2>1. image' /\ app # None
    BY <1>15 DEF BeginDeploy
  <2> QED BY <1>6, <1>9, <1>15, <2>1
<1>16. CASE \E c \in Config, unbind \in BOOLEAN : BeginDelconf(r, c, unbind)
  <2>1. image' = image
    BY <1>16 DEF BeginDelconf
  <2>2. PICK c \in Config, unbind \in BOOLEAN : BeginDelconf(r, c, unbind)
    BY <1>16
  <2>3. PICK new : /\ Become(r, new) /\ new.op = "delconf" /\ new.op \in Ops
                   /\ new.pc = "list" /\ new.phase = "none" /\ new.redeploy = FALSE
                   /\ new.plan = NoPlan /\ new.target = {c}
    BY <1>7, <2>2
  <2> QED BY <1>9, <2>1, <2>3
<1>17. CASE BeginDelete(r)
  <2>1. image' = image
    BY <1>17 DEF BeginDelete
  <2> QED BY <1>8, <1>9, <1>17, <2>1
<1> QED BY <1>10, <1>11, <1>12, <1>13, <1>14, <1>15, <1>16, <1>17 DEF Begin

\* A request that has looked the application up.
LEMMA LookupMoves ==
  ASSUME TypeOK, NEW r \in Req, LookupApp(r)
  PROVE  \E new : /\ Become(r, new)
                  /\ IF app # None
                     THEN /\ Keeps(req[r], new) /\ new.pc = "load" /\ new.area = "env"
                          /\ new.phase = req[r].phase
                          /\ new.redeploy = ((req[r].phase = "deploy") /\ image)
                     ELSE new = Idle
<1>1. CASE app # None
  <2> DEFINE new == [Read(r, "env", req[r].phase) EXCEPT
                       !.redeploy = (req[r].phase = "deploy") /\ image]
  <2>1. Become(r, new)
    BY <1>1 DEF LookupApp
  <2>2. /\ Keeps(req[r], new) /\ new.pc = "load" /\ new.area = "env"
        /\ new.phase = req[r].phase /\ new.redeploy = ((req[r].phase = "deploy") /\ image)
    BY RequestTypes DEF Read, Keeps, Fits, Request
  <2> HIDE DEF new
  <2> QED BY <1>1, <2>1, <2>2
<1>2. CASE app = None
  BY <1>2 DEF LookupApp, End
<1> QED BY <1>1, <1>2

\* A request that moves on with all that it holds.
Stays(q, new) ==
  /\ Keeps(q, new) /\ new.phase = q.phase /\ new.area = q.area /\ new.redeploy = q.redeploy
  /\ new.copy = q.copy /\ new.env = q.env /\ new.conf = q.conf

\* A request that has read who is to own the secret that it creates.
LEMMA OwnerMoves ==
  ASSUME TypeOK, NEW r \in Req, ReadOwner(r)
  PROVE  \E new : /\ Become(r, new)
                  /\ IF app # None
                     THEN Stays(req[r], new) /\ new.pc = "make" /\ new.owner = app
                     ELSE new = Idle
<1>1. CASE app # None
  <2> DEFINE new == [req[r] EXCEPT !.pc = "make", !.owner = app]
  <2>1. Become(r, new)
    BY <1>1 DEF ReadOwner
  <2>2. Stays(req[r], new) /\ new.pc = "make" /\ new.owner = app
    BY RequestTypes DEF Stays, Keeps, Fits, Request
  <2> HIDE DEF new
  <2> QED BY <1>1, <2>1, <2>2
<1>2. CASE app = None
  BY <1>2 DEF ReadOwner, End
<1> QED BY <1>1, <1>2

\* A request that has loaded a secret, or created it.
LEMMA LoadedMoves ==
  ASSUME TypeOK, NEW r \in Req, Shape(req[r]), req[r].pc \in Loading, NEW d,
         NEW versioned, Loaded(r, d, versioned)
  PROVE  \E new :
           /\ Become(r, new) /\ Keeps(req[r], new) /\ new.phase = req[r].phase
           /\ new.redeploy = req[r].redeploy
           /\ \/ /\ req[r].phase \in {"first", "deploy"} /\ req[r].area = "env"
                 /\ new.pc = "load" /\ new.area = "conf"
                 /\ req[r].phase = "deploy" => new.env = d
              \/ req[r].phase = "first" /\ req[r].area = "conf" /\ new.pc = "state"
              \/ req[r].phase = "known" /\ new.pc = "exist"
              \/ /\ req[r].phase = "deploy" /\ req[r].area = "conf"
                 /\ new.pc = "bound" /\ new.area = "conf" /\ new.env = req[r].env
                 /\ new.conf = d
              \/ /\ req[r].phase = "update"
                 /\ new.pc = "write" /\ new.area = req[r].area /\ new.copy = d
<1> DEFINE q == req[r]
<1>q. q \in Request
  BY RequestTypes DEF Fits
<1>p. q.phase \in {"first", "known", "update", "deploy"} /\ q.area \in {"env", "conf"}
  BY <1>q DEF Shape, Loading, Request, Phases, Area
<1>1. CASE q.phase = "first" /\ q.area = "env"
  <2> DEFINE new == Read(r, "conf", "first")
  <2>1. Become(r, new)
    BY <1>1 DEF Loaded
  <2>2. /\ Keeps(q, new) /\ new.phase = "first" /\ new.redeploy = q.redeploy
        /\ new.pc = "load" /\ new.area = "conf"
    BY <1>q DEF Read, Keeps, Request
  <2> HIDE DEF new, q
  <2>3. q.phase # "deploy"
    BY <1>1
  <2> QED BY <1>1, <2>1, <2>2, <2>3 DEF q
<1>2. CASE q.phase = "first" /\ q.area = "conf"
  <2> DEFINE new == [q EXCEPT !.pc = "state"]
  <2>1. Become(r, new)
    BY <1>2 DEF Loaded
  <2>2. /\ Keeps(q, new) /\ new.phase = q.phase /\ new.redeploy = q.redeploy
        /\ new.pc = "state"
    BY <1>q DEF Keeps, Request
  <2> HIDE DEF new
  <2> QED BY <1>2, <2>1, <2>2
<1>3. CASE q.phase = "known"
  <2> DEFINE new == [q EXCEPT !.pc = "exist", !.conf = d]
  <2>1. Become(r, new)
    BY <1>3 DEF Loaded
  <2>2. /\ Keeps(q, new) /\ new.phase = q.phase /\ new.redeploy = q.redeploy
        /\ new.pc = "exist"
    BY <1>q DEF Keeps, Request
  <2> HIDE DEF new
  <2> QED BY <1>3, <2>1, <2>2
<1>4. CASE q.phase = "deploy" /\ q.area = "env"
  <2> DEFINE new == [Read(r, "conf", "deploy") EXCEPT !.env = d]
  <2>1. Become(r, new)
    BY <1>4 DEF Loaded
  <2>2. /\ Keeps(q, new) /\ new.phase = "deploy" /\ new.redeploy = q.redeploy
        /\ new.pc = "load" /\ new.area = "conf" /\ new.env = d
    BY <1>q DEF Read, Keeps, Request
  <2> HIDE DEF new
  <2> QED BY <1>4, <2>1, <2>2
<1>5. CASE q.phase = "deploy" /\ q.area = "conf"
  <2> DEFINE new == [q EXCEPT !.pc = "bound", !.conf = d]
  <2>1. Become(r, new)
    BY <1>5 DEF Loaded
  <2>2. /\ Keeps(q, new) /\ new.phase = q.phase /\ new.redeploy = q.redeploy
        /\ new.pc = "bound" /\ new.area = q.area /\ new.env = q.env /\ new.conf = d
    BY <1>q DEF Keeps, Request
  <2> HIDE DEF new
  <2> QED BY <1>5, <2>1, <2>2
<1>6. CASE q.phase = "update"
  <2> DEFINE new == [q EXCEPT !.pc = "write", !.copy = d, !.versioned = versioned]
  <2>1. Become(r, new)
    BY <1>6 DEF Loaded
  <2>2. /\ Keeps(q, new) /\ new.phase = q.phase /\ new.redeploy = q.redeploy
        /\ new.pc = "write" /\ new.area = q.area /\ new.copy = d
    BY <1>q DEF Keeps, Request
  <2> HIDE DEF new
  <2> QED BY <1>6, <2>1, <2>2
<1> QED BY <1>p, <1>1, <1>2, <1>3, <1>4, <1>5, <1>6

\* A request that has found out whether the workload runs.
LEMMA StateMoves ==
  ASSUME TypeOK, LocalInv, NEW r \in Req, ReadState(r)
  PROVE  \E new :
           /\ Become(r, new) /\ Keeps(req[r], new) /\ new.pc = "load" /\ new.copy = {}
           /\ req[r].op # "update" => new.redeploy = (workload.running /\ ~staging)
           /\ IF req[r].op = "bind" THEN new.phase = "known"
              ELSE /\ new.phase = "update"
                   /\ new.area = "conf" => req[r].op # "update"
<1> DEFINE q == req[r]
<1>q. /\ q \in Request /\ Shape(q) /\ PlanShape(q) /\ q.pc = "state" /\ q.copy = {}
  BY RequestTypes DEF LocalInv, Local, Shape, Fits, ReadState, At
<1>1. PICK redeploy \in BOOLEAN :
        /\ q.op # "update" => redeploy = (workload.running /\ ~staging)
        /\ Become(r, IF q.op = "bind"
                     THEN [Read(r, "conf", "known") EXCEPT !.redeploy = redeploy]
                     ELSE [Read(r, FirstArea(r), "update") EXCEPT !.redeploy = redeploy])
  <2>1. (workload.running /\ ~staging) \in BOOLEAN
    OBVIOUS
  <2> QED BY <2>1 DEF ReadState
<1>2. CASE q.op = "bind"
  <2> DEFINE new == [Read(r, "conf", "known") EXCEPT !.redeploy = redeploy]
  <2>1. /\ Keeps(q, new) /\ new.pc = "load" /\ new.phase = "known"
        /\ new.redeploy = redeploy /\ new.copy = {}
    BY <1>q DEF Read, Keeps, Request
  <2>2. Become(r, new)
    BY <1>1, <1>2
  <2> HIDE DEF new
  <2> QED BY <1>1, <1>2, <2>1, <2>2
<1>3. CASE q.op # "bind"
  <2> DEFINE a == FirstArea(r)
             new == [Read(r, a, "update") EXCEPT !.redeploy = redeploy]
  <2>1. q.op = "update" => a = "env"
    BY <1>q DEF Shape, PlanShape, FirstArea
  <2>2. Become(r, new)
    BY <1>1, <1>3
  <2> HIDE DEF a
  <2>3. /\ Keeps(q, new) /\ new.pc = "load" /\ new.phase = "update" /\ new.area = a
        /\ new.redeploy = redeploy /\ new.copy = {}
    BY <1>q DEF Read, Keeps, Request
  <2> HIDE DEF new
  <2> QED BY <1>1, <1>3, <2>1, <2>2, <2>3
<1> QED BY <1>2, <1>3

\* A request that has checked the configurations to be bound.
LEMMA CheckMoves ==
  ASSUME TypeOK, LocalInv, NEW r \in Req, CheckConfigurations(r)
  PROVE  \E new :
           /\ Become(r, new)
           /\ \/ new = Idle
              \/ /\ req[r].target \subseteq config /\ req[r].op \in {"bind", "update"}
                 /\ Keeps(req[r], new) /\ new.pc = "load" /\ new.copy = {}
                 /\ new.phase = "update" /\ new.area = "conf"
                 /\ new.redeploy = req[r].redeploy
                 /\ req[r].phase \in {"known", "update"}
<1> DEFINE q == req[r]
<1>q. /\ q \in Request /\ q.copy = {} /\ q.op \in {"bind", "update"}
      /\ q.phase \in {"known", "update"}
  BY RequestTypes DEF LocalInv, Local, Shape, Fits, CheckConfigurations, At
<1>1. \/ Become(r, Idle)
      \/ q.target \subseteq config /\ Become(r, [Read(r, "conf", "update") EXCEPT !.conf = {}])
  BY DEF CheckConfigurations, End
<1>2. CASE q.target \subseteq config /\ Become(r, [Read(r, "conf", "update") EXCEPT !.conf = {}])
  <2> DEFINE new == [Read(r, "conf", "update") EXCEPT !.conf = {}]
  <2>1. /\ Keeps(q, new) /\ new.pc = "load" /\ new.phase = "update" /\ new.area = "conf"
        /\ new.copy = {} /\ new.redeploy = q.redeploy
    BY <1>q DEF Read, Keeps, Request
  <2>2. Become(r, new)
    BY <1>2
  <2> HIDE DEF new
  <2> QED BY <1>q, <1>2, <2>1, <2>2
<1> QED BY <1>1, <1>2

\* A request that has made a change: the next one, or else the deployment.
LEMMA AfterWriteMoves ==
  ASSUME TypeOK, LocalInv, NEW r \in Req, req[r].pc = "write", AfterWrite(r)
  PROVE  \E new :
           /\ Become(r, new)
           /\ \/ new = Idle /\ ~req[r].redeploy
              \/ /\ new.op = req[r].op /\ new.target = req[r].target
                 /\ new.plan = [req[r].plan EXCEPT ![req[r].area] = NoChange]
                 /\ \/ /\ new.pc = "exist" /\ new.op = "update" /\ new.phase = "update"
                       /\ new.redeploy = req[r].redeploy
                    \/ /\ new.pc = "load" /\ new.phase = "update" /\ new.area = "env"
                       /\ new.op = "create" /\ new.redeploy = req[r].redeploy
                    \/ /\ new.pc = "lookup" /\ new.phase = "deploy" /\ req[r].redeploy
                       /\ new.plan = NoPlan
                    \/ /\ new.pc = "drop" /\ new.phase = "update" /\ new.op = "delconf"
                       /\ ~req[r].redeploy /\ new.redeploy = req[r].redeploy
<1> DEFINE old == req[r]
           plan == [old.plan EXCEPT ![old.area] = NoChange]
           q == [old EXCEPT !.plan[old.area] = NoChange, !.copy = {}, !.versioned = FALSE,
                            !.owner = None, !.tries = 0]
<1>q. /\ old \in Request /\ Shape(old) /\ PlanShape(old) /\ old.phase = "update"
      /\ old.pc = "write" /\ old.area \in {"env", "conf"} /\ old.plan \in [Area -> Change]
  BY RequestTypes DEF LocalInv, Local, Shape, Fits, Area, Plan
<1>1. /\ q \in Request /\ q.plan = plan /\ q.op = old.op /\ q.target = old.target
      /\ q.redeploy = old.redeploy /\ q.phase = "update" /\ q.area = old.area
  <2>1. plan \in Plan
    BY <1>q, ConstantTypes DEF Plan
  <2> QED BY <1>q, <2>1 DEF Request
<1>2. old.op \notin {"update", "create"} => plan = NoPlan
  <2>1. old.plan[old.area] # NoChange
    BY <1>q DEF PlanShape
  <2>2. old.op \notin {"update", "create"} => \A a \in Area : plan[a] = NoChange
    BY <1>q, <2>1 DEF PlanShape, Area
  <2> QED BY <1>q, <2>2 DEF NoPlan
<1>3. old.redeploy \in BOOLEAN
  BY <1>q DEF Request
<1>4. \/ q.op = "update" /\ Become(r, [q EXCEPT !.pc = "exist"])
      \/ q.op = "create" /\ Become(r, [q EXCEPT !.pc = "load", !.area = "env"])
      \/ /\ q.plan = NoPlan /\ q.redeploy
         /\ Become(r, [q EXCEPT !.pc = "lookup", !.phase = "deploy", !.redeploy = FALSE])
      \/ ~q.redeploy /\ q.op = "delconf" /\ Become(r, [q EXCEPT !.pc = "drop"])
      \/ /\ Become(r, Idle) /\ ~(q.plan # NoPlan /\ q.op \in {"update", "create"})
         /\ ~(q.plan = NoPlan /\ q.redeploy)
  BY DEF AfterWrite, End
<1> HIDE DEF q, plan
<1>5. CASE q.op = "update" /\ Become(r, [q EXCEPT !.pc = "exist"])
  <2> DEFINE new == [q EXCEPT !.pc = "exist"]
  <2>1. /\ new.op = q.op /\ new.target = q.target /\ new.plan = q.plan /\ new.pc = "exist"
        /\ new.phase = q.phase /\ new.redeploy = q.redeploy
    BY <1>1 DEF Request
  <2>2. Become(r, new)
    BY <1>5
  <2> HIDE DEF new
  <2> QED BY <1>1, <1>5, <2>1, <2>2 DEF plan
<1>6. CASE q.op = "create" /\ Become(r, [q EXCEPT !.pc = "load", !.area = "env"])
  <2> DEFINE new == [q EXCEPT !.pc = "load", !.area = "env"]
  <2>1. /\ new.op = q.op /\ new.target = q.target /\ new.plan = q.plan /\ new.pc = "load"
        /\ new.phase = q.phase /\ new.redeploy = q.redeploy /\ new.area = "env"
    BY <1>1 DEF Request
  <2>2. Become(r, new)
    BY <1>6
  <2> HIDE DEF new
  <2> QED BY <1>1, <1>6, <2>1, <2>2 DEF plan
<1>7. CASE /\ q.plan = NoPlan /\ q.redeploy
           /\ Become(r, [q EXCEPT !.pc = "lookup", !.phase = "deploy", !.redeploy = FALSE])
  <2> DEFINE new == [q EXCEPT !.pc = "lookup", !.phase = "deploy", !.redeploy = FALSE]
  <2>1. /\ new.op = q.op /\ new.target = q.target /\ new.plan = q.plan /\ new.pc = "lookup"
        /\ new.phase = "deploy"
    BY <1>1 DEF Request
  <2>2. Become(r, new)
    BY <1>7
  <2> HIDE DEF new
  <2>3. /\ new.op = req[r].op /\ new.target = req[r].target /\ req[r].redeploy
        /\ new.plan = [req[r].plan EXCEPT ![req[r].area] = NoChange]
        /\ new.plan = NoPlan
    BY <1>1, <1>7, <2>1 DEF plan
  <2> QED BY <2>1, <2>2, <2>3
<1>8. CASE ~q.redeploy /\ q.op = "delconf" /\ Become(r, [q EXCEPT !.pc = "drop"])
  <2> DEFINE new == [q EXCEPT !.pc = "drop"]
  <2>1. /\ new.op = q.op /\ new.target = q.target /\ new.plan = q.plan /\ new.pc = "drop"
        /\ new.phase = q.phase /\ new.redeploy = q.redeploy
    BY <1>1 DEF Request
  <2>2. Become(r, new)
    BY <1>8
  <2> HIDE DEF new
  <2> QED BY <1>1, <1>8, <2>1, <2>2 DEF plan
<1>9. CASE /\ Become(r, Idle) /\ ~(q.plan # NoPlan /\ q.op \in {"update", "create"})
           /\ ~(q.plan = NoPlan /\ q.redeploy)
  <2>1. ~old.redeploy
    BY <1>1, <1>2, <1>9
  <2> QED BY <1>9, <2>1
<1> QED BY <1>4, <1>5, <1>6, <1>7, <1>8, <1>9

\* A request that has found the configurations of a deployment.
LEMMA BoundMoves ==
  ASSUME TypeOK, NEW r \in Req, LookupBound(r)
  PROVE  \E new :
           /\ Become(r, new)
           /\ IF req[r].redeploy /\ req[r].conf \subseteq config
              THEN /\ Keeps(req[r], new) /\ new.pc = "helm" /\ new.phase = req[r].phase
                   /\ new.area = req[r].area /\ new.env = req[r].env /\ new.conf = req[r].conf
              ELSE new = Idle
<1>1. CASE req[r].redeploy /\ req[r].conf \subseteq config
  <2> DEFINE new == [req[r] EXCEPT !.pc = "helm", !.redeploy = FALSE]
  <2>1. Become(r, new)
    BY <1>1 DEF LookupBound
  <2>2. /\ Keeps(req[r], new) /\ new.pc = "helm" /\ new.phase = req[r].phase
        /\ new.area = req[r].area /\ new.env = req[r].env /\ new.conf = req[r].conf
    BY RequestTypes DEF Keeps, Fits, Request
  <2> HIDE DEF new
  <2> QED BY <1>1, <2>1, <2>2
<1>2. CASE ~(req[r].redeploy /\ req[r].conf \subseteq config)
  BY <1>2 DEF LookupBound, End
<1> QED BY <1>1, <1>2

\* A request that has deployed the workload.
LEMMA HelmMoves ==
  ASSUME TypeOK, NEW r \in Req, HelmDeploy(r)
  PROVE  \E new :
           /\ Become(r, new)
           /\ \/ new = Idle
              \/ /\ Keeps(req[r], new) /\ new.pc = "drop" /\ new.phase = req[r].phase
                 /\ req[r].op = "delconf"
<1>1. CASE req[r].op = "delconf"
  <2> DEFINE new == [req[r] EXCEPT !.pc = "drop", !.env = {}, !.conf = {}]
  <2>1. Become(r, new)
    BY <1>1 DEF HelmDeploy
  <2>2. Keeps(req[r], new) /\ new.pc = "drop" /\ new.phase = req[r].phase
    BY RequestTypes DEF Keeps, Fits, Request
  <2> HIDE DEF new
  <2> QED BY <1>1, <2>1, <2>2
<1>2. CASE req[r].op # "delconf"
  BY <1>2 DEF HelmDeploy, End
<1> QED BY <1>1, <1>2

\* A request that has looked for the bindings of the configuration it deletes.
LEMMA ListMoves ==
  ASSUME TypeOK, NEW r \in Req, ListBound(r)
  PROVE  \E new :
           /\ Become(r, new)
           /\ \/ new = Idle
              \/ /\ ~(There("conf") /\ req[r].target \subseteq secret["conf"].data)
                 /\ Keeps(req[r], new) /\ new.pc = "drop" /\ new.phase = req[r].phase
              \/ /\ new.op = req[r].op /\ new.target = req[r].target
                 /\ new.pc = "lookup" /\ new.phase = "first"
                 /\ new.plan["env"] = NoChange
                 /\ new.plan["conf"] = [mode |-> "remove", keys |-> req[r].target]
<1> DEFINE q == req[r]
<1>q. q \in Request
  BY RequestTypes DEF Fits
<1>1. \/ Become(r, Idle)
      \/ /\ ~(There("conf") /\ q.target \subseteq secret["conf"].data)
         /\ Become(r, [q EXCEPT !.pc = "drop"])
      \/ Become(r, [q EXCEPT !.pc = "lookup", !.phase = "first",
                             !.plan = PlanFor("conf", "remove", q.target)])
  BY DEF ListBound, End
<1>2. CASE /\ ~(There("conf") /\ q.target \subseteq secret["conf"].data)
           /\ Become(r, [q EXCEPT !.pc = "drop"])
  <2> DEFINE new == [q EXCEPT !.pc = "drop"]
  <2>1. Keeps(q, new) /\ new.pc = "drop" /\ new.phase = q.phase
    BY <1>q DEF Keeps, Request
  <2>2. Become(r, new)
    BY <1>2
  <2> HIDE DEF new
  <2> QED BY <1>2, <2>1, <2>2
<1>3. CASE Become(r, [q EXCEPT !.pc = "lookup", !.phase = "first",
                               !.plan = PlanFor("conf", "remove", q.target)])
  <2> DEFINE plan == PlanFor("conf", "remove", q.target)
             new == [q EXCEPT !.pc = "lookup", !.phase = "first", !.plan = plan]
  <2>1. plan["env"] = NoChange /\ plan["conf"] = [mode |-> "remove", keys |-> q.target]
    BY DEF PlanFor, NoPlan, Area
  <2>2. Become(r, new)
    BY <1>3
  <2> HIDE DEF plan
  <2>3. /\ new.op = q.op /\ new.target = q.target /\ new.pc = "lookup"
        /\ new.phase = "first" /\ new.plan = plan
    BY <1>q DEF Request
  <2> HIDE DEF new
  <2> QED BY <2>1, <2>2, <2>3
<1> QED BY <1>1, <1>2, <1>3

\* A request that has created the application.
LEMMA CreateMoves ==
  ASSUME TypeOK, LocalInv, NEW r \in Req, CreateApp(r)
  PROVE  \E new :
           /\ Become(r, new)
           /\ IF app = None
              THEN /\ app' \in Uid /\ req[r].op = "create" /\ ~req[r].redeploy
                   /\ Keeps(req[r], new) /\ new.pc = "load" /\ new.phase = "update"
                   /\ new.area = "conf" /\ new.redeploy = req[r].redeploy
              ELSE new = Idle /\ app' = app
<1>1. CASE app = None
  <2> DEFINE new == Read(r, "conf", "update")
  <2>1. Become(r, new) /\ app' \in Uid
    BY <1>1 DEF CreateApp
  <2>2. /\ Keeps(req[r], new) /\ new.pc = "load" /\ new.phase = "update"
        /\ new.area = "conf" /\ new.redeploy = req[r].redeploy
    BY RequestTypes DEF Read, Keeps, Fits, Request
  <2>3. req[r].op = "create" /\ ~req[r].redeploy
    BY DEF LocalInv, Local, Shape, PlanShape, CreateApp, At
  <2> HIDE DEF new
  <2> QED BY <1>1, <2>1, <2>2, <2>3
<1>2. CASE app # None
  BY <1>2 DEF CreateApp, End
<1> QED BY <1>1, <1>2

\* A request that has removed the workload.
LEMMA RemoveMoves ==
  ASSUME TypeOK, NEW r \in Req, RemoveWorkload(r)
  PROVE  \E new : Become(r, new) /\ Stays(req[r], new) /\ new.pc = "delcr"
<1> DEFINE new == [req[r] EXCEPT !.pc = "delcr"]
<1>1. Become(r, new)
  BY DEF RemoveWorkload
<1>2. Stays(req[r], new) /\ new.pc = "delcr"
  BY RequestTypes DEF Stays, Keeps, Fits, Request
<1> HIDE DEF new
<1> QED BY <1>1, <1>2

\* A request that loads a secret, and one that finds none.
LEMMA LoadMoves ==
  ASSUME TypeOK, NEW r \in Req, LoadSecret(r), ~There(req[r].area)
  PROVE  \E new : Become(r, new) /\ Stays(req[r], new) /\ new.pc = "owner"
<1> DEFINE new == [req[r] EXCEPT !.pc = "owner"]
<1>1. Become(r, new)
  BY DEF LoadSecret
<1>2. Stays(req[r], new) /\ new.pc = "owner"
  BY RequestTypes DEF Stays, Keeps, Fits, Request
<1> HIDE DEF new
<1> QED BY <1>1, <1>2

\* A change is not made when there was a conflict, or the secret is gone.
Refused(r) ==
  /\ UNCHANGED secret
  /\ \E new :
       /\ Become(r, new)
       /\ \/ new = Idle
          \/ /\ Keeps(req[r], new) /\ new.pc = "load" /\ new.area = req[r].area
             /\ new.phase = "update" /\ new.redeploy = req[r].redeploy

Written(r) ==
  /\ There(req[r].area) /\ AfterWrite(r)
  /\ secret' = [secret EXCEPT ![req[r].area].data =
                                 Modify(req[r].plan[req[r].area], req[r].copy)]

\* A write makes the change, or is refused.
LEMMA WriteMoves ==
  ASSUME TypeOK, NEW r \in Req, WriteSecret(r)
  PROVE  Written(r) \/ Refused(r)
<1> DEFINE new == [Read(r, req[r].area, "update") EXCEPT !.tries = @ + 1, !.copy = {},
                                                         !.versioned = FALSE]
<1>1. Written(r) \/ (UNCHANGED secret /\ (Become(r, Idle) \/ Become(r, new)))
  BY DEF WriteSecret, Written, End
<1>2. /\ Keeps(req[r], new) /\ new.pc = "load" /\ new.area = req[r].area
      /\ new.phase = "update" /\ new.redeploy = req[r].redeploy
  BY RequestTypes DEF Read, Keeps, Fits, Request
<1> HIDE DEF new
<1> QED BY <1>1, <1>2 DEF Refused
-----------------------------------------------------------------------------
(* What requests are about *)

\* A request that ends has no aim left.
LEMMA IdleAims == Aims(Idle)
BY DEF Aims, Idle, NoPlan, NoChange, Area

\* A request that keeps what it is about keeps its aim.
LEMMA AimKept ==
  ASSUME NEW q, NEW new, Aims(q), Keeps(q, new), new.pc \notin {"drop", "bound", "helm"}
  PROVE  Aims(new)
BY DEF Aims, Keeps

\* It is enough that the request which moves has its aim.
LEMMA AimBecome ==
  ASSUME TypeOK, AimInv, NEW r \in Req, NEW new, Become(r, new), Aims(new)
  PROVE  AimInv'
BY DEF TypeOK, AimInv, Become

\* A request that has loaded a secret keeps its aim.
LEMMA LoadedAims ==
  ASSUME TypeOK, LocalInv, AimInv, NEW r \in Req, req[r].pc \in Loading,
         NEW d, NEW versioned, Loaded(r, d, versioned)
  PROVE  AimInv'
<1>1. Shape(req[r]) /\ Aims(req[r])
  BY DEF LocalInv, Local, AimInv
<1>2. PICK new : /\ Become(r, new) /\ Keeps(req[r], new) /\ new.phase = req[r].phase
                 /\ \/ new.pc \in {"load", "state", "exist", "write"}
                    \/ new.pc = "bound" /\ req[r].phase = "deploy"
  BY <1>1, LoadedMoves
<1>3. Aims(new)
  BY <1>1, <1>2 DEF Aims, Keeps
<1> QED BY <1>2, <1>3, AimBecome

\* Every step keeps the aims of the requests.
LEMMA AimStep ==
  ASSUME TypeOK, LocalInv, AimInv, [Next]_vars
  PROVE  AimInv'
<1>n. NoPlan["env"] = NoChange /\ NoPlan["conf"] = NoChange /\ NoChange.mode = "none"
  BY DEF NoPlan, NoChange, Area
<1>i. ASSUME NEW r \in Req, Become(r, Idle) PROVE AimInv'
  BY <1>i, IdleAims, AimBecome
<1>k. ASSUME NEW r \in Req, NEW new, Become(r, new), Keeps(req[r], new),
             new.pc \notin {"drop", "bound", "helm"}
      PROVE  AimInv'
  <2>1. Aims(req[r])
    BY DEF AimInv
  <2>2. Aims(new)
    BY <1>k, <2>1, AimKept
  <2> QED BY <1>k, <2>2, AimBecome
<1>1. ASSUME NEW r \in Req, Begin(r) PROVE AimInv'
  <2>1. PICK new :
          /\ Become(r, new) /\ new.pc \notin {"drop", "bound", "helm"}
          /\ \/ new.op = "create"
             \/ /\ new.op \in {"bind", "update"} /\ new.plan["conf"].keys = new.target
                /\ new.plan["conf"].mode \in {"add", "replace"}
             \/ new.op \in {"set", "unbind"} /\ new.plan["conf"].mode \in {"none", "remove"}
             \/ new.op \in {"deploy", "delete"} /\ new.plan = NoPlan
             \/ /\ new.op = "delconf" /\ new.plan = NoPlan
                /\ \E c \in Config : new.target = {c}
    BY <1>1, BeginMoves
  <2>2. Aims(new)
    BY <1>n, <2>1 DEF Aims
  <2> QED BY <2>1, <2>2, AimBecome
<1>2. ASSUME NEW r \in Req, LookupApp(r) PROVE AimInv'
  <2>1. PICK new : /\ Become(r, new)
                   /\ new = Idle \/ (Keeps(req[r], new) /\ new.pc = "load")
    BY <1>2, LookupMoves
  <2> QED BY <2>1, <1>i, <1>k
<1>3. ASSUME NEW r \in Req, LoadSecret(r) PROVE AimInv'
  <2>1. CASE There(req[r].area)
    BY <1>3, <2>1, LoadedAims DEF LoadSecret, Loading, At
  <2>2. CASE ~There(req[r].area)
    <3>1. PICK new : Become(r, new) /\ Stays(req[r], new) /\ new.pc = "owner"
      BY <1>3, <2>2, LoadMoves
    <3> QED BY <3>1, <1>k DEF Stays
  <2> QED BY <2>1, <2>2
<1>4. ASSUME NEW r \in Req, ReadOwner(r) PROVE AimInv'
  <2>1. PICK new : /\ Become(r, new)
                   /\ new = Idle \/ (Stays(req[r], new) /\ new.pc = "make")
    BY <1>4, OwnerMoves
  <2> QED BY <2>1, <1>i, <1>k DEF Stays
<1>5. ASSUME NEW r \in Req, MakeSecret(r) PROVE AimInv'
  <2>1. Become(r, Idle) \/ Loaded(r, {}, FALSE)
    BY <1>5 DEF MakeSecret, End
  <2>2. req[r].pc \in Loading
    BY <1>5 DEF MakeSecret, Loading, At
  <2> QED BY <2>1, <2>2, <1>i, LoadedAims
<1>6. ASSUME NEW r \in Req, ReadState(r) PROVE AimInv'
  <2>1. PICK new : Become(r, new) /\ Keeps(req[r], new) /\ new.pc = "load"
    BY <1>6, StateMoves
  <2> QED BY <2>1, <1>k
<1>7. ASSUME NEW r \in Req, CheckConfigurations(r) PROVE AimInv'
  <2>1. PICK new : /\ Become(r, new)
                   /\ new = Idle \/ (Keeps(req[r], new) /\ new.pc = "load")
    BY <1>7, CheckMoves
  <2> QED BY <2>1, <1>i, <1>k
<1>8. ASSUME NEW r \in Req, WriteSecret(r) PROVE AimInv'
  <2>1. CASE AfterWrite(r)
    <3>1. req[r].pc = "write" /\ Aims(req[r]) /\ req[r].plan \in [Area -> Change]
      BY <1>8, RequestTypes DEF WriteSecret, At, AimInv, Plan
    <3>2. PICK new :
            /\ Become(r, new)
            /\ \/ new = Idle
               \/ /\ new.op = req[r].op /\ new.target = req[r].target
                  /\ new.plan = [req[r].plan EXCEPT ![req[r].area] = NoChange]
                  /\ new.pc \in {"exist", "load", "lookup"} \/ new.op = "delconf"
                  /\ new.pc \notin {"bound", "helm"}
      BY <2>1, <3>1, AfterWriteMoves
    <3>3. CASE new = Idle
      BY <3>2, <3>3, <1>i
    <3>4. CASE new # Idle
      <4>1. \A a \in Area : new.plan[a] \in {NoChange, req[r].plan[a]}
        BY <3>1, <3>2, <3>4
      <4>2. /\ new.plan["env"] \in {NoChange, req[r].plan["env"]}
            /\ new.plan["conf"] \in {NoChange, req[r].plan["conf"]}
        BY <4>1 DEF Area
      <4>3. Aims(new)
        BY <1>n, <3>1, <3>2, <3>4, <4>2 DEF Aims
      <4> QED BY <3>2, <4>3, AimBecome
    <3> QED BY <3>3, <3>4
  <2>2. CASE Refused(r)
    <3>1. PICK new : /\ Become(r, new)
                     /\ new = Idle \/ (Keeps(req[r], new) /\ new.pc = "load")
      BY <2>2 DEF Refused
    <3> QED BY <3>1, <1>i, <1>k
  <2> QED BY <1>8, <2>1, <2>2, WriteMoves DEF Written
<1>9. ASSUME NEW r \in Req, LookupBound(r) PROVE AimInv'
  <2>1. Aims(req[r]) /\ req[r].pc = "bound"
    BY <1>9 DEF AimInv, LookupBound, At
  <2>2. PICK new :
          /\ Become(r, new)
          /\ \/ new = Idle
             \/ Keeps(req[r], new) /\ new.pc = "helm" /\ new.phase = req[r].phase
    BY <1>9, BoundMoves
  <2>3. CASE new # Idle
    <3>1. Aims(new)
      BY <2>1, <2>2, <2>3 DEF Aims, Keeps
    <3> QED BY <2>2, <3>1, AimBecome
  <2> QED BY <2>2, <2>3, <1>i
<1>10. ASSUME NEW r \in Req, HelmDeploy(r) PROVE AimInv'
  <2>1. Aims(req[r])
    BY DEF AimInv
  <2>2. PICK new :
          /\ Become(r, new)
          /\ \/ new = Idle
             \/ Keeps(req[r], new) /\ new.pc = "drop" /\ req[r].op = "delconf"
    BY <1>10, HelmMoves
  <2>3. CASE new # Idle
    <3>1. Aims(new)
      BY <2>1, <2>2, <2>3 DEF Aims, Keeps
    <3> QED BY <2>2, <3>1, AimBecome
  <2> QED BY <2>2, <2>3, <1>i
<1>11. ASSUME NEW r \in Req, CreateApp(r) PROVE AimInv'
  <2>1. PICK new : /\ Become(r, new)
                   /\ new = Idle \/ (Keeps(req[r], new) /\ new.pc = "load")
    BY <1>11, CreateMoves
  <2> QED BY <2>1, <1>i, <1>k
<1>12. ASSUME NEW r \in Req, RemoveWorkload(r) PROVE AimInv'
  <2>1. PICK new : Become(r, new) /\ Stays(req[r], new) /\ new.pc = "delcr"
    BY <1>12, RemoveMoves
  <2> QED BY <2>1, <1>k DEF Stays
<1>13. ASSUME NEW r \in Req, ListBound(r) PROVE AimInv'
  <2>1. Aims(req[r]) /\ req[r].op = "delconf"
    BY <1>13 DEF AimInv, ListBound, At, LocalInv, Local, Shape
  <2>2. PICK new :
          /\ Become(r, new)
          /\ \/ new = Idle
             \/ Keeps(req[r], new) /\ new.pc = "drop"
             \/ /\ new.op = req[r].op /\ new.target = req[r].target
                /\ new.pc = "lookup" /\ new.plan["env"] = NoChange
                /\ new.plan["conf"] = [mode |-> "remove", keys |-> req[r].target]
    BY <1>13, ListMoves
  <2>3. CASE new # Idle
    <3>1. Aims(new)
      BY <2>1, <2>2, <2>3 DEF Aims, Keeps
    <3> QED BY <2>2, <3>1, AimBecome
  <2> QED BY <2>2, <2>3, <1>i
<1>14. ASSUME NEW r \in Req, DeleteApp(r) \/ DropConfiguration(r) \/ Fail(r) PROVE AimInv'
  BY <1>14, <1>i DEF DeleteApp, DropConfiguration, Fail, End
<1>15. CASE UNCHANGED req
  BY <1>15 DEF AimInv
<1>16. ASSUME Outside \/ UNCHANGED vars PROVE UNCHANGED req
  BY <1>16 DEF Outside, CreateConfiguration, StagingToggles, CollectSecret, vars
<1> QED
  BY <1>1, <1>2, <1>3, <1>4, <1>5, <1>6, <1>7, <1>8, <1>9, <1>10, <1>11, <1>12, <1>13,
     <1>14, <1>15, <1>16 DEF Next, Proceed
-----------------------------------------------------------------------------
(* Bindings exist, with one request at a time *)

\* It is enough that the request which moves is checked.
LEMMA BoundBecome ==
  ASSUME OneAtATime, TypeOK, NEW r \in Req, NEW new, Become(r, new), Checked(new)',
         BindingsExist', NothingMissing'
  PROVE  BoundInv'
BY DEF OneAtATime, TypeOK, BoundInv, Become, Checked, Writing, Loading

\* What is bound does not change with the state of the request.
LEMMA BoundSame ==
  ASSUME OneAtATime, TypeOK, BoundInv, NEW r \in Req, NEW new, Become(r, new), Checked(new),
         UNCHANGED <<secret, config>>
  PROVE  BoundInv'
<1>1. BindingsExist' /\ NothingMissing'
  BY DEF BoundInv, BindingsExist, NothingMissing, There
<1>2. Checked(new)'
  BY DEF Checked, Writing, Loading
<1> QED BY <1>1, <1>2, BoundBecome

\* A request that ends has nothing left to check.
LEMMA IdleChecked == Checked(Idle)
BY DEF Checked, Idle, Writing

\* A request that has loaded a secret, or created it, which holds only what exists.
LEMMA LoadedChecked ==
  ASSUME TypeOK, LocalInv, BoundInv, NEW r \in Req, req[r].pc \in Loading, NEW d,
         req[r].area = "conf" => d \subseteq config,
         NEW versioned, Loaded(r, d, versioned)
  PROVE  \E new : Become(r, new) /\ Checked(new)
<1>1. Shape(req[r]) /\ Checked(req[r])
  BY DEF LocalInv, Local, BoundInv
<1>2. PICK new :
        /\ Become(r, new) /\ Keeps(req[r], new) /\ new.phase = req[r].phase
        /\ \/ new.phase # "update" /\ new.pc \notin {"create", "drop"}
           \/ new.pc = "write" /\ new.area = req[r].area /\ new.copy = d
  BY <1>1, LoadedMoves
<1>3. Checked(new)
  BY <1>1, <1>2 DEF Checked, Writing, Keeps
<1> QED BY <1>2, <1>3

\* A change that is made leaves what exists, and what is to be dropped unbound.
LEMMA WriteBound ==
  ASSUME OneAtATime, TypeOK, LocalInv, AimInv, BoundInv, NEW r \in Req, WriteSecret(r),
         Written(r)
  PROVE  BoundInv'
<1> DEFINE q == req[r]
           change == q.plan[q.area]
<1>q. /\ q.pc = "write" /\ q.phase = "update" /\ q.area \in {"env", "conf"}
      /\ Shape(q) /\ PlanShape(q) /\ Aims(q) /\ Checked(q) /\ config' = config
      /\ change \in Change /\ change # NoChange /\ q.plan \in [Area -> Change]
      /\ secret \in [Area -> Secret]
  BY RequestTypes DEF WriteSecret, At, LocalInv, Local, Shape, PlanShape, AimInv, BoundInv,
                      Area, TypeOK, Plan
<1>m. change.mode \in {"add", "remove", "replace"}
  BY <1>q DEF Shape, Change, Area
<1>1. /\ secret'[q.area].data = Modify(change, q.copy)
      /\ \A a \in Area : a # q.area => secret'[a] = secret[a]
      /\ \A a \in Area : secret'[a].owner = secret[a].owner
  BY <1>q DEF Written, Area, Secret
<1>2. q.area = "conf" => Modify(change, q.copy) \subseteq config
  <2> SUFFICES ASSUME q.area = "conf" PROVE Modify(change, q.copy) \subseteq config
    OBVIOUS
  <2>1. /\ change.mode = "remove" \/ change.keys \subseteq config
        /\ q.copy \subseteq config
    BY <1>q DEF Checked, Writing, Loading
  <2> HIDE DEF change, q
  <2> QED BY <1>m, <2>1 DEF Modify
<1>3. BindingsExist'
  <2>1. CASE q.area = "conf"
    BY <1>q, <1>1, <1>2, <2>1 DEF BindingsExist
  <2>2. CASE q.area = "env"
    BY <1>q, <1>1, <2>2 DEF BoundInv, BindingsExist, Area
  <2> QED BY <1>q, <2>1, <2>2
<1>4. NothingMissing'
  <2> SUFFICES ASSUME NEW a \in Area, secret'[a].owner = None PROVE secret'[a].data = {}
    BY DEF NothingMissing, There
  <2>1. secret[a].owner = None /\ a # q.area
    BY <1>1 DEF Written, There
  <2> QED BY <1>1, <2>1 DEF BoundInv, NothingMissing, There
<1>5. q.op = "delconf" => q.target \cap secret'["conf"].data = {}
  <2> SUFFICES ASSUME q.op = "delconf" PROVE q.target \cap secret'["conf"].data = {}
    OBVIOUS
  <2>1. q.area = "conf" /\ change = [mode |-> "remove", keys |-> q.target]
    BY <1>q DEF Aims
  <2>2. secret'["conf"].data = q.copy \ q.target
    BY <1>1, <2>1 DEF Modify
  <2> QED BY <2>2
<1>6. PICK new :
        /\ Become(r, new)
        /\ \/ new = Idle
           \/ /\ new.op = q.op /\ new.target = q.target
              /\ \/ new.pc = "exist" /\ new.op = "update" /\ new.phase = "update"
                 \/ /\ new.pc = "load" /\ new.phase = "update" /\ new.area = "env"
                    /\ new.op = "create"
                 \/ new.pc = "lookup" /\ new.phase = "deploy"
                 \/ new.pc = "drop" /\ new.phase = "update"
  BY <1>q, AfterWriteMoves DEF Written
<1>7. Checked(new)'
  <2>1. CASE new = Idle
    BY <2>1 DEF Checked, Idle, Writing
  <2>2. CASE new # Idle
    <3> HIDE DEF q
    <3> QED BY <1>5, <1>6, <2>2 DEF Checked, Writing, Loading
  <2> QED BY <2>1, <2>2
<1> QED BY <1>3, <1>4, <1>6, <1>7, BoundBecome

\* Every step keeps it that what is bound exists.
LEMMA BoundStep ==
  ASSUME OneAtATime, TypeOK, LocalInv, AimInv, BoundInv, [Next]_vars
  PROVE  BoundInv'
<1>c. ASSUME NEW r \in Req
      PROVE  /\ Checked(req[r]) /\ Shape(req[r]) /\ PlanShape(req[r]) /\ Aims(req[r])
             /\ Become(r, Idle) /\ UNCHANGED <<secret, config>> => BoundInv'
  BY IdleChecked, BoundSame DEF BoundInv, LocalInv, Local, AimInv
<1>1. ASSUME NEW r \in Req, Begin(r) PROVE BoundInv'
  <2>1. UNCHANGED <<secret, config>>
    BY <1>1, BeginMoves
  <2>2. PICK new :
          /\ Become(r, new)
          /\ \/ /\ new.pc = "create" /\ new.op = "create"
                /\ new.plan["conf"].keys \subseteq config
             \/ /\ new.pc \in {"lookup", "list", "remove"}
                /\ new.phase = "deploy" => new.op = "deploy"
    BY <1>1, BeginMoves
  <2>3. Checked(new)
    BY <2>2 DEF Checked, Writing, Loading
  <2> QED BY <2>1, <2>2, <2>3, BoundSame
<1>2. ASSUME NEW r \in Req, LookupApp(r) PROVE BoundInv'
  <2>1. UNCHANGED <<secret, config>>
    BY <1>2 DEF LookupApp
  <2>2. PICK new :
          /\ Become(r, new)
          /\ \/ new = Idle
             \/ /\ Keeps(req[r], new) /\ new.pc = "load" /\ new.area = "env"
                /\ new.phase = req[r].phase
    BY <1>2, LookupMoves
  <2>3. Checked(new)
    BY <1>c, <2>2, IdleChecked DEF Checked, Writing, Keeps
  <2> QED BY <2>1, <2>2, <2>3, BoundSame
<1>3. ASSUME NEW r \in Req, LoadSecret(r) PROVE BoundInv'
  <2>1. UNCHANGED <<secret, config>> /\ req[r].pc \in Loading
    BY <1>3 DEF LoadSecret, Loading, At
  <2>2. CASE There(req[r].area)
    <3>1. Loaded(r, secret[req[r].area].data, TRUE)
      BY <1>3, <2>2 DEF LoadSecret
    <3>2. req[r].area = "conf" => secret[req[r].area].data \subseteq config
      BY DEF BoundInv, BindingsExist
    <3>3. PICK new : Become(r, new) /\ Checked(new)
      BY <2>1, <3>1, <3>2, LoadedChecked
    <3> QED BY <2>1, <3>3, BoundSame
  <2>3. CASE ~There(req[r].area)
    <3>1. PICK new : Become(r, new) /\ Stays(req[r], new) /\ new.pc = "owner"
      BY <1>3, <2>3, LoadMoves
    <3>2. Checked(new)
      BY <1>c, <2>1, <3>1 DEF Checked, Writing, Stays, Keeps
    <3> QED BY <2>1, <3>1, <3>2, BoundSame
  <2> QED BY <2>2, <2>3
<1>4. ASSUME NEW r \in Req, ReadOwner(r) PROVE BoundInv'
  <2>1. UNCHANGED <<secret, config>> /\ req[r].pc \in Loading
    BY <1>4 DEF ReadOwner, Loading, At
  <2>2. PICK new : Become(r, new) /\ (new = Idle \/ (Stays(req[r], new) /\ new.pc = "make"))
    BY <1>4, OwnerMoves
  <2>3. Checked(new)
    BY <1>c, <2>1, <2>2, IdleChecked DEF Checked, Writing, Stays, Keeps
  <2> QED BY <2>1, <2>2, <2>3, BoundSame
<1>5. ASSUME NEW r \in Req, MakeSecret(r) PROVE BoundInv'
  <2>1. req[r].pc \in Loading /\ config' = config /\ req[r].area \in Area
    BY <1>5, RequestTypes DEF MakeSecret, Loading, At
  <2>2. CASE There(req[r].area)
    BY <1>5, <1>c, <2>1, <2>2 DEF MakeSecret, End
  <2>3. CASE ~There(req[r].area)
    <3>1. /\ secret' = [secret EXCEPT ![req[r].area] = [owner |-> req[r].owner, data |-> {}]]
          /\ Loaded(r, {}, FALSE)
      BY <1>5, <2>3 DEF MakeSecret
    <3>2. secret[req[r].area].data = {}
      BY <2>1, <2>3 DEF BoundInv, NothingMissing
    <3>3. \A a \in Area : /\ secret'[a].data = secret[a].data
                          /\ a # req[r].area => secret'[a] = secret[a]
      BY <2>1, <3>1, <3>2 DEF TypeOK
    <3>4. PICK new : Become(r, new) /\ Checked(new)
      <4>1. {} \subseteq config
        OBVIOUS
      <4> QED BY <2>1, <3>1, <4>1, LoadedChecked
    <3>5. Checked(new)'
      BY <2>1, <3>3, <3>4 DEF Checked, Writing, Loading, Area
    <3>6. BindingsExist'
      BY <2>1, <3>3 DEF BoundInv, BindingsExist, Area
    <3>7. NothingMissing'
      BY <3>2, <3>3 DEF BoundInv, NothingMissing, There
    <3> QED BY <3>4, <3>5, <3>6, <3>7, BoundBecome
  <2> QED BY <2>2, <2>3
<1>6. ASSUME NEW r \in Req, ReadState(r) PROVE BoundInv'
  <2>1. UNCHANGED <<secret, config>>
    BY <1>6 DEF ReadState
  <2>2. PICK new :
          /\ Become(r, new) /\ Keeps(req[r], new) /\ new.pc = "load"
          /\ IF req[r].op = "bind" THEN new.phase = "known"
             ELSE new.phase = "update" /\ (new.area = "conf" => req[r].op # "update")
    BY <1>6, StateMoves
  <2>3. req[r].op # "create"
    BY <1>6, <1>c DEF ReadState, At, Shape
  <2>4. req[r].op \notin {"bind", "update"}
          => req[r].plan["conf"].mode = "remove" \/ req[r].plan["conf"].keys = {}
    BY <1>c, <2>3 DEF Aims, Shape, Area, NoChange
  <2>5. Checked(new)
    BY <2>2, <2>4 DEF Checked, Writing, Keeps
  <2> QED BY <2>1, <2>2, <2>5, BoundSame
<1>7. ASSUME NEW r \in Req, CheckConfigurations(r) PROVE BoundInv'
  <2>1. UNCHANGED <<secret, config>> /\ req[r].pc = "exist"
    BY <1>7 DEF CheckConfigurations, At
  <2>2. PICK new :
          /\ Become(r, new)
          /\ \/ new = Idle
             \/ /\ req[r].target \subseteq config /\ req[r].op \in {"bind", "update"}
                /\ Keeps(req[r], new) /\ new.pc = "load" /\ new.phase = "update"
    BY <1>7, CheckMoves
  <2>3. req[r].op \in {"bind", "update"} => req[r].plan["conf"].keys = req[r].target
    BY <1>c, <2>1 DEF Aims, PlanShape
  <2>4. Checked(new)
    <3>1. CASE new = Idle
      BY <3>1, IdleChecked
    <3>2. CASE new # Idle
      BY <2>2, <2>3, <3>2 DEF Checked, Writing, Keeps
    <3> QED BY <3>1, <3>2
  <2> QED BY <2>1, <2>2, <2>4, BoundSame
<1>8. ASSUME NEW r \in Req, WriteSecret(r) PROVE BoundInv'
  <2>1. CASE Written(r)
    BY <1>8, <2>1, WriteBound
  <2>2. CASE Refused(r)
    <3>1. UNCHANGED <<secret, config>> /\ req[r].pc = "write" /\ req[r].phase = "update"
      BY <1>8, <1>c, <2>2 DEF Refused, WriteSecret, At, Shape
    <3>2. PICK new :
            /\ Become(r, new)
            /\ \/ new = Idle
               \/ /\ Keeps(req[r], new) /\ new.pc = "load" /\ new.area = req[r].area
                  /\ new.phase = "update"
      BY <2>2 DEF Refused
    <3>3. Checked(new)
      BY <1>c, <3>1, <3>2, IdleChecked DEF Checked, Writing, Keeps
    <3> QED BY <3>1, <3>2, <3>3, BoundSame
  <2> QED BY <1>8, <2>1, <2>2, WriteMoves
<1>9. ASSUME NEW r \in Req, LookupBound(r) PROVE BoundInv'
  <2>1. UNCHANGED <<secret, config>>
    BY <1>9 DEF LookupBound
  <2>2. PICK new :
          /\ Become(r, new)
          /\ \/ new = Idle
             \/ Keeps(req[r], new) /\ new.pc = "helm" /\ new.phase = req[r].phase
    BY <1>9, BoundMoves
  <2>3. Checked(new)
    BY <1>c, <2>2, IdleChecked DEF Checked, Writing, Loading, Keeps
  <2> QED BY <2>1, <2>2, <2>3, BoundSame
<1>10. ASSUME NEW r \in Req, HelmDeploy(r) PROVE BoundInv'
  <2>1. UNCHANGED <<secret, config>> /\ req[r].pc = "helm"
    BY <1>10 DEF HelmDeploy, At
  <2>2. PICK new :
          /\ Become(r, new)
          /\ \/ new = Idle
             \/ Keeps(req[r], new) /\ new.pc = "drop" /\ new.phase = req[r].phase
    BY <1>10, HelmMoves
  <2>3. req[r].phase = "deploy"
    BY <1>c, <2>1 DEF Aims
  <2>4. Checked(new)
    BY <1>c, <2>2, <2>3, IdleChecked DEF Checked, Writing, Loading, Keeps
  <2> QED BY <2>1, <2>2, <2>4, BoundSame
<1>11. ASSUME NEW r \in Req, CreateApp(r) PROVE BoundInv'
  <2>1. UNCHANGED <<secret, config>> /\ req[r].pc = "create"
    BY <1>11 DEF CreateApp, At
  <2>2. PICK new :
          /\ Become(r, new)
          /\ \/ new = Idle
             \/ Keeps(req[r], new) /\ new.pc = "load" /\ new.phase = "update"
    BY <1>11, CreateMoves
  <2>3. Checked(new)
    BY <1>c, <2>1, <2>2, IdleChecked DEF Checked, Writing, Keeps
  <2> QED BY <2>1, <2>2, <2>3, BoundSame
<1>12. ASSUME NEW r \in Req, RemoveWorkload(r) PROVE BoundInv'
  <2>1. UNCHANGED <<secret, config>>
    BY <1>12 DEF RemoveWorkload
  <2>2. PICK new : Become(r, new) /\ Stays(req[r], new) /\ new.pc = "delcr"
    BY <1>12, RemoveMoves
  <2>3. Checked(new)
    BY <1>c, <2>2 DEF Checked, Writing, Loading, Stays, Keeps
  <2> QED BY <2>1, <2>2, <2>3, BoundSame
<1>13. ASSUME NEW r \in Req, ListBound(r) PROVE BoundInv'
  <2>1. /\ UNCHANGED <<secret, config>> /\ req[r].op = "delconf"
        /\ \E c \in Config : req[r].target = {c}
    BY <1>13, <1>c DEF ListBound, At, Shape, Aims
  <2>2. ~(There("conf") /\ req[r].target \subseteq secret["conf"].data)
          => req[r].target \cap secret["conf"].data = {}
    BY <2>1 DEF BoundInv, NothingMissing, Area
  <2>3. PICK new :
          /\ Become(r, new)
          /\ \/ new = Idle
             \/ /\ ~(There("conf") /\ req[r].target \subseteq secret["conf"].data)
                /\ Keeps(req[r], new) /\ new.pc = "drop" /\ new.phase = req[r].phase
             \/ new.pc = "lookup" /\ new.phase = "first"
    BY <1>13, ListMoves
  <2>4. Checked(new)
    BY <2>2, <2>3, IdleChecked DEF Checked, Writing, Loading, Keeps
  <2> QED BY <2>1, <2>3, <2>4, BoundSame
<1>14. ASSUME NEW r \in Req, DeleteApp(r) \/ Fail(r) PROVE BoundInv'
  BY <1>14, <1>c DEF DeleteApp, Fail, End
<1>15. ASSUME NEW r \in Req, DropConfiguration(r) PROVE BoundInv'
  <2>1. /\ req[r].target \cap secret["conf"].data = {} /\ Become(r, Idle)
        /\ secret' = secret /\ config' = config \ req[r].target
    BY <1>15, <1>c DEF DropConfiguration, At, Aims, Checked, End
  <2>2. BindingsExist'
    BY <2>1 DEF BoundInv, BindingsExist
  <2>3. NothingMissing'
    BY <2>1 DEF BoundInv, NothingMissing, There
  <2>4. \E new : Become(r, new) /\ Checked(new)'
    <3>1. PICK new : new = Idle
      OBVIOUS
    <3>2. Checked(new)'
      BY <3>1 DEF Checked, Idle, Writing
    <3> QED BY <2>1, <3>1, <3>2
  <2> QED BY <2>1, <2>2, <2>3, <2>4, BoundBecome
<1>16. ASSUME Outside PROVE BoundInv'
  <2>1. /\ UNCHANGED req /\ config \subseteq config'
        /\ \A a \in Area : \/ secret'[a] = secret[a]
                           \/ secret'[a].data = {}
    BY <1>16 DEF Outside, CreateConfiguration, StagingToggles, CollectSecret, NoSecret, TypeOK
  <2>2. BindingsExist'
    BY <2>1 DEF BoundInv, BindingsExist, Area
  <2>3. NothingMissing'
    BY <2>1 DEF BoundInv, NothingMissing, There
  <2>4. ASSUME NEW r \in Req PROVE Checked(req[r])'
    BY <1>c, <2>1 DEF Checked, Writing, Loading, Area
  <2> QED BY <2>2, <2>3, <2>4 DEF BoundInv
<1>17. ASSUME UNCHANGED vars PROVE BoundInv'
  BY <1>17 DEF vars, BoundInv, BindingsExist, NothingMissing, There, Checked
<1> QED
  BY <1>1, <1>2, <1>3, <1>4, <1>5, <1>6, <1>7, <1>8, <1>9, <1>10, <1>11, <1>12, <1>13,
     <1>14, <1>15, <1>16, <1>17 DEF Next, Proceed

\* Before any request nothing is bound.
LEMMA InitBound == Init => AimInv /\ BoundInv
<1> SUFFICES ASSUME Init PROVE AimInv /\ BoundInv
  OBVIOUS
<1>1. AimInv
  BY IdleAims DEF Init, AimInv
<1>2. BoundInv
  BY IdleChecked DEF Init, BoundInv, BindingsExist, NothingMissing, There, NoSecret, Area
<1> QED BY <1>1, <1>2

\* A configuration that is bound exists, when requests follow one another - any of
\* which may fail at any access, while stagings come and go and the application is
\* deleted and created anew ("either reject the operation, or, when forced, unbind S
\* from the app", create.go).
THEOREM BoundStays ==
  ASSUME OneAtATime
  PROVE  Spec => []BindingsExist
<1> DEFINE Inv == TypeOK /\ LocalInv /\ AimInv /\ BoundInv
<1>1. Init => Inv
  BY InitLocal, InitBound
<1>2. Inv /\ [Next]_vars => Inv'
  BY TypeStep, LocalStep, AimStep, BoundStep
<1>3. Inv => BindingsExist
  BY DEF BoundInv
<1> QED BY <1>1, <1>2, <1>3, PTL DEF Spec
-----------------------------------------------------------------------------
(* The workload is current, with one request at a time *)

\* It is enough that the request which moves gets as far as helm.
LEMMA DeployBecome ==
  ASSUME OneAtATime, TypeOK, NEW r \in Req, NEW new, Become(r, new), Deploys(new)',
         ~staging', workload'.running => image' /\ app' # None,
         ~Deploying(new) => Saved'
  PROVE  DeployInv'
<1>1. /\ \A q \in Req : q = r
      /\ req'[r] = new
  BY DEF OneAtATime, TypeOK, Become
<1>2. \A q \in Req : Deploys(req[q])'
  BY <1>1 DEF Deploys, Deploying, Loading, There
<1>3. (\A q \in Req : ~Deploying(req[q])') => Saved'
  BY <1>1 DEF Deploying, Loading
<1> QED BY <1>2, <1>3 DEF DeployInv

\* A step that changes nothing but the request.
LEMMA DeploySame ==
  ASSUME OneAtATime, TypeOK, DeployInv, NEW r \in Req, NEW new, Become(r, new), Deploys(new),
         ~Deploying(new) => Saved,
         UNCHANGED <<app, image, staging, secret, workload>>
  PROVE  DeployInv'
<1>1. Deploys(new)'
  BY DEF Deploys, Deploying, Loading, There
<1>2. ~Deploying(new) => Saved'
  BY DEF Saved
<1>3. ~staging' /\ (workload'.running => image' /\ app' # None)
  BY DEF DeployInv
<1> QED BY <1>1, <1>2, <1>3, DeployBecome

\* What the only request knows.
LEMMA DeployKnown ==
  ASSUME OneAtATime, TypeOK, LocalInv, AimInv, BoundInv, DeployInv, NEW r \in Req
  PROVE  /\ Deploys(req[r]) /\ Aims(req[r]) /\ Shape(req[r]) /\ PlanShape(req[r])
         /\ ~Deploying(req[r]) => Saved
         /\ ~staging /\ (workload.running => image /\ app # None)
         /\ req[r].pc \in Loading => app # None
BY DEF OneAtATime, LocalInv, Local, AimInv, DeployInv, Deploys, Shape, Loading

\* A request that ends has nothing left to deploy.
LEMMA IdleDeploys == Deploys(Idle) /\ ~Deploying(Idle)
BY DEF Deploys, Deploying, Idle, Loading

\* A request that has loaded a secret, or created it, holds what was saved.
LEMMA LoadedDeploys ==
  ASSUME OneAtATime, TypeOK, LocalInv, AimInv, BoundInv, DeployInv, NEW r \in Req,
         req[r].pc \in Loading, NEW d, d = secret[req[r].area].data, NEW versioned,
         Loaded(r, d, versioned)
  PROVE  \E new : /\ Become(r, new) /\ Deploys(new) /\ new.pc \notin {"owner", "make"}
                  /\ ~Deploying(new) => Saved
<1> DEFINE q == req[r]
<1>q. /\ Deploys(q) /\ Aims(q) /\ Shape(q) /\ app # None /\ (~Deploying(q) => Saved)
      /\ q.area \in {"env", "conf"}
  BY DeployKnown, RequestTypes DEF Area
<1>1. PICK new :
        /\ Become(r, new) /\ Keeps(q, new) /\ new.phase = q.phase
        /\ new.redeploy = q.redeploy
        /\ \/ /\ q.phase \in {"first", "deploy"} /\ q.area = "env"
              /\ new.pc = "load" /\ new.area = "conf"
              /\ q.phase = "deploy" => new.env = d
           \/ q.phase = "first" /\ q.area = "conf" /\ new.pc = "state"
           \/ q.phase = "known" /\ new.pc = "exist"
           \/ /\ q.phase = "deploy" /\ q.area = "conf"
              /\ new.pc = "bound" /\ new.area = "conf" /\ new.env = q.env /\ new.conf = d
           \/ /\ q.phase = "update"
              /\ new.pc = "write" /\ new.area = q.area /\ new.copy = d
  BY <1>q, LoadedMoves
<1>2. new.op # "update" /\ (new.phase \in {"known", "update"} => new.redeploy = workload.running)
  BY <1>q, <1>1 DEF Deploys, Keeps
<1>3. q.phase = "deploy" => Deploying(q) /\ image /\ q.redeploy
  BY <1>q DEF Deploys, Deploying, Loading
<1>4. q.phase = "deploy" /\ q.area = "conf" => q.env = secret["env"].data
  BY <1>q, <1>3 DEF Deploys, Loading
<1> HIDE DEF q
<1>5. Deploys(new)
  <2>1. CASE q.phase = "deploy" /\ q.area = "env"
    BY <1>q, <1>1, <1>2, <1>3, <2>1 DEF Deploys, q
  <2>2. CASE q.phase = "deploy" /\ q.area = "conf"
    BY <1>q, <1>1, <1>2, <1>3, <1>4, <2>2 DEF Deploys, q
  <2>3. CASE q.phase # "deploy"
    BY <1>q, <1>1, <1>2, <2>3 DEF Deploys, Deploying
  <2> QED BY <1>q, <2>1, <2>2, <2>3
<1>6. ~Deploying(new) => Saved
  <2>1. q.phase = "deploy" => Deploying(new)
    BY <1>1 DEF Deploying, Loading
  <2>2. q.phase # "deploy" => ~Deploying(q)
    BY DEF Deploying
  <2> QED BY <1>q, <2>1, <2>2
<1>7. new.pc \notin {"owner", "make"}
  BY <1>1
<1> QED BY <1>1, <1>5, <1>6, <1>7

\* A change is followed by a deployment, if the workload runs.
LEMMA WriteDeploys ==
  ASSUME OneAtATime, TypeOK, LocalInv, AimInv, BoundInv, DeployInv, NEW r \in Req,
         WriteSecret(r), Written(r)
  PROVE  DeployInv'
<1>q. /\ req[r].pc = "write" /\ req[r].phase = "update" /\ Deploys(req[r]) /\ app # None
      /\ req[r].redeploy = workload.running /\ req[r].op # "update"
      /\ req[r].op = "create" => ~req[r].redeploy
      /\ UNCHANGED <<app, image, staging, workload>>
      /\ ~staging /\ (workload.running => image /\ app # None)
  BY DeployKnown DEF WriteSecret, At, Shape, PlanShape, Deploys
<1>w. req[r].pc = "write" /\ AfterWrite(r)
  BY <1>q DEF Written
<1>1. PICK new :
        /\ Become(r, new)
        /\ \/ new = Idle /\ ~req[r].redeploy
           \/ /\ new.op = req[r].op
              /\ \/ new.op = "update"
                 \/ /\ new.pc = "load" /\ new.phase = "update"
                    /\ new.op = "create" /\ new.redeploy = req[r].redeploy
                 \/ new.pc = "lookup" /\ new.phase = "deploy" /\ req[r].redeploy
                 \/ /\ new.pc = "drop" /\ new.phase = "update"
                    /\ ~req[r].redeploy /\ new.redeploy = req[r].redeploy
  BY <1>w, AfterWriteMoves
<1>2. ~Deploying(new) => ~workload.running
  BY <1>q, <1>1 DEF Deploying
<1>3. ~Deploying(new) => Saved'
  BY <1>q, <1>2 DEF Saved
<1>4. Deploys(new)'
  <2>1. CASE new = Idle
    BY <2>1 DEF Deploys, Deploying, Idle, Loading
  <2>2. CASE new # Idle
    BY <1>q, <1>1, <2>2 DEF Deploys, Deploying, Loading
  <2> QED BY <2>1, <2>2
<1> QED BY <1>q, <1>1, <1>3, <1>4, DeployBecome

\* Every step keeps it that the workload is current, or about to be.
LEMMA DeployStep ==
  ASSUME OneAtATime, "update" \notin Ops, ~Stagings, ~Faults, Collected,
         TypeOK, LocalInv, AimInv, BoundInv, DeployInv, [Next]_vars
  PROVE  DeployInv'
<1>c. ASSUME NEW r \in Req
      PROVE  /\ Deploys(req[r]) /\ Aims(req[r]) /\ Shape(req[r]) /\ PlanShape(req[r])
             /\ ~Deploying(req[r]) => Saved
             /\ ~staging /\ (workload.running => image /\ app # None)
             /\ req[r].pc \in Loading => app # None
             /\ workload.running \in BOOLEAN
  BY DeployKnown DEF TypeOK, Workload
<1>1. ASSUME NEW r \in Req, Begin(r) PROVE DeployInv'
  <2>1. At(r, "idle") /\ UNCHANGED <<app, staging, secret, config, workload>>
    BY <1>1, BeginMoves
  <2>2. Saved
    BY <1>c, <2>1 DEF Deploying, Loading, At
  <2>3. PICK new :
          /\ Become(r, new) /\ new.op \in Ops /\ new.redeploy = FALSE
          /\ image' = image \/ image'
          /\ \/ new.pc = "lookup" /\ new.phase = "first"
             \/ new.pc = "create" /\ new.phase = "update" /\ app = None
             \/ new.pc = "lookup" /\ new.phase = "deploy" /\ image' /\ app # None
             \/ new.pc \in {"list", "remove"} /\ new.phase = "none"
    BY <1>1, BeginMoves
  <2>4. Deploys(new)'
    BY <1>c, <2>1, <2>3 DEF Deploys, Deploying, Loading
  <2>5. Saved'
    BY <2>1, <2>2 DEF Saved
  <2>6. ~staging' /\ (workload'.running => image' /\ app' # None)
    BY <1>c, <2>1, <2>3
  <2> QED BY <2>3, <2>4, <2>5, <2>6, DeployBecome
<1>2. ASSUME NEW r \in Req, LookupApp(r) PROVE DeployInv'
  <2>1. /\ UNCHANGED <<app, image, staging, secret, workload>> /\ req[r].pc = "lookup"
        /\ req[r].phase \in {"first", "deploy"}
    BY <1>2, <1>c DEF LookupApp, At, Shape
  <2>2. PICK new :
          /\ Become(r, new)
          /\ IF app # None
             THEN /\ Keeps(req[r], new) /\ new.pc = "load" /\ new.area = "env"
                  /\ new.phase = req[r].phase
                  /\ new.redeploy = ((req[r].phase = "deploy") /\ image)
             ELSE new = Idle
    BY <1>2, LookupMoves
  <2>3. req[r].phase = "deploy" => app # None /\ image
    BY <1>c, <2>1 DEF Deploys, Deploying
  <2>4. req[r].phase = "first" => Saved
    BY <1>c DEF Deploying
  <2>5. CASE app # None
    <3>1. Deploys(new)
      BY <1>c, <2>1, <2>2, <2>3, <2>5 DEF Deploys, Deploying, Keeps, Loading
    <3>2. ~Deploying(new) => Saved
      BY <2>1, <2>2, <2>4, <2>5 DEF Deploying, Loading
    <3> QED BY <2>1, <2>2, <3>1, <3>2, DeploySame
  <2>6. CASE app = None
    BY <2>1, <2>2, <2>3, <2>4, <2>6, IdleDeploys, DeploySame
  <2> QED BY <2>5, <2>6
<1>3. ASSUME NEW r \in Req, LoadSecret(r) PROVE DeployInv'
  <2>1. /\ UNCHANGED <<app, image, staging, secret, workload>> /\ req[r].pc = "load"
        /\ req[r].pc \in Loading
    BY <1>3 DEF LoadSecret, Loading, At
  <2>2. CASE There(req[r].area)
    <3>1. Loaded(r, secret[req[r].area].data, TRUE)
      BY <1>3, <2>2 DEF LoadSecret
    <3>2. PICK new : Become(r, new) /\ Deploys(new) /\ (~Deploying(new) => Saved)
      BY <2>1, <3>1, LoadedDeploys
    <3> QED BY <2>1, <3>2, DeploySame
  <2>3. CASE ~There(req[r].area)
    <3>1. PICK new : Become(r, new) /\ Stays(req[r], new) /\ new.pc = "owner"
      BY <1>3, <2>3, LoadMoves
    <3>2. Deploys(new) /\ (~Deploying(new) => Saved)
      BY <1>c, <2>1, <2>3, <3>1 DEF Deploys, Deploying, Stays, Keeps, Loading
    <3> QED BY <2>1, <3>1, <3>2, DeploySame
  <2> QED BY <2>2, <2>3
<1>4. ASSUME NEW r \in Req, ReadOwner(r) PROVE DeployInv'
  <2>1. /\ UNCHANGED <<app, image, staging, secret, workload>> /\ req[r].pc = "owner"
        /\ app # None
    BY <1>4, <1>c DEF ReadOwner, Loading, At
  <2>2. PICK new : /\ Become(r, new) /\ Stays(req[r], new) /\ new.pc = "make"
                   /\ new.owner = app
    BY <1>4, <2>1, OwnerMoves
  <2>3. Deploys(new) /\ (~Deploying(new) => Saved)
    BY <1>c, <2>1, <2>2 DEF Deploys, Deploying, Stays, Keeps, Loading
  <2> QED BY <2>1, <2>2, <2>3, DeploySame
<1>5. ASSUME NEW r \in Req, MakeSecret(r) PROVE DeployInv'
  <2>1. /\ UNCHANGED <<app, image, staging, workload>> /\ req[r].pc = "make"
        /\ req[r].pc \in Loading /\ req[r].area \in Area /\ ~There(req[r].area)
    BY <1>5, <1>c, RequestTypes DEF MakeSecret, Loading, At, Deploys
  <2>2. /\ secret' = [secret EXCEPT ![req[r].area] = [owner |-> req[r].owner, data |-> {}]]
        /\ Loaded(r, {}, FALSE)
    BY <1>5, <2>1 DEF MakeSecret
  <2>3. secret[req[r].area].data = {}
    BY <2>1 DEF BoundInv, NothingMissing
  <2>4. \A a \in Area : secret'[a].data = secret[a].data
    BY <2>1, <2>2, <2>3 DEF TypeOK
  <2>5. PICK new : /\ Become(r, new) /\ Deploys(new) /\ new.pc \notin {"owner", "make"}
                   /\ ~Deploying(new) => Saved
    <3>1. {} = secret[req[r].area].data
      BY <2>3
    <3> QED BY <2>1, <2>2, <3>1, LoadedDeploys
  <2>6. secret'["env"].data = secret["env"].data /\ secret'["conf"].data = secret["conf"].data
    BY <2>4 DEF Area
  <2>7. Deploys(new)'
    BY <2>1, <2>5, <2>6 DEF Deploys, Deploying, Loading
  <2>8. ~Deploying(new) => Saved'
    BY <2>1, <2>5, <2>6 DEF Saved
  <2> QED BY <1>c, <2>1, <2>5, <2>7, <2>8, DeployBecome
<1>6. ASSUME NEW r \in Req, ReadState(r) PROVE DeployInv'
  <2>1. /\ UNCHANGED <<app, image, staging, secret, workload>> /\ req[r].pc = "state"
        /\ req[r].phase = "first" /\ req[r].op # "update"
    BY <1>6, <1>c DEF ReadState, At, Shape, Deploys
  <2>2. PICK new :
          /\ Become(r, new) /\ Keeps(req[r], new) /\ new.pc = "load"
          /\ new.redeploy = (workload.running /\ ~staging)
          /\ new.phase \in {"known", "update"}
    BY <1>6, <2>1, StateMoves
  <2>3. app # None /\ Saved
    BY <1>c, <2>1 DEF Deploys, Deploying
  <2>4. Deploys(new)
    BY <1>c, <2>1, <2>2, <2>3 DEF Deploys, Deploying, Keeps
  <2> QED BY <2>1, <2>2, <2>3, <2>4, DeploySame
<1>7. ASSUME NEW r \in Req, CheckConfigurations(r) PROVE DeployInv'
  <2>1. /\ UNCHANGED <<app, image, staging, secret, workload>> /\ req[r].pc = "exist"
        /\ req[r].phase \in {"known", "update"}
    BY <1>7, <1>c DEF CheckConfigurations, At, Shape
  <2>2. PICK new :
          /\ Become(r, new)
          /\ \/ new = Idle
             \/ /\ Keeps(req[r], new) /\ new.pc = "load" /\ new.phase = "update"
                /\ new.redeploy = req[r].redeploy
    BY <1>7, CheckMoves
  <2>3. app # None /\ Saved
    BY <1>c, <2>1 DEF Deploys, Deploying
  <2>4. Deploys(new)
    <3>1. CASE new = Idle
      BY <3>1, IdleDeploys
    <3>2. CASE new # Idle
      BY <1>c, <2>1, <2>2, <2>3, <3>2 DEF Deploys, Deploying, Keeps
    <3> QED BY <3>1, <3>2
  <2> QED BY <2>1, <2>2, <2>3, <2>4, DeploySame
<1>8. ASSUME NEW r \in Req, WriteSecret(r) PROVE DeployInv'
  <2>1. CASE Written(r)
    BY <1>8, <2>1, WriteDeploys
  <2>2. CASE Refused(r)
    <3>1. /\ UNCHANGED <<app, image, staging, secret, workload>>
          /\ req[r].pc = "write" /\ req[r].phase = "update"
      BY <1>8, <1>c, <2>2 DEF Refused, WriteSecret, At, Shape
    <3>2. PICK new :
            /\ Become(r, new)
            /\ \/ new = Idle
               \/ /\ Keeps(req[r], new) /\ new.pc = "load"
                  /\ new.phase = "update" /\ new.redeploy = req[r].redeploy
      BY <2>2 DEF Refused
    <3>3. app # None /\ Saved
      BY <1>c, <3>1 DEF Deploys, Deploying
    <3>4. Deploys(new)
      <4>1. CASE new = Idle
        BY <4>1, IdleDeploys
      <4>2. CASE new # Idle
        BY <1>c, <3>1, <3>2, <3>3, <4>2 DEF Deploys, Deploying, Keeps
      <4> QED BY <4>1, <4>2
    <3> QED BY <3>1, <3>2, <3>3, <3>4, DeploySame
  <2> QED BY <1>8, <2>1, <2>2, WriteMoves
<1>9. ASSUME NEW r \in Req, LookupBound(r) PROVE DeployInv'
  <2>1. /\ UNCHANGED <<app, image, staging, secret, workload>> /\ req[r].pc = "bound"
        /\ req[r].phase = "deploy"
    BY <1>9, <1>c DEF LookupBound, At, Aims
  <2>2. /\ app # None /\ image /\ req[r].redeploy /\ req[r].area = "conf"
        /\ req[r].env = secret["env"].data /\ req[r].conf = secret["conf"].data
    BY <1>c, <2>1 DEF Deploys, Deploying
  <2>3. req[r].conf \subseteq config
    BY <2>2 DEF BoundInv, BindingsExist
  <2>4. PICK new :
          /\ Become(r, new) /\ Keeps(req[r], new) /\ new.pc = "helm"
          /\ new.phase = req[r].phase /\ new.area = req[r].area /\ new.env = req[r].env
          /\ new.conf = req[r].conf
    BY <1>9, <2>2, <2>3, BoundMoves
  <2>5. Deploys(new) /\ Deploying(new)
    BY <1>c, <2>1, <2>2, <2>4 DEF Deploys, Deploying, Keeps
  <2> QED BY <2>1, <2>4, <2>5, DeploySame
<1>10. ASSUME NEW r \in Req, HelmDeploy(r) PROVE DeployInv'
  <2>1. /\ UNCHANGED <<app, image, staging, secret>> /\ req[r].pc = "helm"
        /\ req[r].phase = "deploy"
        /\ workload' = [running |-> TRUE, env |-> req[r].env, conf |-> req[r].conf]
    BY <1>10, <1>c DEF HelmDeploy, At, Aims
  <2>2. /\ app # None /\ image
        /\ req[r].env = secret["env"].data /\ req[r].conf = secret["conf"].data
    BY <1>c, <2>1 DEF Deploys, Deploying
  <2>3. Saved'
    BY <2>1, <2>2 DEF Saved
  <2>4. PICK new :
          /\ Become(r, new)
          /\ \/ new = Idle
             \/ Keeps(req[r], new) /\ new.pc = "drop" /\ new.phase = req[r].phase
    BY <1>10, HelmMoves
  <2>5. Deploys(new)'
    <3>1. CASE new = Idle
      BY <3>1 DEF Deploys, Deploying, Idle, Loading
    <3>2. CASE new # Idle
      BY <1>c, <2>1, <2>2, <2>4, <3>2 DEF Deploys, Deploying, Keeps, Loading
    <3> QED BY <3>1, <3>2
  <2> QED BY <1>c, <2>1, <2>2, <2>3, <2>4, <2>5, DeployBecome
<1>11. ASSUME NEW r \in Req, CreateApp(r) PROVE DeployInv'
  <2>1. /\ UNCHANGED <<image, staging, secret, workload>> /\ app = None
        /\ ~workload.running
    BY <1>11, <1>c DEF CreateApp, At, Deploys
  <2>2. PICK new :
          /\ Become(r, new) /\ app' \in Uid /\ req[r].op = "create" /\ ~req[r].redeploy
          /\ Keeps(req[r], new) /\ new.pc = "load" /\ new.phase = "update"
          /\ new.redeploy = req[r].redeploy
    BY <1>11, <2>1, CreateMoves
  <2>3. req[r].redeploy = workload.running
    <3>1. req[r].redeploy \in BOOLEAN
      BY RequestTypes DEF Fits, Request
    <3> QED BY <1>c, <2>1, <2>2, <3>1
  <2>4. app' # None
    BY <2>2, SettingsAssumption
  <2>5. Deploys(new)'
    BY <2>1, <2>2, <2>3, <2>4 DEF Deploys, Deploying, Keeps
  <2>6. Saved'
    BY <2>1 DEF Saved
  <2> QED BY <1>c, <2>1, <2>2, <2>5, <2>6, DeployBecome
<1>12. ASSUME NEW r \in Req, RemoveWorkload(r) PROVE DeployInv'
  <2>1. /\ UNCHANGED <<app, image, staging, secret>> /\ req[r].pc = "remove"
        /\ workload' = NoWorkload
    BY <1>12 DEF RemoveWorkload, At
  <2>2. PICK new : Become(r, new) /\ Stays(req[r], new) /\ new.pc = "delcr"
    BY <1>12, RemoveMoves
  <2>3. ~workload'.running
    BY <2>1 DEF NoWorkload
  <2>4. Deploys(new)'
    BY <1>c, <2>1, <2>2, <2>3 DEF Deploys, Deploying, Stays, Keeps, Loading
  <2>5. Saved'
    BY <2>3 DEF Saved
  <2> QED BY <1>c, <2>1, <2>2, <2>3, <2>4, <2>5, DeployBecome
<1>13. ASSUME NEW r \in Req, DeleteApp(r) PROVE DeployInv'
  <2>1. /\ UNCHANGED workload /\ ~workload.running /\ staging' = FALSE /\ Become(r, Idle)
    BY <1>13, <1>c DEF DeleteApp, At, Deploys, End
  <2>2. \E new : Become(r, new) /\ Deploys(new)'
    <3>1. PICK new : new = Idle
      OBVIOUS
    <3>2. Deploys(new)'
      BY <3>1 DEF Deploys, Deploying, Idle, Loading
    <3> QED BY <2>1, <3>1, <3>2
  <2>3. Saved'
    BY <2>1 DEF Saved
  <2> QED BY <2>1, <2>2, <2>3, DeployBecome
<1>14. ASSUME NEW r \in Req, ListBound(r) PROVE DeployInv'
  <2>1. /\ UNCHANGED <<app, image, staging, secret, workload>> /\ req[r].pc = "list"
        /\ req[r].phase = "none" /\ req[r].op = "delconf"
    BY <1>14, <1>c DEF ListBound, At, Deploys, Shape
  <2>2. Saved
    BY <1>c, <2>1 DEF Deploying
  <2>3. PICK new :
          /\ Become(r, new)
          /\ \/ new = Idle
             \/ Keeps(req[r], new) /\ new.pc = "drop" /\ new.phase = req[r].phase
             \/ new.op = req[r].op /\ new.pc = "lookup" /\ new.phase = "first"
    BY <1>14, ListMoves
  <2>4. Deploys(new)
    <3>1. CASE new = Idle
      BY <3>1, IdleDeploys
    <3>2. CASE new # Idle
      BY <2>1, <2>3, <3>2 DEF Deploys, Deploying, Keeps
    <3> QED BY <3>1, <3>2
  <2> QED BY <2>1, <2>2, <2>3, <2>4, DeploySame
<1>15. ASSUME NEW r \in Req, DropConfiguration(r) PROVE DeployInv'
  <2>1. /\ UNCHANGED <<app, image, staging, secret, workload>> /\ req[r].pc = "drop"
        /\ Become(r, Idle)
    BY <1>15 DEF DropConfiguration, At, End
  <2>2. Saved
    BY <1>c, <2>1 DEF Deploying, Loading
  <2> QED BY <2>1, <2>2, IdleDeploys, DeploySame
<1>16. ASSUME Outside PROVE DeployInv'
  <2>1. CASE UNCHANGED <<app, image, staging, secret, workload, req>>
    BY <2>1 DEF DeployInv, Deploys, Deploying, Saved, There
  <2>2. ASSUME NEW a \in Area, CollectSecret(a) PROVE DeployInv'
    <3>1. /\ UNCHANGED <<app, image, staging, workload, req>> /\ app = None
          /\ \A b \in Area : secret'[b].owner # None => There(b)
      BY <2>2 DEF CollectSecret, Collected, There, NoSecret, TypeOK
    <3>2. ~workload.running /\ Saved'
      BY <3>1 DEF DeployInv, Saved
    <3>3. ASSUME NEW r \in Req PROVE Deploys(req[r])'
      <4>1. req[r].area \in Area /\ ~Deploying(req[r]) /\ req[r].pc \notin {"bound", "helm"}
        BY <1>c, <3>1, RequestTypes DEF Deploys, Deploying, Aims, Loading
      <4> QED BY <1>c, <3>1, <4>1 DEF Deploys, Deploying, There, Loading
    <3> QED BY <3>1, <3>2, <3>3 DEF DeployInv
  <2> QED BY <1>16, <2>1, <2>2 DEF Outside, CreateConfiguration, StagingToggles
<1>17. CASE UNCHANGED vars
  BY <1>17 DEF vars, DeployInv, Deploys, Deploying, Saved, There
<1>18. \A r \in Req : ~Fail(r)
  BY DEF Fail
<1> QED
  BY <1>1, <1>2, <1>3, <1>4, <1>5, <1>6, <1>7, <1>8, <1>9, <1>10, <1>11, <1>12, <1>13,
     <1>14, <1>15, <1>16, <1>17, <1>18 DEF Next, Proceed

\* With one uid the application cannot be created anew before they are.
LEMMA OneUid == ASSUME \A u, v \in Uid : u = v PROVE TypeOK => Collected
BY DEF TypeOK, Collected, Secret

\* The workload runs with the settings as saved whenever no request is under way,
\* when requests follow one another and none fails on the way, no staging runs, no
\* update asks for no restart, and the secrets of a deleted application are collected
\* before it is created anew ("If the application is active the workload is
\* restarted to update it to the new settings", env.go).
THEOREM WorkloadFollows ==
  ASSUME OneAtATime, "update" \notin Ops, ~Stagings, ~Faults
  PROVE  Spec /\ []Collected => []WorkloadCurrent
<1> DEFINE Inv == TypeOK /\ LocalInv /\ AimInv /\ BoundInv /\ DeployInv
<1>1. Init => Inv
  <2> SUFFICES ASSUME Init PROVE DeployInv
    BY InitLocal, InitBound
  <2>1. ~workload.running /\ ~staging /\ \A r \in Req : req[r] = Idle
    BY DEF Init, NoWorkload
  <2> QED BY <2>1, IdleDeploys DEF DeployInv, Saved
<1>2. Inv /\ Collected /\ [Next]_vars => Inv'
  BY TypeStep, LocalStep, AimStep, BoundStep, DeployStep
<1>3. Inv => WorkloadCurrent
  <2> SUFFICES ASSUME DeployInv, \A r \in Req : At(r, "idle") PROVE Saved
    BY DEF WorkloadCurrent, Saved
  <2>1. \A r \in Req : ~Deploying(req[r])
    BY DEF Deploying, Loading, At
  <2> QED BY <2>1 DEF DeployInv
<1> QED BY <1>1, <1>2, <1>3, PTL DEF Spec
=============================================================================
