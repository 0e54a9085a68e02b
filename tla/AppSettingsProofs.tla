------------------------- MODULE AppSettingsProofs --------------------------
(***************************************************************************)
(* Proofs about AppSettings, for any number of requests, variables and     *)
(* configurations: its types, and that it implements AtomicSettings as     *)
(* long as the application is not deleted.                                 *)
(*                                                                         *)
(* The second needs to know why a write without a resource version loses   *)
(* nothing: only a secret that the request itself has just created is      *)
(* written that way, and only the creation of the application, which       *)
(* replaces all of its contents, can find a secret missing, because every  *)
(* other request has looked the application up before, and so created      *)
(* the secrets that were missing.                                          *)
(***************************************************************************)
EXTENDS AppSettings, TLAPS

Loading == {"load", "owner", "make"}

\* What the local variables of a request say of each other.
Shape(q) ==
  /\ q.pc = "idle" => q = Idle
  /\ \A a \in Area : q.plan[a].mode = "none" => q.plan[a] = NoChange
  /\ q.pc \in Loading => q.phase # "none"
  /\ q.pc = "lookup" => q.phase \in {"first", "deploy"}
  /\ q.pc = "state" => q.phase = "first"
  /\ q.pc = "write" => q.phase = "update"
  /\ q.pc = "list" => q.plan = NoPlan /\ q.op = "delconf"
  /\ q.pc = "create" => q.op = "create"
  /\ q.pc = "exist" => q.op \in {"bind", "update"} /\ q.phase \in {"known", "update"}
  /\ q.phase = "known" => q.op = "bind" /\ (q.pc \in Loading => q.area = "conf")
  /\ q.pc # "write" => q.copy = {}
  /\ q.phase = "first" => q.op \notin {"none", "create", "deploy"}

\* The changes that are still to be made fit the operation and its progress.
PlanShape(q) ==
  /\ q.op \notin {"update", "create"} => \E a \in Area : q.plan[a] = NoChange
  /\ q.phase = "first" => \E a \in Area : q.plan[a] # NoChange
  /\ q.phase = "update" /\ q.pc \in Loading \cup {"write"} => q.plan[q.area] # NoChange
  /\ q.op = "bind" /\ q.phase \in {"first", "known"} => q.plan["conf"] # NoChange
  /\ q.pc = "exist" => q.plan["conf"] # NoChange
  /\ q.op = "update" =>
       /\ q.phase = "first" => q.plan["env"] # NoChange
       /\ q.phase = "first" \/ (q.phase = "update" /\ q.plan["env"] # NoChange)
            => q.plan["conf"] # NoChange
       /\ q.pc = "exist" => q.plan["env"] = NoChange
       /\ q.phase = "update" /\ q.area = "conf" => q.plan["env"] = NoChange
  /\ q.op = "create" =>
       /\ q.phase = "update" /\ ~q.redeploy
       /\ \A a \in Area : q.plan[a].mode \in {"none", "replace"}
       /\ q.pc = "create" => q.plan["conf"] # NoChange
       /\ q.pc # "create" /\ q.area = "env" => q.plan["conf"] = NoChange

Local(q) == Shape(q) /\ PlanShape(q)
LocalInv == \A r \in Req : Local(req[r])

\* A secret belongs to the application that is there, and is empty if missing.
Owned == \A a \in Area : IF There(a) THEN secret[a].owner = app ELSE secret[a].data = {}

\* Which secrets the request r, in state q, has seen to exist, and what it knows
\* of the one it is about to write.
Seen(q, r) ==
  /\ q.pc \notin {"remove", "delcr"}
  /\ q.owner \in {None, app} /\ (q.pc = "make" => q.owner # None)
  /\ q.phase = "first" /\ q.area = "conf" /\ q.pc \in Loading => There("env")
  /\ (q.pc = "state" \/ q.phase = "known" \/ (q.phase = "update" /\ q.op # "create"))
       => \A a \in Area : There(a)
  /\ q.pc = "write" =>
       /\ There(q.area)
       /\ q.versioned /\ r \notin stale => q.copy = secret[q.area].data
       /\ ~q.versioned => q.plan[q.area].mode = "replace"

SeenInv == Owned /\ \A r \in Req : Seen(req[r], r)
-----------------------------------------------------------------------------
(* Types *)

\* The constant records have the types of what they stand for.
LEMMA ConstantTypes ==
  /\ NoChange \in Change /\ NoPlan \in Plan /\ NoSecret \in Secret
  /\ NoWorkload \in Workload /\ Idle \in Request
<1>1. NoChange \in Change /\ NoPlan \in Plan
  BY DEF NoChange, Change, NoPlan, Plan
<1>2. NoSecret \in Secret
  BY DEF NoSecret, Secret
<1>3. NoWorkload \in Workload
  BY DEF NoWorkload, Workload
<1>4. Idle \in Request
  BY <1>1 DEF Idle, Request, PCs, Phases, Area
<1> QED BY <1>1, <1>2, <1>3, <1>4

\* The state that a request may be in, with the settings it may hold.
Fits(q) ==
  /\ q \in Request /\ q.copy \subseteq KeysOf(q.area)
  /\ \A a \in Area : q.plan[a].keys \subseteq KeysOf(a)

\* It goes on elsewhere with what it holds, and with some of it renewed.
LEMMA StepFits ==
  ASSUME NEW q, Fits(q), NEW pc \in PCs
  PROVE  /\ Fits([q EXCEPT !.pc = pc])
         /\ \A owner \in Uid \cup {None} : Fits([q EXCEPT !.pc = pc, !.owner = owner])
         /\ Fits([q EXCEPT !.pc = pc, !.redeploy = FALSE])
         /\ Fits([q EXCEPT !.pc = pc, !.env = {}, !.conf = {}])
<1>1. q \in Request
  BY DEF Fits
<1>2. Fits([q EXCEPT !.pc = pc])
  BY <1>1 DEF Fits, Request
<1>3. ASSUME NEW owner \in Uid \cup {None} PROVE Fits([q EXCEPT !.pc = pc, !.owner = owner])
  BY <1>1 DEF Fits, Request
<1>4. Fits([q EXCEPT !.pc = pc, !.redeploy = FALSE])
  BY <1>1 DEF Fits, Request
<1>5. Fits([q EXCEPT !.pc = pc, !.env = {}, !.conf = {}])
  BY <1>1 DEF Fits, Request
<1> QED BY <1>2, <1>3, <1>4, <1>5

\* A request that becomes another leaves the table of requests well typed.
LEMMA BecomeFits ==
  ASSUME NEW r \in Req, NEW new, Become(r, new), Fits(new), TypeOK
  PROVE  /\ req' \in [Req -> Request]
         /\ \A q \in Req : /\ req'[q].copy \subseteq KeysOf(req'[q].area)
                           /\ \A a \in Area : req'[q].plan[a].keys \subseteq KeysOf(a)
BY DEF Become, Fits, TypeOK

\* A request that ends does so, too.
LEMMA IdleFits == Fits(Idle)
BY ConstantTypes DEF Fits, Idle, NoPlan, NoChange

\* The plans with which requests begin are plans.
LEMMA PlanTypes ==
  ASSUME NEW a \in Area, NEW mode \in {"add", "remove", "replace"}, NEW keys \in SUBSET KeysOf(a)
  PROVE  /\ PlanFor(a, mode, keys) \in Plan
         /\ \A b \in Area : PlanFor(a, mode, keys)[b].keys \subseteq KeysOf(b)
         /\ \A b \in Area : PlanFor(a, mode, keys)[b] =
              IF b = a THEN [mode |-> mode, keys |-> keys] ELSE NoChange
<1>1. [mode |-> mode, keys |-> keys] \in Change
  BY DEF Change, KeysOf, Key
<1>2. \A b \in Area : PlanFor(a, mode, keys)[b] =
        IF b = a THEN [mode |-> mode, keys |-> keys] ELSE NoChange
  BY DEF PlanFor, NoPlan
<1>3. PlanFor(a, mode, keys) \in Plan
  BY <1>1, <1>2, ConstantTypes DEF PlanFor, NoPlan, Plan
<1> QED BY <1>2, <1>3 DEF NoChange

\* So do the plans of requests that change both areas.
LEMMA PlanBothTypes ==
  ASSUME NEW mode \in {"add", "replace"}, NEW vs \in SUBSET Var, NEW cs \in SUBSET Config
  PROVE  /\ PlanBoth(mode, vs, cs) \in Plan
         /\ \A a \in Area : PlanBoth(mode, vs, cs)[a].keys \subseteq KeysOf(a)
         /\ PlanBoth(mode, vs, cs)["env"] = [mode |-> mode, keys |-> vs]
         /\ PlanBoth(mode, vs, cs)["conf"] = [mode |-> "replace", keys |-> cs]
<1>1. [mode |-> mode, keys |-> vs] \in Change /\ [mode |-> "replace", keys |-> cs] \in Change
  BY DEF Change, Key
<1>2. \A a \in Area : PlanBoth(mode, vs, cs)[a] =
        IF a = "env" THEN [mode |-> mode, keys |-> vs] ELSE [mode |-> "replace", keys |-> cs]
  BY DEF PlanBoth
<1>3. PlanBoth(mode, vs, cs) \in Plan
  BY <1>1, <1>2 DEF PlanBoth, Plan
<1> QED BY <1>2, <1>3 DEF KeysOf, Area

\* The parts of a well-typed state, for each request.
LEMMA RequestTypes ==
  ASSUME TypeOK, NEW r \in Req
  PROVE  /\ Fits(req[r]) /\ req[r].area \in Area /\ req[r].plan \in Plan
         /\ req[r].owner \in Uid \cup {None} /\ req[r].tries \in Nat
         /\ req[r].env \subseteq Var /\ req[r].conf \subseteq Config
         /\ req[r].target \subseteq Config
         /\ \A a \in Area : req[r].plan[a] \in Change
BY DEF TypeOK, Fits, Request, Plan

\* A request that goes on to load a secret is a request.
LEMMA ReadTypes ==
  ASSUME NEW r \in Req, req[r] \in Request, NEW a \in Area, NEW phase \in Phases
  PROVE  /\ Read(r, a, phase) \in Request
         /\ Read(r, a, phase).copy = req[r].copy /\ Read(r, a, phase).area = a
         /\ Read(r, a, phase).plan = req[r].plan
<1> DEFINE q == req[r]
<1>1. q \in Request
  OBVIOUS
<1>2. "load" \in PCs
  BY DEF PCs
<1> HIDE DEF q
<1>3. [q EXCEPT !.pc = "load", !.area = a, !.phase = phase] \in Request
  BY <1>1, <1>2 DEF Request
<1>4. /\ [q EXCEPT !.pc = "load", !.area = a, !.phase = phase].copy = q.copy
      /\ [q EXCEPT !.pc = "load", !.area = a, !.phase = phase].area = a
      /\ [q EXCEPT !.pc = "load", !.area = a, !.phase = phase].plan = q.plan
  BY <1>1 DEF Request
<1> QED BY <1>3, <1>4 DEF Read, q

\* It fits its area when it holds no copy.
LEMMA ReadFits ==
  ASSUME TypeOK, NEW r \in Req, req[r].copy = {}, NEW a \in Area, NEW phase \in Phases
  PROVE  Fits(Read(r, a, phase))
<1>1. req[r] \in Request /\ \A b \in Area : req[r].plan[b].keys \subseteq KeysOf(b)
  BY RequestTypes DEF Fits
<1> QED BY <1>1, ReadTypes DEF Fits

\* A request goes on with a secret of its area.
LEMMA LoadedFits ==
  ASSUME TypeOK, NEW r \in Req, Shape(req[r]), req[r].pc \in Loading,
         NEW d \in SUBSET KeysOf(req[r].area), NEW versioned \in BOOLEAN,
         Loaded(r, d, versioned)
  PROVE  \E new : Become(r, new) /\ Fits(new)
<1> DEFINE q == req[r]
<1>q. Fits(q) /\ q.copy = {} /\ q \in Request
  BY RequestTypes DEF Shape, Loading, Fits
<1>p. q.phase \in {"first", "known", "update", "deploy"} /\ q.area \in {"env", "conf"}
  BY <1>q DEF Shape, Loading, Request, Phases, Area
<1>1. CASE q.phase = "first" /\ q.area = "env"
  <2>1. Become(r, Read(r, "conf", "first"))
    BY <1>1 DEF Loaded
  <2> QED BY <2>1, <1>q, ReadFits DEF Area, Phases
<1>2. CASE q.phase = "first" /\ q.area = "conf"
  <2>1. Become(r, [q EXCEPT !.pc = "state"])
    BY <1>2 DEF Loaded
  <2>2. Fits([q EXCEPT !.pc = "state"])
    BY <1>q DEF Fits, Request, PCs
  <2> QED BY <2>1, <2>2
<1>3. CASE q.phase = "known"
  <2>1. Become(r, [q EXCEPT !.pc = "exist", !.conf = d])
    BY <1>3 DEF Loaded
  <2>2. d \subseteq Config
    BY <1>3 DEF Shape, KeysOf
  <2>3. Fits([q EXCEPT !.pc = "exist", !.conf = d])
    BY <1>q, <2>2 DEF Fits, Request, PCs
  <2> QED BY <2>1, <2>3
<1>4. CASE q.phase = "deploy" /\ q.area = "env"
  <2>1. Become(r, [Read(r, "conf", "deploy") EXCEPT !.env = d])
    BY <1>4 DEF Loaded
  <2>2. d \subseteq Var
    BY <1>4 DEF KeysOf
  <2>3. Fits(Read(r, "conf", "deploy"))
    BY <1>q, ReadFits DEF Area, Phases
  <2>4. Fits([Read(r, "conf", "deploy") EXCEPT !.env = d])
    BY <2>2, <2>3 DEF Fits, Request
  <2> QED BY <2>1, <2>4
<1>5. CASE q.phase = "deploy" /\ q.area = "conf"
  <2>1. Become(r, [q EXCEPT !.pc = "bound", !.conf = d])
    BY <1>5 DEF Loaded
  <2>2. d \subseteq Config
    BY <1>5 DEF KeysOf
  <2>3. Fits([q EXCEPT !.pc = "bound", !.conf = d])
    BY <1>q, <2>2 DEF Fits, Request, PCs
  <2> QED BY <2>1, <2>3
<1>6. CASE q.phase = "update"
  <2>1. Become(r, [q EXCEPT !.pc = "write", !.copy = d, !.versioned = versioned])
    BY <1>6 DEF Loaded
  <2>2. d \subseteq Key
    BY <1>p DEF KeysOf, Key
  <2>3. Fits([q EXCEPT !.pc = "write", !.copy = d, !.versioned = versioned])
    BY <1>q, <2>2 DEF Fits, Request, PCs
  <2> QED BY <2>1, <2>3
<1> QED BY <1>p, <1>1, <1>2, <1>3, <1>4, <1>5, <1>6

\* A request goes on after a write.
LEMMA AfterWriteFits ==
  ASSUME TypeOK, NEW r \in Req, AfterWrite(r)
  PROVE  \E new : Become(r, new) /\ Fits(new)
<1> DEFINE q == [req[r] EXCEPT !.plan[req[r].area] = NoChange, !.copy = {},
                               !.versioned = FALSE, !.owner = None, !.tries = 0]
           plan == [req[r].plan EXCEPT ![req[r].area] = NoChange]
<1>1. plan \in Plan /\ \A a \in Area : plan[a].keys \subseteq KeysOf(a)
  BY RequestTypes, ConstantTypes DEF Plan, Fits, NoChange
<1> HIDE DEF plan
<1>2. q = [req[r] EXCEPT !.plan = plan, !.copy = {}, !.versioned = FALSE, !.owner = None,
                         !.tries = 0]
  BY RequestTypes DEF Fits, Request, plan
<1>3. Fits(q) /\ q \in Request
  <2> DEFINE new == [req[r] EXCEPT !.plan = plan, !.copy = {}, !.versioned = FALSE,
                                   !.owner = None, !.tries = 0]
  <2>1. new \in Request
    BY <1>1, RequestTypes DEF Fits, Request
  <2>2. new.plan = plan /\ new.copy = {}
    BY RequestTypes DEF Fits, Request
  <2>3. Fits(new)
    <3> HIDE DEF new
    <3> QED BY <1>1, <2>1, <2>2 DEF Fits
  <2> QED BY <1>2, <2>1, <2>3
<1>4. \/ Become(r, [q EXCEPT !.pc = "exist"])
      \/ q.plan # NoPlan /\ q.op = "create" /\ Become(r, [q EXCEPT !.pc = "load", !.area = "env"])
      \/ Become(r, [q EXCEPT !.pc = "lookup", !.phase = "deploy", !.redeploy = FALSE])
      \/ Become(r, [q EXCEPT !.pc = "drop"])
      \/ Become(r, Idle)
  BY DEF AfterWrite, End
<1>5. q.copy = {}
  BY <1>2, RequestTypes DEF Fits, Request
<1> HIDE DEF q
<1>6. Fits([q EXCEPT !.pc = "exist"]) /\ Fits([q EXCEPT !.pc = "drop"])
  BY <1>3 DEF Fits, Request, PCs
<1>7. Fits([q EXCEPT !.pc = "load", !.area = "env"])
  BY <1>3, <1>5 DEF Fits, Request, PCs, Area
<1>8. Fits([q EXCEPT !.pc = "lookup", !.phase = "deploy", !.redeploy = FALSE])
  BY <1>3 DEF Fits, Request, PCs, Phases
<1> QED BY <1>4, <1>6, <1>7, <1>8, IdleFits

\* Every step keeps the types.  That a request which loads a secret has a phase,
\* and that it holds no copy of another, is part of its shape.
LEMMA TypeStep ==
  TypeOK /\ LocalInv /\ [Next]_vars => TypeOK'
<1> SUFFICES ASSUME TypeOK, LocalInv, [Next]_vars PROVE TypeOK'
  OBVIOUS
<1>r. \A r \in Req :
        /\ Fits(req[r]) /\ req[r].area \in Area /\ req[r].plan \in Plan
        /\ req[r].owner \in Uid \cup {None} /\ req[r].tries \in Nat
        /\ req[r].env \subseteq Var /\ req[r].conf \subseteq Config
        /\ req[r].target \subseteq Config
        /\ \A a \in Area : req[r].plan[a] \in Change
        /\ Shape(req[r]) /\ PlanShape(req[r])
  BY RequestTypes DEF LocalInv, Local
<1>i. Fits(Idle) /\ Idle \in Request
  BY IdleFits, ConstantTypes
<1>a. "env" \in Area /\ "conf" \in Area /\ KeysOf("env") = Var /\ KeysOf("conf") = Config
  BY DEF Area, KeysOf
<1>b. \* it is enough that the request fits, where the secrets do not change
      ASSUME NEW r \in Req, NEW new, Become(r, new), Fits(new), UNCHANGED secret,
             app' \in Uid \cup {None}, image' \in BOOLEAN, staging' \in BOOLEAN,
             config' \subseteq Config, workload' \in Workload, stale' \subseteq Req
      PROVE  TypeOK'
  <2>1. /\ req' \in [Req -> Request]
        /\ \A q \in Req : /\ req'[q].copy \subseteq KeysOf(req'[q].area)
                          /\ \A a \in Area : req'[q].plan[a].keys \subseteq KeysOf(a)
    BY <1>b, BecomeFits
  <2> QED BY <1>b, <2>1 DEF TypeOK
<1>1. ASSUME NEW r \in Req, NEW mode \in {"add", "remove"}, NEW v \in Var, BeginSet(r, mode, v)
      PROVE  TypeOK'
  <2> DEFINE plan == PlanFor("env", mode, {v})
             new == [Idle EXCEPT !.op = "set", !.pc = "lookup", !.phase = "first",
                                 !.plan = plan]
  <2>1. plan \in Plan /\ \A a \in Area : plan[a].keys \subseteq KeysOf(a)
    <3>1. {v} \in SUBSET KeysOf("env")
      BY <1>a
    <3> QED BY <1>a, <3>1, PlanTypes
  <2>2. Become(r, new) /\ UNCHANGED <<app, image, staging, secret, config, workload, stale>>
    BY <1>1 DEF BeginSet
  <2> HIDE DEF plan
  <2>3. Fits(new)
    BY <1>i, <2>1 DEF Fits, Request, PCs, Phases, AllOps
  <2> HIDE DEF new
  <2> QED BY <1>b, <2>2, <2>3 DEF TypeOK
<1>2. ASSUME NEW r \in Req, NEW c \in Config, BeginBind(r, c) PROVE TypeOK'
  <2> DEFINE plan == PlanFor("conf", "add", {c})
             new == [Idle EXCEPT !.op = "bind", !.pc = "lookup", !.phase = "first",
                                 !.target = {c}, !.plan = plan]
  <2>1. plan \in Plan /\ \A a \in Area : plan[a].keys \subseteq KeysOf(a)
    <3>1. {c} \in SUBSET KeysOf("conf")
      BY <1>a
    <3> QED BY <1>a, <3>1, PlanTypes
  <2>2. Become(r, new) /\ UNCHANGED <<app, image, staging, secret, config, workload, stale>>
    BY <1>2 DEF BeginBind
  <2> HIDE DEF plan
  <2>3. Fits(new)
    BY <1>i, <2>1 DEF Fits, Request, PCs, Phases, AllOps
  <2> HIDE DEF new
  <2> QED BY <1>b, <2>2, <2>3 DEF TypeOK
<1>3. ASSUME NEW r \in Req, NEW c \in Config, BeginUnbind(r, c) PROVE TypeOK'
  <2> DEFINE plan == PlanFor("conf", "remove", {c})
             new == [Idle EXCEPT !.op = "unbind", !.pc = "lookup", !.phase = "first",
                                 !.plan = plan]
  <2>1. plan \in Plan /\ \A a \in Area : plan[a].keys \subseteq KeysOf(a)
    <3>1. {c} \in SUBSET KeysOf("conf")
      BY <1>a
    <3> QED BY <1>a, <3>1, PlanTypes
  <2>2. Become(r, new) /\ UNCHANGED <<app, image, staging, secret, config, workload, stale>>
    BY <1>3 DEF BeginUnbind
  <2> HIDE DEF plan
  <2>3. Fits(new)
    BY <1>i, <2>1 DEF Fits, Request, PCs, Phases, AllOps
  <2> HIDE DEF new
  <2> QED BY <1>b, <2>2, <2>3 DEF TypeOK
<1>4. ASSUME NEW r \in Req, NEW mode \in {"add", "replace"}, NEW v \in Var,
             NEW cs \in SUBSET Config, BeginUpdate(r, mode, v, cs)
      PROVE  TypeOK'
  <2> DEFINE new == [Idle EXCEPT !.op = "update", !.pc = "lookup", !.phase = "first",
                                 !.target = cs,
                                 !.plan = PlanBoth(mode, {v}, cs)]
  <2>1. Become(r, new) /\ UNCHANGED <<app, image, staging, secret, config, workload, stale>>
    BY <1>4 DEF BeginUpdate
  <2>2. Fits(new)
    <3> DEFINE plan == PlanBoth(mode, {v}, cs)
    <3>1. plan \in Plan /\ \A a \in Area : plan[a].keys \subseteq KeysOf(a)
      <4>1. {v} \in SUBSET Var
        OBVIOUS
      <4> QED BY <4>1, PlanBothTypes
    <3> HIDE DEF plan
    <3>2. Fits([Idle EXCEPT !.op = "update", !.pc = "lookup", !.phase = "first",
                            !.target = cs, !.plan = plan])
      BY <1>i, <3>1 DEF Fits, Request, PCs, Phases, AllOps
    <3> QED BY <3>2 DEF plan
  <2> HIDE DEF new
  <2> QED BY <1>b, <2>1, <2>2 DEF TypeOK
<1>5. ASSUME NEW r \in Req, NEW vs \in SUBSET Var, NEW cs \in SUBSET Config,
             BeginCreate(r, vs, cs)
      PROVE  TypeOK'
  <2> DEFINE plan == PlanBoth("replace", vs, cs)
             new == [Idle EXCEPT !.op = "create", !.pc = "create", !.phase = "update",
                                 !.plan = plan]
  <2>1. plan \in Plan /\ \A a \in Area : plan[a].keys \subseteq KeysOf(a)
    BY PlanBothTypes
  <2>2. Become(r, new) /\ UNCHANGED <<app, image, staging, secret, config, workload, stale>>
    BY <1>5 DEF BeginCreate
  <2> HIDE DEF plan
  <2>3. Fits(new)
    BY <1>i, <2>1 DEF Fits, Request, PCs, Phases, AllOps
  <2> HIDE DEF new
  <2> QED BY <1>b, <2>2, <2>3 DEF TypeOK
<1>6. ASSUME NEW r \in Req, BeginDeploy(r) PROVE TypeOK'
  <2> DEFINE new == [Idle EXCEPT !.op = "deploy", !.pc = "lookup", !.phase = "deploy"]
  <2>1. /\ Become(r, new) /\ image' = TRUE
        /\ UNCHANGED <<app, staging, secret, config, workload, stale>>
    BY <1>6 DEF BeginDeploy
  <2>2. Fits(new)
    BY <1>i DEF Fits, Request, PCs, Phases, AllOps
  <2> HIDE DEF new
  <2> QED BY <1>b, <2>1, <2>2 DEF TypeOK
<1>7. ASSUME NEW r \in Req, NEW c \in Config, NEW unbind \in BOOLEAN,
             BeginDelconf(r, c, unbind)
      PROVE  TypeOK'
  <2> DEFINE new == [Idle EXCEPT !.op = "delconf", !.pc = "list", !.target = {c},
                                 !.unbind = unbind]
  <2>1. Become(r, new) /\ UNCHANGED <<app, image, staging, secret, config, workload, stale>>
    BY <1>7 DEF BeginDelconf
  <2>2. Fits(new)
    BY <1>i DEF Fits, Request, PCs, Phases, AllOps
  <2> HIDE DEF new
  <2> QED BY <1>b, <2>1, <2>2 DEF TypeOK
<1>8. ASSUME NEW r \in Req, BeginDelete(r) PROVE TypeOK'
  <2> DEFINE new == [Idle EXCEPT !.op = "delete", !.pc = "remove"]
  <2>1. Become(r, new) /\ UNCHANGED <<app, image, staging, secret, config, workload, stale>>
    BY <1>8 DEF BeginDelete
  <2>2. Fits(new)
    BY <1>i DEF Fits, Request, PCs, Phases, AllOps
  <2> HIDE DEF new
  <2> QED BY <1>b, <2>1, <2>2 DEF TypeOK
<1>9. ASSUME NEW r \in Req, LookupApp(r) PROVE TypeOK'
  <2> DEFINE redeploy == (req[r].phase = "deploy") /\ image
             new == [Read(r, "env", req[r].phase) EXCEPT !.redeploy = redeploy]
  <2>1. req[r].copy = {} /\ req[r].phase \in Phases
    BY <1>9, <1>r DEF LookupApp, At, Shape, Fits, Request
  <2>2. Become(r, new) \/ Become(r, Idle)
    BY <1>9 DEF LookupApp, End
  <2>3. Fits(Read(r, "env", req[r].phase)) /\ redeploy \in BOOLEAN
    BY <1>a, <2>1, ReadFits
  <2> HIDE DEF redeploy
  <2>4. Fits(new)
    BY <2>3 DEF Fits, Request
  <2> HIDE DEF new
  <2> QED BY <1>9, <1>b, <1>i, <2>2, <2>4 DEF LookupApp, TypeOK
<1>10. ASSUME NEW r \in Req, LoadSecret(r) PROVE TypeOK'
  <2> DEFINE a == req[r].area
  <2>1. CASE There(a)
    <3>1. req[r].pc \in Loading /\ secret[a].data \in SUBSET KeysOf(a)
      BY <1>10, <1>r DEF LoadSecret, At, Loading, TypeOK
    <3>2. Loaded(r, secret[a].data, TRUE)
      BY <1>10, <2>1 DEF LoadSecret
    <3>3. PICK new : Become(r, new) /\ Fits(new)
      BY <1>r, <3>1, <3>2, LoadedFits
    <3> QED BY <1>10, <1>b, <3>3 DEF LoadSecret, TypeOK
  <2>2. CASE ~There(a)
    <3>1. Become(r, [req[r] EXCEPT !.pc = "owner"])
      BY <1>10, <2>2 DEF LoadSecret
    <3>2. Fits([req[r] EXCEPT !.pc = "owner"])
      BY <1>r DEF Fits, Request, PCs
    <3> QED BY <1>10, <1>b, <3>1, <3>2 DEF LoadSecret, TypeOK
  <2> QED BY <2>1, <2>2
<1>11. ASSUME NEW r \in Req, ReadOwner(r) PROVE TypeOK'
  <2>1. Become(r, [req[r] EXCEPT !.pc = "make", !.owner = app]) \/ Become(r, Idle)
    BY <1>11 DEF ReadOwner, End
  <2>2. Fits([req[r] EXCEPT !.pc = "make", !.owner = app])
    <3>1. app \in Uid \cup {None} /\ "make" \in PCs
      BY DEF TypeOK, PCs
    <3>2. Fits(req[r])
      BY <1>r
    <3> QED BY <3>1, <3>2, StepFits
  <2> QED BY <1>11, <1>b, <1>i, <2>1, <2>2 DEF ReadOwner, TypeOK
<1>12. ASSUME NEW r \in Req, MakeSecret(r) PROVE TypeOK'
  <2> DEFINE a == req[r].area
  <2>1. CASE There(a)
    BY <1>12, <1>b, <1>i, <2>1 DEF MakeSecret, End, TypeOK
  <2>2. CASE ~There(a)
    <3>1. req[r].pc \in Loading /\ {} \in SUBSET KeysOf(a)
      BY <1>12 DEF MakeSecret, At, Loading
    <3>2. /\ Loaded(r, {}, FALSE) /\ Outdate(a, r)
          /\ secret' = [secret EXCEPT ![a] = [owner |-> req[r].owner, data |-> {}]]
      BY <1>12, <2>2 DEF MakeSecret
    <3>3. PICK new : Become(r, new) /\ Fits(new)
      BY <1>r, <3>1, <3>2, LoadedFits
    <3>4. secret' \in [Area -> Secret] /\ \A b \in Area : secret'[b].data \subseteq KeysOf(b)
      BY <1>r, <3>2 DEF TypeOK, Secret
    <3>5. stale' \subseteq Req
      BY <3>2 DEF Outdate, TypeOK
    <3>6. /\ req' \in [Req -> Request]
          /\ \A q \in Req : /\ req'[q].copy \subseteq KeysOf(req'[q].area)
                            /\ \A b \in Area : req'[q].plan[b].keys \subseteq KeysOf(b)
      BY <3>3, BecomeFits
    <3> QED BY <1>12, <3>4, <3>5, <3>6 DEF MakeSecret, TypeOK
  <2> QED BY <2>1, <2>2
<1>13. ASSUME NEW r \in Req, ReadState(r) PROVE TypeOK'
  <2>1. req[r].copy = {} /\ FirstArea(r) \in Area /\ "known" \in Phases /\ "update" \in Phases
    BY <1>13, <1>a, <1>r DEF ReadState, At, Shape, FirstArea, Phases
  <2>2. Fits(Read(r, "conf", "known")) /\ Fits(Read(r, FirstArea(r), "update"))
    BY <1>a, <2>1, ReadFits
  <2>3. (workload.running /\ ~staging) \in BOOLEAN
    OBVIOUS
  <2>4. PICK redeploy \in BOOLEAN :
          \/ Become(r, [Read(r, "conf", "known") EXCEPT !.redeploy = redeploy])
          \/ Become(r, [Read(r, FirstArea(r), "update") EXCEPT !.redeploy = redeploy])
    BY <1>13, <2>3 DEF ReadState
  <2>5. /\ Fits([Read(r, "conf", "known") EXCEPT !.redeploy = redeploy])
        /\ Fits([Read(r, FirstArea(r), "update") EXCEPT !.redeploy = redeploy])
    BY <2>2 DEF Fits, Request
  <2> QED BY <1>13, <1>b, <2>4, <2>5 DEF ReadState, TypeOK
<1>14. ASSUME NEW r \in Req, CheckConfigurations(r) PROVE TypeOK'
  <2>1. req[r].copy = {} /\ "update" \in Phases
    BY <1>14, <1>r DEF CheckConfigurations, At, Shape, Phases
  <2>2. Fits(Read(r, "conf", "update"))
    BY <1>a, <2>1, ReadFits
  <2>3. Fits([Read(r, "conf", "update") EXCEPT !.conf = {}])
    BY <2>2 DEF Fits, Request
  <2>4. Become(r, [Read(r, "conf", "update") EXCEPT !.conf = {}]) \/ Become(r, Idle)
    BY <1>14 DEF CheckConfigurations, End
  <2> QED BY <1>14, <1>b, <1>i, <2>3, <2>4 DEF CheckConfigurations, TypeOK
<1>15. ASSUME NEW r \in Req, WriteSecret(r) PROVE TypeOK'
  <2> DEFINE a == req[r].area
             data == Modify(req[r].plan[a], req[r].copy)
             read == Read(r, a, "update")
             retry == [read EXCEPT !.tries = @ + 1, !.copy = {}, !.versioned = FALSE]
  <2>1. /\ a \in Area /\ req[r].plan[a] \in Change /\ req[r].copy \subseteq KeysOf(a)
        /\ req[r].plan[a].keys \subseteq KeysOf(a) /\ req[r].plan[a].mode # "none"
    <3>1. Fits(req[r]) /\ req[r].pc = "write"
      BY <1>15, <1>r DEF WriteSecret, At
    <3>2. a \in Area /\ req[r].plan[a] \in Change
      BY <1>r
    <3>3. req[r].phase = "update" /\ (req[r].plan[a].mode = "none" => req[r].plan[a] = NoChange)
      BY <1>r, <3>1, <3>2 DEF Shape
    <3>4. req[r].plan[a] # NoChange
      BY <1>r, <3>1, <3>3 DEF PlanShape
    <3> QED BY <3>1, <3>2, <3>3, <3>4 DEF Fits
  <2>2. data \subseteq KeysOf(a)
    <3>1. req[r].plan[a].mode \in {"add", "remove", "replace"}
      BY <2>1 DEF Change
    <3> QED BY <2>1, <3>1 DEF Modify
  <2>3. CASE /\ There(a) /\ Outdate(a, r) /\ AfterWrite(r)
             /\ secret' = [secret EXCEPT ![a].data = data]
    <3>1. PICK new : Become(r, new) /\ Fits(new)
      BY <2>3, AfterWriteFits
    <3>2. /\ req' \in [Req -> Request]
          /\ \A q \in Req : /\ req'[q].copy \subseteq KeysOf(req'[q].area)
                            /\ \A b \in Area : req'[q].plan[b].keys \subseteq KeysOf(b)
      BY <3>1, BecomeFits
    <3>3. secret' \in [Area -> Secret] /\ \A b \in Area : secret'[b].data \subseteq KeysOf(b)
      <4> HIDE DEF data
      <4>1. data \subseteq Key
        BY <2>2 DEF KeysOf, Key
      <4> QED BY <2>1, <2>2, <2>3, <4>1 DEF TypeOK, Secret
    <3>4. stale' \subseteq Req
      BY <2>3 DEF Outdate, TypeOK
    <3> QED BY <1>15, <3>2, <3>3, <3>4 DEF WriteSecret, TypeOK
  <2>4. CASE Become(r, retry) /\ stale' = stale \ {r} /\ UNCHANGED secret
    <3>1. /\ req[r] \in Request /\ read \in Request
          /\ read.copy = req[r].copy /\ read.area = a /\ read.plan = req[r].plan
      <4>1. req[r] \in Request /\ "update" \in Phases
        BY <1>r DEF Fits, Phases
      <4> QED BY <2>1, <4>1, ReadTypes
    <3>2. Fits(retry)
      <4> HIDE DEF read
      <4>1. retry \in Request
        <5> DEFINE n == read.tries + 1
        <5>1. n \in Nat
          BY <3>1 DEF Request
        <5> HIDE DEF n
        <5>2. [read EXCEPT !.tries = n, !.copy = {}, !.versioned = FALSE] \in Request
          BY <3>1, <5>1 DEF Request
        <5> QED BY <5>2 DEF n
      <4>2. retry.copy = {} /\ retry.area = a /\ retry.plan = req[r].plan
        BY <3>1 DEF Request
      <4> HIDE DEF retry
      <4> QED BY <1>r, <4>1, <4>2 DEF Fits
    <3> HIDE DEF retry
    <3> QED BY <1>15, <1>b, <2>4, <3>2 DEF WriteSecret, TypeOK
  <2>5. CASE Become(r, Idle) /\ stale' = stale \ {r} /\ UNCHANGED secret
    BY <1>15, <1>b, <1>i, <2>5 DEF WriteSecret, TypeOK
  <2> QED BY <1>15, <2>3, <2>4, <2>5 DEF WriteSecret, End
<1>16. ASSUME NEW r \in Req, LookupBound(r) PROVE TypeOK'
  <2> DEFINE new == [req[r] EXCEPT !.pc = "helm", !.redeploy = FALSE]
  <2>1. Become(r, new) \/ Become(r, Idle)
    BY <1>16 DEF LookupBound, End
  <2>2. Fits(new)
    <3>1. Fits(req[r]) /\ "helm" \in PCs
      BY <1>r DEF PCs
    <3> QED BY <3>1, StepFits
  <2> HIDE DEF new
  <2> QED BY <1>16, <1>b, <1>i, <2>1, <2>2 DEF LookupBound, TypeOK
<1>17. ASSUME NEW r \in Req, HelmDeploy(r) PROVE TypeOK'
  <2> DEFINE new == [req[r] EXCEPT !.pc = "drop", !.env = {}, !.conf = {}]
  <2>1. Become(r, new) \/ Become(r, Idle)
    BY <1>17 DEF HelmDeploy, End
  <2>2. Fits(new)
    <3>1. Fits(req[r]) /\ "drop" \in PCs
      BY <1>r DEF PCs
    <3> QED BY <3>1, StepFits
  <2>3. workload' \in Workload
    BY <1>17, <1>r DEF HelmDeploy, Workload
  <2> HIDE DEF new
  <2> QED BY <1>17, <1>b, <1>i, <2>1, <2>2, <2>3 DEF HelmDeploy, TypeOK
<1>18. ASSUME NEW r \in Req, CreateApp(r) PROVE TypeOK'
  <2>1. req[r].copy = {} /\ "update" \in Phases
    BY <1>18, <1>r DEF CreateApp, At, Shape, Phases
  <2>2. Fits(Read(r, "conf", "update"))
    BY <1>a, <2>1, ReadFits
  <2>3. Become(r, Read(r, "conf", "update")) \/ Become(r, Idle)
    BY <1>18 DEF CreateApp, End
  <2>4. app' \in Uid \cup {None}
    BY <1>18 DEF CreateApp, TypeOK
  <2> QED BY <1>18, <1>b, <1>i, <2>2, <2>3, <2>4 DEF CreateApp, TypeOK
<1>19. ASSUME NEW r \in Req, RemoveWorkload(r) PROVE TypeOK'
  <2> DEFINE new == [req[r] EXCEPT !.pc = "delcr"]
  <2>1. Become(r, new) /\ workload' = NoWorkload
    BY <1>19 DEF RemoveWorkload
  <2>2. Fits(new)
    <3>1. Fits(req[r]) /\ "delcr" \in PCs
      BY <1>r DEF PCs
    <3> QED BY <3>1, StepFits
  <2> HIDE DEF new
  <2> QED BY <1>19, <1>b, <2>1, <2>2, ConstantTypes DEF RemoveWorkload, TypeOK
<1>20. ASSUME NEW r \in Req, DeleteApp(r) PROVE TypeOK'
  BY <1>20, <1>b, <1>i DEF DeleteApp, End, TypeOK
<1>21. ASSUME NEW r \in Req, ListBound(r) PROVE TypeOK'
  <2> DEFINE drop == [req[r] EXCEPT !.pc = "drop"]
             plan == PlanFor("conf", "remove", req[r].target)
             unbind == [req[r] EXCEPT !.pc = "lookup", !.phase = "first", !.plan = plan]
  <2>1. Become(r, drop) \/ Become(r, unbind) \/ Become(r, Idle)
    BY <1>21 DEF ListBound, End
  <2>2. plan \in Plan /\ \A a \in Area : plan[a].keys \subseteq KeysOf(a)
    <3>1. req[r].target \in SUBSET KeysOf("conf")
      BY <1>a, <1>r
    <3>2. "conf" \in Area
      BY <1>a
    <3> QED BY <3>1, <3>2, PlanTypes
  <2> HIDE DEF plan
  <2>3. Fits(drop) /\ Fits(unbind)
    <3>1. Fits(req[r]) /\ "drop" \in PCs /\ "lookup" \in PCs /\ "first" \in Phases
      BY <1>r DEF PCs, Phases
    <3>2. Fits(unbind)
      BY <2>2, <3>1 DEF Fits, Request
    <3> QED BY <3>1, <3>2, StepFits
  <2> HIDE DEF drop, unbind
  <2> QED BY <1>21, <1>b, <1>i, <2>1, <2>3 DEF ListBound, TypeOK
<1>22. ASSUME NEW r \in Req, DropConfiguration(r) PROVE TypeOK'
  BY <1>22, <1>b, <1>i DEF DropConfiguration, End, TypeOK
<1>23. ASSUME NEW r \in Req, Fail(r) PROVE TypeOK'
  BY <1>23, <1>b, <1>i DEF Fail, End, TypeOK
<1>24. CASE Outside
  <2>1. ASSUME NEW c \in Config, CreateConfiguration(c) PROVE TypeOK'
    BY <2>1 DEF CreateConfiguration, TypeOK
  <2>2. CASE StagingToggles
    BY <2>2 DEF StagingToggles, TypeOK
  <2>3. ASSUME NEW a \in Area, CollectSecret(a) PROVE TypeOK'
    <3>1. secret' \in [Area -> Secret] /\ \A b \in Area : secret'[b].data \subseteq KeysOf(b)
      BY <2>3, ConstantTypes DEF CollectSecret, TypeOK, NoSecret
    <3> QED BY <2>3, <3>1 DEF CollectSecret, TypeOK
  <2> QED BY <1>24, <2>1, <2>2, <2>3 DEF Outside
<1>25. CASE UNCHANGED vars
  BY <1>25 DEF vars, TypeOK
<1> QED
  BY <1>1, <1>2, <1>3, <1>4, <1>5, <1>6, <1>7, <1>8, <1>9, <1>10, <1>11, <1>12, <1>13, <1>14,
     <1>15, <1>16, <1>17, <1>18, <1>19, <1>20, <1>21, <1>22, <1>23, <1>24, <1>25
     DEF Next, Begin, Proceed
-----------------------------------------------------------------------------
(* How the local variables fit together *)

\* What changes, and what does not, in a request that goes on to load a secret.
LEMMA ReadFields ==
  ASSUME TypeOK, NEW r \in Req, NEW a, NEW phase
  PROVE  LET new == Read(r, a, phase)
         IN  /\ new.pc = "load" /\ new.area = a /\ new.phase = phase
             /\ new.op = req[r].op /\ new.plan = req[r].plan /\ new.copy = req[r].copy
             /\ new.redeploy = req[r].redeploy /\ new.owner = req[r].owner
             /\ new.versioned = req[r].versioned
BY RequestTypes DEF Read, Fits, Request

\* An idle request is consistent.
LEMMA IdleLocal == Local(Idle)
<1>1. \A a \in Area : NoPlan[a] = NoChange
  BY DEF NoPlan
<1> QED BY <1>1 DEF Local, Shape, PlanShape, Idle, Loading, NoChange, Area

\* A request that has loaded a secret, or created it, is.
LEMMA LoadedLocal ==
  ASSUME TypeOK, NEW r \in Req, Local(req[r]), req[r].pc \in Loading, NEW d,
         NEW versioned, Loaded(r, d, versioned)
  PROVE  \E new : Become(r, new) /\ Local(new)
<1> DEFINE q == req[r]
<1>q. q \in Request /\ Shape(q) /\ PlanShape(q) /\ q.copy = {}
  BY RequestTypes DEF Local, Shape, Loading, Fits
<1>p. q.phase \in {"first", "known", "update", "deploy"} /\ q.area \in {"env", "conf"}
  BY <1>q DEF Shape, Loading, Request, Phases, Area
<1>1. CASE q.phase = "first" /\ q.area = "env"
  <2> DEFINE new == Read(r, "conf", "first")
  <2>1. Become(r, new)
    BY <1>1 DEF Loaded
  <2>2. Local(new)
    <3>1. new.pc = "load" /\ new.phase = "first" /\ new.op = q.op /\ new.plan = q.plan
          /\ new.copy = {} /\ new.area = "conf" /\ new.redeploy = q.redeploy
      BY <1>q, ReadFields
    <3> HIDE DEF new
    <3> QED BY <1>q, <1>1, <3>1 DEF Local, Shape, PlanShape, Loading
  <2> QED BY <2>1, <2>2
<1>2. CASE q.phase = "first" /\ q.area = "conf"
  <2> DEFINE new == [q EXCEPT !.pc = "state"]
  <2>1. Become(r, new)
    BY <1>2 DEF Loaded
  <2>2. Local(new)
    BY <1>q, <1>2 DEF Local, Shape, PlanShape, Loading, Request
  <2> QED BY <2>1, <2>2
<1>3. CASE q.phase = "known"
  <2> DEFINE new == [q EXCEPT !.pc = "exist", !.conf = d]
  <2>1. Become(r, new)
    BY <1>3 DEF Loaded
  <2>2. Local(new)
    BY <1>q, <1>3 DEF Local, Shape, PlanShape, Loading, Request
  <2> QED BY <2>1, <2>2
<1>4. CASE q.phase = "deploy" /\ q.area = "env"
  <2> DEFINE new == [Read(r, "conf", "deploy") EXCEPT !.env = d]
  <2>1. Become(r, new)
    BY <1>4 DEF Loaded
  <2>2. Local(new)
    <3>1. new.pc = "load" /\ new.phase = "deploy" /\ new.op = q.op /\ new.plan = q.plan
          /\ new.copy = {} /\ new.area = "conf" /\ new.redeploy = q.redeploy
      BY <1>q DEF Read, Request
    <3> HIDE DEF new
    <3> QED BY <1>q, <1>4, <3>1 DEF Local, Shape, PlanShape, Loading
  <2> QED BY <2>1, <2>2
<1>5. CASE q.phase = "deploy" /\ q.area = "conf"
  <2> DEFINE new == [q EXCEPT !.pc = "bound", !.conf = d]
  <2>1. Become(r, new)
    BY <1>5 DEF Loaded
  <2>2. Local(new)
    BY <1>q, <1>5 DEF Local, Shape, PlanShape, Loading, Request
  <2> QED BY <2>1, <2>2
<1>6. CASE q.phase = "update"
  <2> DEFINE new == [q EXCEPT !.pc = "write", !.copy = d, !.versioned = versioned]
  <2>1. Become(r, new)
    BY <1>6 DEF Loaded
  <2>2. Local(new)
    BY <1>q, <1>6 DEF Local, Shape, PlanShape, Loading, Request
  <2> QED BY <2>1, <2>2
<1> QED BY <1>p, <1>1, <1>2, <1>3, <1>4, <1>5, <1>6

\* A request is after a write: with more than one change only updates and creations
\* go on, and these change the environment and the configurations in turn.
LEMMA AfterWriteLocal ==
  ASSUME TypeOK, NEW r \in Req, Local(req[r]), req[r].pc = "write", AfterWrite(r)
  PROVE  \E new : Become(r, new) /\ Local(new)
<1> DEFINE old == req[r]
           q == [old EXCEPT !.plan[old.area] = NoChange, !.copy = {}, !.versioned = FALSE,
                            !.owner = None, !.tries = 0]
<1>q. /\ old \in Request /\ Shape(old) /\ PlanShape(old) /\ old.phase = "update"
      /\ old.pc = "write"
      /\ old.area \in {"env", "conf"} /\ old.plan \in [Area -> Change]
      /\ old.plan[old.area] # NoChange
  BY RequestTypes DEF Local, Shape, PlanShape, Fits, Area, Plan
<1>1. /\ q \in Request
      /\ q.pc = "write" /\ q.op = old.op /\ q.phase = "update" /\ q.area = old.area
      /\ q.plan = [old.plan EXCEPT ![old.area] = NoChange] /\ q.copy = {}
      /\ q.redeploy = old.redeploy
  <2>1. q.plan \in Plan
    BY <1>q, ConstantTypes DEF Request, Plan
  <2> QED BY <1>q, <2>1 DEF Request
<1>2. \A a \in Area : q.plan[a] = IF a = old.area THEN NoChange ELSE old.plan[a]
  BY <1>q, <1>1
<1>3. q.plan = NoPlan <=> \A a \in Area : q.plan[a] = NoChange
  BY <1>q, <1>1, <1>2 DEF NoPlan
<1>4. \/ q.plan # NoPlan /\ q.op = "update" /\ Become(r, [q EXCEPT !.pc = "exist"])
      \/ q.plan # NoPlan /\ q.op = "create" /\ Become(r, [q EXCEPT !.pc = "load", !.area = "env"])
      \/ /\ q.plan = NoPlan /\ q.redeploy
         /\ Become(r, [q EXCEPT !.pc = "lookup", !.phase = "deploy", !.redeploy = FALSE])
      \/ q.plan = NoPlan /\ q.op = "delconf" /\ Become(r, [q EXCEPT !.pc = "drop"])
      \/ Become(r, Idle)
  BY DEF AfterWrite, End
<1> HIDE DEF q, old
<1>5. CASE q.plan # NoPlan /\ q.op = "update" /\ Become(r, [q EXCEPT !.pc = "exist"])
  <2> DEFINE new == [q EXCEPT !.pc = "exist"]
  <2>1. q.plan["env"] = NoChange /\ q.plan["conf"] # NoChange
    BY <1>q, <1>1, <1>2, <1>3, <1>5 DEF PlanShape, Area
  <2>2. Local(new)
    BY <1>q, <1>1, <1>2, <1>5, <2>1 DEF Local, Shape, PlanShape, Loading, Request, Area
  <2> QED BY <1>5, <2>2
<1>6. CASE q.plan # NoPlan /\ q.op = "create" /\ Become(r, [q EXCEPT !.pc = "load", !.area = "env"])
  <2> DEFINE new == [q EXCEPT !.pc = "load", !.area = "env"]
  <2>1. q.plan["env"] # NoChange /\ q.plan["conf"] = NoChange
    BY <1>q, <1>1, <1>2, <1>3, <1>6 DEF PlanShape, Area
  <2>2. Local(new)
    BY <1>q, <1>1, <1>2, <1>6, <2>1 DEF Local, Shape, PlanShape, Loading, Request, Area, NoChange
  <2> QED BY <1>6, <2>2
<1>7. CASE /\ q.plan = NoPlan /\ q.redeploy
           /\ Become(r, [q EXCEPT !.pc = "lookup", !.phase = "deploy", !.redeploy = FALSE])
  <2> DEFINE new == [q EXCEPT !.pc = "lookup", !.phase = "deploy", !.redeploy = FALSE]
  <2>1. q.op # "create" /\ \A a \in Area : q.plan[a] = NoChange
    BY <1>q, <1>1, <1>3, <1>7 DEF PlanShape
  <2>2. Local(new)
    BY <1>1, <1>7, <2>1 DEF Local, Shape, PlanShape, Loading, Request, Area, NoChange
  <2> QED BY <1>7, <2>2
<1>8. CASE q.plan = NoPlan /\ q.op = "delconf" /\ Become(r, [q EXCEPT !.pc = "drop"])
  <2> DEFINE new == [q EXCEPT !.pc = "drop"]
  <2>1. \A a \in Area : q.plan[a] = NoChange
    BY <1>3, <1>8
  <2>2. Local(new)
    BY <1>1, <1>8, <2>1 DEF Local, Shape, PlanShape, Loading, Request, Area, NoChange
  <2> QED BY <1>8, <2>2
<1> QED BY <1>4, <1>5, <1>6, <1>7, <1>8, IdleLocal

\* The change that has been written is no longer to be made, and the others are.
LEMMA AfterWritePlan ==
  ASSUME TypeOK, NEW r \in Req, Local(req[r]), req[r].pc = "write", AfterWrite(r)
  PROVE  \E new : /\ Become(r, new)
                  /\ new.plan = [req[r].plan EXCEPT ![req[r].area] = NoChange]
<1> DEFINE old == req[r]
           plan == [old.plan EXCEPT ![old.area] = NoChange]
           q == [old EXCEPT !.plan[old.area] = NoChange, !.copy = {}, !.versioned = FALSE,
                            !.owner = None, !.tries = 0]
<1>q. /\ old \in Request /\ PlanShape(old) /\ old.phase = "update" /\ old.pc = "write"
      /\ old.area \in {"env", "conf"} /\ old.plan \in [Area -> Change]
  BY RequestTypes DEF Local, Shape, Fits, Area, Plan
<1>1. q \in Request /\ q.plan = plan /\ q.op = old.op /\ q.redeploy = old.redeploy
  <2>1. plan \in Plan
    BY <1>q, ConstantTypes DEF Plan
  <2> QED BY <1>q, <2>1 DEF Request
<1>2. old.op \notin {"update", "create"} => plan = NoPlan
  <2>1. old.plan[old.area] # NoChange
    BY <1>q DEF PlanShape
  <2>2. old.op \notin {"update", "create"} => \A a \in Area : plan[a] = NoChange
    BY <1>q, <2>1 DEF PlanShape, Area
  <2> QED BY <1>q, <2>2 DEF NoPlan
<1>3. \/ Become(r, [q EXCEPT !.pc = "exist"])
      \/ Become(r, [q EXCEPT !.pc = "load", !.area = "env"])
      \/ Become(r, [q EXCEPT !.pc = "lookup", !.phase = "deploy", !.redeploy = FALSE])
      \/ Become(r, [q EXCEPT !.pc = "drop"])
      \/ Become(r, Idle) /\ ~(q.plan # NoPlan /\ q.op \in {"update", "create"})
  BY DEF AfterWrite, End
<1>4. Idle.plan = NoPlan
  BY DEF Idle
<1> HIDE DEF q, plan, old
<1>5. /\ [q EXCEPT !.pc = "exist"].plan = plan
      /\ [q EXCEPT !.pc = "load", !.area = "env"].plan = plan
      /\ [q EXCEPT !.pc = "lookup", !.phase = "deploy", !.redeploy = FALSE].plan = plan
      /\ [q EXCEPT !.pc = "drop"].plan = plan
  BY <1>1 DEF Request
<1>6. \E new : Become(r, new) /\ new.plan = plan
  BY <1>1, <1>2, <1>3, <1>4, <1>5
<1> QED BY <1>6 DEF plan, old

\* Every step keeps what the local variables of each request say of each other.
LEMMA LocalStep ==
  TypeOK /\ LocalInv /\ [Next]_vars => LocalInv'
<1> SUFFICES ASSUME TypeOK, LocalInv, [Next]_vars PROVE LocalInv'
  OBVIOUS
<1>r. \A r \in Req : /\ req[r] \in Request /\ Local(req[r]) /\ Shape(req[r]) /\ PlanShape(req[r])
                     /\ req[r].area \in Area
  BY RequestTypes DEF LocalInv, Local, Fits
<1>b. \* it is enough that the new state of the request is consistent
      ASSUME NEW r \in Req, NEW new, Become(r, new), Local(new) PROVE LocalInv'
  BY <1>b DEF LocalInv, Become, TypeOK
<1>0. \A r \in Req : Become(r, Idle) => LocalInv'
  BY <1>b, IdleLocal
<1>1. ASSUME NEW r \in Req, Begin(r) PROVE LocalInv'
  <2>1. ASSUME NEW mode \in {"add", "remove"}, NEW v \in Var, BeginSet(r, mode, v)
        PROVE  LocalInv'
    <3> DEFINE plan == PlanFor("env", mode, {v})
               new == [Idle EXCEPT !.op = "set", !.pc = "lookup", !.phase = "first",
                                   !.plan = plan]
    <3>1. plan["conf"] = NoChange /\ plan["env"] # NoChange /\ plan["env"].mode # "none"
      BY DEF PlanFor, NoPlan, NoChange, Area
    <3> HIDE DEF plan
    <3>2. Local(new)
      BY <3>1 DEF Local, Shape, PlanShape, Loading, Idle, Area
    <3> QED BY <1>b, <2>1, <3>2 DEF BeginSet, plan
  <2>2. ASSUME NEW c \in Config, BeginBind(r, c) PROVE LocalInv'
    <3> DEFINE plan == PlanFor("conf", "add", {c})
               new == [Idle EXCEPT !.op = "bind", !.pc = "lookup", !.phase = "first",
                                   !.target = {c}, !.plan = plan]
    <3>1. plan["env"] = NoChange /\ plan["conf"] # NoChange /\ plan["conf"].mode # "none"
      BY DEF PlanFor, NoPlan, NoChange, Area
    <3> HIDE DEF plan
    <3>2. Local(new)
      BY <3>1 DEF Local, Shape, PlanShape, Loading, Idle, Area
    <3> QED BY <1>b, <2>2, <3>2 DEF BeginBind, plan
  <2>3. ASSUME NEW c \in Config, BeginUnbind(r, c) PROVE LocalInv'
    <3> DEFINE plan == PlanFor("conf", "remove", {c})
               new == [Idle EXCEPT !.op = "unbind", !.pc = "lookup", !.phase = "first",
                                   !.plan = plan]
    <3>1. plan["env"] = NoChange /\ plan["conf"] # NoChange /\ plan["conf"].mode # "none"
      BY DEF PlanFor, NoPlan, NoChange, Area
    <3> HIDE DEF plan
    <3>2. Local(new)
      BY <3>1 DEF Local, Shape, PlanShape, Loading, Idle, Area
    <3> QED BY <1>b, <2>3, <3>2 DEF BeginUnbind, plan
  <2>4. ASSUME NEW mode \in {"add", "replace"}, NEW v \in Var, NEW cs \in SUBSET Config,
               BeginUpdate(r, mode, v, cs)
        PROVE  LocalInv'
    <3> DEFINE plan == PlanBoth(mode, {v}, cs)
               new == [Idle EXCEPT !.op = "update", !.pc = "lookup", !.phase = "first",
                                   !.target = cs, !.plan = plan]
    <3>1. \A a \in Area : plan[a] # NoChange /\ plan[a].mode # "none"
      BY DEF PlanBoth, NoChange, Area
    <3> HIDE DEF plan
    <3>2. Local(new)
      BY <3>1 DEF Local, Shape, PlanShape, Loading, Idle, Area
    <3> QED BY <1>b, <2>4, <3>2 DEF BeginUpdate, plan
  <2>5. ASSUME NEW vs \in SUBSET Var, NEW cs \in SUBSET Config, BeginCreate(r, vs, cs)
        PROVE  LocalInv'
    <3> DEFINE plan == PlanBoth("replace", vs, cs)
               new == [Idle EXCEPT !.op = "create", !.pc = "create", !.phase = "update",
                                   !.plan = plan]
    <3>1. \A a \in Area : plan[a] # NoChange /\ plan[a].mode = "replace"
      BY DEF PlanBoth, NoChange, Area
    <3> HIDE DEF plan
    <3>2. Local(new)
      BY <3>1 DEF Local, Shape, PlanShape, Loading, Idle, Area
    <3> QED BY <1>b, <2>5, <3>2 DEF BeginCreate, plan
  <2>6. CASE BeginDeploy(r)
    <3> DEFINE new == [Idle EXCEPT !.op = "deploy", !.pc = "lookup", !.phase = "deploy"]
    <3>1. Local(new)
      BY IdleLocal DEF Local, Shape, PlanShape, Loading, Idle, Area
    <3> QED BY <1>b, <2>6, <3>1 DEF BeginDeploy
  <2>7. ASSUME NEW c \in Config, NEW unbind \in BOOLEAN, BeginDelconf(r, c, unbind)
        PROVE  LocalInv'
    <3> DEFINE new == [Idle EXCEPT !.op = "delconf", !.pc = "list", !.target = {c},
                                   !.unbind = unbind]
    <3>1. Local(new)
      BY IdleLocal DEF Local, Shape, PlanShape, Loading, Idle, Area
    <3> QED BY <1>b, <2>7, <3>1 DEF BeginDelconf
  <2>8. CASE BeginDelete(r)
    <3> DEFINE new == [Idle EXCEPT !.op = "delete", !.pc = "remove"]
    <3>1. Local(new)
      BY IdleLocal DEF Local, Shape, PlanShape, Loading, Idle, Area
    <3> QED BY <1>b, <2>8, <3>1 DEF BeginDelete
  <2> QED BY <1>1, <2>1, <2>2, <2>3, <2>4, <2>5, <2>6, <2>7, <2>8 DEF Begin
<1>2. ASSUME NEW r \in Req, LookupApp(r) PROVE LocalInv'
  <2> DEFINE new == [Read(r, "env", req[r].phase) EXCEPT
                       !.redeploy = (req[r].phase = "deploy") /\ image]
  <2>1. /\ new.pc = "load" /\ new.area = "env" /\ new.phase = req[r].phase
        /\ new.op = req[r].op /\ new.plan = req[r].plan /\ new.copy = req[r].copy
    BY <1>r DEF Read, Request
  <2> HIDE DEF new
  <2>2. req[r].pc = "lookup"
    BY <1>2 DEF LookupApp, At
  <2>3. Local(new)
    BY <1>r, <2>1, <2>2 DEF Local, Shape, PlanShape, Loading
  <2> QED BY <1>0, <1>2, <1>b, <2>3 DEF LookupApp, End, new
<1>3. ASSUME NEW r \in Req, LoadSecret(r) PROVE LocalInv'
  <2>1. req[r].pc = "load"
    BY <1>3 DEF LoadSecret, At
  <2>2. CASE There(req[r].area)
    <3>1. Loaded(r, secret[req[r].area].data, TRUE)
      BY <1>3, <2>2 DEF LoadSecret
    <3>2. \E new : Become(r, new) /\ Local(new)
      BY <1>r, <2>1, <3>1, LoadedLocal DEF Loading
    <3> QED BY <1>b, <3>2
  <2>3. CASE ~There(req[r].area)
    <3> DEFINE new == [req[r] EXCEPT !.pc = "owner"]
    <3>1. Local(new)
      BY <1>r, <2>1 DEF Local, Shape, PlanShape, Loading, Request
    <3> QED BY <1>3, <1>b, <2>3, <3>1 DEF LoadSecret
  <2> QED BY <2>2, <2>3
<1>4. ASSUME NEW r \in Req, ReadOwner(r) PROVE LocalInv'
  <2> DEFINE new == [req[r] EXCEPT !.pc = "make", !.owner = app]
  <2>1. req[r].pc = "owner"
    BY <1>4 DEF ReadOwner, At
  <2>2. Local(new)
    BY <1>r, <2>1 DEF Local, Shape, PlanShape, Loading, Request
  <2> QED BY <1>0, <1>4, <1>b, <2>2 DEF ReadOwner, End
<1>5. ASSUME NEW r \in Req, MakeSecret(r) PROVE LocalInv'
  <2>1. CASE There(req[r].area)
    BY <1>0, <1>5, <2>1 DEF MakeSecret, End
  <2>2. CASE ~There(req[r].area)
    <3>1. Loaded(r, {}, FALSE) /\ req[r].pc \in Loading
      BY <1>5, <2>2 DEF MakeSecret, At, Loading
    <3>2. \E new : Become(r, new) /\ Local(new)
      BY <1>r, <3>1, LoadedLocal
    <3> QED BY <1>b, <3>2
  <2> QED BY <2>1, <2>2
<1>6. ASSUME NEW r \in Req, ReadState(r) PROVE LocalInv'
  <2> DEFINE known(b) == [Read(r, "conf", "known") EXCEPT !.redeploy = b]
             update(b) == [Read(r, FirstArea(r), "update") EXCEPT !.redeploy = b]
  <2>1. req[r].pc = "state" /\ req[r].phase = "first"
    BY <1>6, <1>r DEF ReadState, At, Shape
  <2>2. PICK redeploy : IF req[r].op = "bind" THEN Become(r, known(redeploy))
                                              ELSE Become(r, update(redeploy))
    BY <1>6 DEF ReadState
  <2>3. CASE req[r].op = "bind"
    <3> DEFINE new == known(redeploy)
    <3>1. /\ new.pc = "load" /\ new.area = "conf" /\ new.phase = "known"
          /\ new.op = req[r].op /\ new.plan = req[r].plan /\ new.copy = req[r].copy
      BY <1>r DEF Read, Request
    <3>2. Become(r, new)
      BY <2>2, <2>3
    <3> HIDE DEF new
    <3>3. Local(new)
      BY <1>r, <2>1, <2>3, <3>1 DEF Local, Shape, PlanShape, Loading
    <3> QED BY <1>b, <3>2, <3>3
  <2>4. CASE req[r].op # "bind"
    <3> DEFINE new == update(redeploy)
    <3>1. /\ new.pc = "load" /\ new.area = FirstArea(r) /\ new.phase = "update"
          /\ new.op = req[r].op /\ new.plan = req[r].plan /\ new.copy = req[r].copy
      BY <1>r DEF Read, Request
    <3>2. Become(r, new)
      BY <2>2, <2>4
    <3>3. req[r].plan[FirstArea(r)] # NoChange
      BY <1>r, <2>1 DEF PlanShape, FirstArea, Area
    <3>4. FirstArea(r) = "conf" => req[r].plan["env"] = NoChange
      BY DEF FirstArea
    <3> HIDE DEF new
    <3>5. Local(new)
      BY <1>r, <2>1, <2>4, <3>1, <3>3, <3>4 DEF Local, Shape, PlanShape, Loading
    <3> QED BY <1>b, <3>2, <3>5
  <2> QED BY <2>3, <2>4
<1>7. ASSUME NEW r \in Req, CheckConfigurations(r) PROVE LocalInv'
  <2> DEFINE new == [Read(r, "conf", "update") EXCEPT !.conf = {}]
  <2>1. /\ new.pc = "load" /\ new.area = "conf" /\ new.phase = "update"
        /\ new.op = req[r].op /\ new.plan = req[r].plan /\ new.copy = req[r].copy
    BY <1>r DEF Read, Request
  <2>2. Become(r, new) \/ Become(r, Idle)
    BY <1>7 DEF CheckConfigurations, End
  <2>3. req[r].pc = "exist"
    BY <1>7 DEF CheckConfigurations, At
  <2> HIDE DEF new
  <2>4. Local(new)
    BY <1>r, <2>1, <2>3 DEF Local, Shape, PlanShape, Loading
  <2> QED BY <1>0, <1>b, <2>2, <2>4
<1>8. ASSUME NEW r \in Req, WriteSecret(r) PROVE LocalInv'
  <2> DEFINE retry == [Read(r, req[r].area, "update") EXCEPT
                         !.tries = @ + 1, !.copy = {}, !.versioned = FALSE]
  <2>1. req[r].pc = "write" /\ req[r].phase = "update"
    BY <1>8, <1>r DEF WriteSecret, At, Shape
  <2>2. AfterWrite(r) \/ Become(r, retry) \/ Become(r, Idle)
    BY <1>8 DEF WriteSecret, End
  <2>3. CASE AfterWrite(r)
    <3>1. \E new : Become(r, new) /\ Local(new)
      BY <1>r, <2>1, <2>3, AfterWriteLocal
    <3> QED BY <1>b, <3>1
  <2>4. Local(retry)
    <3>1. /\ retry.pc = "load" /\ retry.area = req[r].area /\ retry.phase = "update"
          /\ retry.op = req[r].op /\ retry.plan = req[r].plan /\ retry.copy = {}
          /\ retry.redeploy = req[r].redeploy
      BY <1>r DEF Read, Request
    <3> HIDE DEF retry
    <3> QED BY <1>r, <2>1, <3>1 DEF Local, Shape, PlanShape, Loading
  <2> HIDE DEF retry
  <2> QED BY <1>0, <1>b, <2>2, <2>3, <2>4
<1>9. ASSUME NEW r \in Req, LookupBound(r) PROVE LocalInv'
  <2> DEFINE new == [req[r] EXCEPT !.pc = "helm", !.redeploy = FALSE]
  <2>1. req[r].pc = "bound"
    BY <1>9 DEF LookupBound, At
  <2>2. Local(new)
    BY <1>r, <2>1 DEF Local, Shape, PlanShape, Loading, Request
  <2> QED BY <1>0, <1>9, <1>b, <2>2 DEF LookupBound, End
<1>10. ASSUME NEW r \in Req, HelmDeploy(r) PROVE LocalInv'
  <2> DEFINE new == [req[r] EXCEPT !.pc = "drop", !.env = {}, !.conf = {}]
  <2>1. req[r].pc = "helm"
    BY <1>10 DEF HelmDeploy, At
  <2>2. Local(new)
    BY <1>r, <2>1 DEF Local, Shape, PlanShape, Loading, Request
  <2> QED BY <1>0, <1>10, <1>b, <2>2 DEF HelmDeploy, End
<1>11. ASSUME NEW r \in Req, CreateApp(r) PROVE LocalInv'
  <2> DEFINE new == Read(r, "conf", "update")
  <2>1. /\ new.pc = "load" /\ new.area = "conf" /\ new.phase = "update"
        /\ new.op = req[r].op /\ new.plan = req[r].plan /\ new.copy = req[r].copy
        /\ new.redeploy = req[r].redeploy
    BY ReadFields
  <2>2. Become(r, new) \/ Become(r, Idle)
    BY <1>11 DEF CreateApp, End
  <2>3. req[r].pc = "create"
    BY <1>11 DEF CreateApp, At
  <2> HIDE DEF new
  <2>4. Local(new)
    BY <1>r, <2>1, <2>3 DEF Local, Shape, PlanShape, Loading
  <2> QED BY <1>0, <1>b, <2>2, <2>4
<1>12. ASSUME NEW r \in Req, RemoveWorkload(r) PROVE LocalInv'
  <2> DEFINE new == [req[r] EXCEPT !.pc = "delcr"]
  <2>1. req[r].pc = "remove"
    BY <1>12 DEF RemoveWorkload, At
  <2>2. Local(new)
    BY <1>r, <2>1 DEF Local, Shape, PlanShape, Loading, Request
  <2> QED BY <1>12, <1>b, <2>2 DEF RemoveWorkload
<1>13. ASSUME NEW r \in Req, ListBound(r) PROVE LocalInv'
  <2> DEFINE drop == [req[r] EXCEPT !.pc = "drop"]
             plan == PlanFor("conf", "remove", req[r].target)
             unbind == [req[r] EXCEPT !.pc = "lookup", !.phase = "first", !.plan = plan]
  <2>1. Become(r, drop) \/ Become(r, unbind) \/ Become(r, Idle)
    BY <1>13 DEF ListBound, End
  <2>2. req[r].pc = "list"
    BY <1>13 DEF ListBound, At
  <2>3. Local(drop)
    BY <1>r, <2>2 DEF Local, Shape, PlanShape, Loading, Request
  <2>4. Local(unbind)
    <3>1. plan["env"] = NoChange /\ plan["conf"] # NoChange /\ plan["conf"].mode # "none"
      BY DEF PlanFor, NoPlan, NoChange, Area
    <3> HIDE DEF plan
    <3> QED BY <1>r, <2>2, <3>1 DEF Local, Shape, PlanShape, Loading, Request, Area
  <2> HIDE DEF drop, unbind
  <2> QED BY <1>0, <1>b, <2>1, <2>3, <2>4
<1>14. ASSUME NEW r \in Req, DeleteApp(r) \/ DropConfiguration(r) \/ Fail(r) PROVE LocalInv'
  BY <1>0, <1>14 DEF DeleteApp, DropConfiguration, Fail, End
<1>15. CASE Outside \/ UNCHANGED vars
  BY <1>15 DEF Outside, CreateConfiguration, StagingToggles, CollectSecret, vars, LocalInv
<1> QED
  BY <1>1, <1>2, <1>3, <1>4, <1>5, <1>6, <1>7, <1>8, <1>9, <1>10, <1>11, <1>12, <1>13, <1>14,
     <1>15 DEF Next, Proceed

\* Before any request types are correct and requests are consistent.
LEMMA InitLocal == Init => TypeOK /\ LocalInv
<1> SUFFICES ASSUME Init PROVE TypeOK /\ LocalInv
  OBVIOUS
<1>1. TypeOK
  BY ConstantTypes, IdleFits DEF Init, TypeOK, Fits, NoSecret
<1>2. LocalInv
  BY IdleLocal DEF Init, LocalInv
<1> QED BY <1>1, <1>2

\* In every state each variable has its type: what a request holds when it writes a
\* secret or deploys is a set of names of the right kind (envUpdate, configUpdate,
\* deployApp).
THEOREM SettingsTypes == Spec => []TypeOK
<1>1. Init => TypeOK /\ LocalInv
  BY InitLocal
<1>2. TypeOK /\ LocalInv /\ [Next]_vars => (TypeOK /\ LocalInv)'
  BY TypeStep, LocalStep
<1> QED BY <1>1, <1>2, PTL DEF Spec
-----------------------------------------------------------------------------
(* What requests know of the secrets, as long as the application is not deleted *)

\* A request that does nothing still knows what it knew: applications and secrets
\* stay, and those about to write a copy are told when a secret changes.
LEMMA OthersSee ==
  ASSUME TypeOK, NEW q \in Req, Seen(req[q], q), req'[q] = req[q],
         app' = app \/ (app = None /\ Owned),
         \A a \in Area : There(a) => There(a)',
         q \in stale => q \in stale',
         \A a \in Area : secret'[a].data # secret[a].data /\ At(q, "write") /\ req[q].area = a
                   => q \in stale'
  PROVE  Seen(req[q], q)'
<1>1. req[q].area \in Area
  BY RequestTypes
<1>2. req[q].owner \in {None, app'} /\ (req[q].pc = "make" => req[q].owner # None)
  BY DEF Seen
<1>3. "env" \in Area
  BY DEF Area
<1>4. req[q].pc = "write" /\ req[q].versioned /\ q \notin stale'
        => req[q].copy = secret'[req[q].area].data
  BY <1>1 DEF Seen, At
<1> QED BY <1>1, <1>2, <1>3, <1>4 DEF Seen

\* An idle request knows nothing.
LEMMA IdleSees == ASSUME NEW r PROVE Seen(Idle, r)
BY DEF Seen, Idle, Loading

\* A request that has loaded a secret, or created it.
LEMMA LoadedSees ==
  ASSUME TypeOK, TypeOK', LocalInv, NEW r \in Req, Seen(req[r], r),
         req[r].pc \in Loading,
         NEW d, NEW versioned \in BOOLEAN, Loaded(r, d, versioned),
         app' = app, \A a \in Area : There(a) => There(a)',
         secret'[req[r].area].owner # None, secret'[req[r].area].data = d,
         versioned \/ ~There(req[r].area)
  PROVE  Seen(req[r], r)'
<1> DEFINE q == req[r]
<1>q. /\ q \in Request /\ Shape(q) /\ PlanShape(q)
      /\ q.phase \in {"first", "known", "update", "deploy"} /\ q.area \in {"env", "conf"}
      /\ \A new : Become(r, new) => req'[r] = new
  BY RequestTypes DEF LocalInv, Local, Shape, Loading, Fits, Request, Phases, Area, Become, TypeOK
<1>a. Area = {"env", "conf"}
  BY DEF Area
<1>1. CASE q.phase = "first" /\ q.area = "env"
  <2>1. req'[r] = Read(r, "conf", "first")
    BY <1>q, <1>1 DEF Loaded
  <2>2. req'[r].pc = "load" /\ req'[r].phase = "first" /\ req'[r].owner = q.owner
    BY <2>1, ReadFields
  <2> QED BY <1>1, <2>2 DEF Seen, There
<1>2. CASE q.phase = "first" /\ q.area = "conf"
  <2>1. req'[r] = [q EXCEPT !.pc = "state"]
    BY <1>q, <1>2 DEF Loaded
  <2>2. req'[r].pc = "state" /\ req'[r].phase = "first" /\ req'[r].owner = q.owner
    BY <1>q, <1>2, <2>1 DEF Request
  <2>3. \A a \in Area : There(a)'
    BY <1>a, <1>2 DEF Seen, There, Loading
  <2> QED BY <2>2, <2>3 DEF Seen, Loading
<1>3. CASE q.phase = "known"
  <2>1. req'[r] = [q EXCEPT !.pc = "exist", !.conf = d]
    BY <1>q, <1>3 DEF Loaded
  <2>2. req'[r].pc = "exist" /\ req'[r].phase = "known" /\ req'[r].owner = q.owner
    BY <1>q, <1>3, <2>1 DEF Request
  <2>3. \A a \in Area : There(a)'
    BY <1>3 DEF Seen
  <2> QED BY <2>2, <2>3 DEF Seen
<1>4. CASE q.phase = "deploy" /\ q.area = "env"
  <2>1. req'[r] = [Read(r, "conf", "deploy") EXCEPT !.env = d]
    BY <1>q, <1>4 DEF Loaded
  <2>2. req'[r].pc = "load" /\ req'[r].phase = "deploy" /\ req'[r].owner = q.owner
    BY <1>q, <2>1 DEF Read, Request
  <2> QED BY <2>2 DEF Seen
<1>5. CASE q.phase = "deploy" /\ q.area = "conf"
  <2>1. req'[r] = [q EXCEPT !.pc = "bound", !.conf = d]
    BY <1>q, <1>5 DEF Loaded
  <2>2. req'[r].pc = "bound" /\ req'[r].phase = "deploy" /\ req'[r].owner = q.owner
    BY <1>q, <1>5, <2>1 DEF Request
  <2> QED BY <2>2 DEF Seen
<1>6. CASE q.phase = "update"
  <2>1. req'[r] = [q EXCEPT !.pc = "write", !.copy = d, !.versioned = versioned]
    BY <1>q, <1>6 DEF Loaded
  <2>2. /\ req'[r].pc = "write" /\ req'[r].phase = "update" /\ req'[r].owner = q.owner
        /\ req'[r].op = q.op /\ req'[r].plan = q.plan /\ req'[r].area = q.area
        /\ req'[r].copy = d /\ req'[r].versioned = versioned
    BY <1>q, <1>6, <2>1 DEF Request
  <2>3. q.op # "create" => \A a \in Area : There(a)
    BY <1>6 DEF Seen
  <2>4. ~versioned => q.plan[q.area].mode = "replace"
    BY <1>q, <1>a, <1>6, <2>3 DEF Shape, PlanShape
  <2> QED BY <2>2, <2>3, <2>4 DEF Seen, There
<1> QED BY <1>q, <1>1, <1>2, <1>3, <1>4, <1>5, <1>6

\* Every step keeps what requests know of the secrets, as long as none deletes the
\* application.
LEMMA SeenStep ==
  ASSUME "delete" \notin Ops, TypeOK, TypeOK', LocalInv, SeenInv, [Next]_vars
  PROVE  SeenInv'
<1>r. \A r \in Req : /\ req[r] \in Request /\ Shape(req[r]) /\ PlanShape(req[r])
                     /\ Seen(req[r], r) /\ req[r].area \in Area
                     /\ \A new : Become(r, new) => req'[r] = new
  BY RequestTypes DEF LocalInv, Local, SeenInv, Fits, Become, TypeOK
<1>b. \* it is enough to look at the request itself where the secrets do not change
      ASSUME NEW r \in Req, NEW new, Become(r, new), UNCHANGED <<app, secret>>,
             \A q \in Req \ {r} : q \in stale => q \in stale', Seen(req[r], r)'
      PROVE  SeenInv'
  <2>1. Owned'
    BY <1>b DEF SeenInv, Owned, There
  <2>2. ASSUME NEW q \in Req, q # r PROVE Seen(req[q], q)'
    <3>1. req'[q] = req[q]
      BY <1>b, <2>2 DEF Become, TypeOK
    <3>2. Seen(req[q], q) /\ app' = app /\ (q \in stale => q \in stale')
      BY <1>b, <1>r, <2>2
    <3>3. \A a \in Area : (There(a) => There(a)') /\ secret'[a].data = secret[a].data
      BY <1>b DEF There
    <3>4. app' = app \/ (app = None /\ Owned)
      BY <3>2
    <3>5. \A a \in Area : There(a) => There(a)'
      BY <3>3
    <3>6. \A a \in Area : secret'[a].data # secret[a].data /\ At(q, "write") /\ req[q].area = a
                    => q \in stale'
      BY <3>3
    <3>7. Seen(req[q], q) /\ (q \in stale => q \in stale')
      BY <3>2
    <3> QED BY <3>1, <3>4, <3>5, <3>6, <3>7, OthersSee DEF Seen, There
  <2> QED BY <1>b, <2>1, <2>2 DEF SeenInv
<1>0. \* a request that ends
      ASSUME NEW r \in Req, Become(r, Idle), UNCHANGED <<app, secret>>,
             \A q \in Req \ {r} : q \in stale => q \in stale'
      PROVE  SeenInv'
  <2>1. req'[r] = Idle
    BY <1>0, <1>r
  <2>2. Seen(req[r], r)'
    BY <2>1 DEF Seen, Idle, Loading
  <2> QED BY <1>0, <1>b, <2>2
<1>c. \* a request that is not at a place where it has to know anything
      ASSUME NEW r \in Req, NEW new, Become(r, new), UNCHANGED <<app, secret, stale>>,
             new.pc \notin {"remove", "delcr", "make", "state", "write"},
             new.owner \in {None, app}, new.phase \in {"none", "first", "deploy"},
             new.phase = "first" => new.pc \notin Loading \/ new.area = "env"
      PROVE  SeenInv'
  <2>1. req'[r] = new
    BY <1>c, <1>r
  <2>2. Seen(req[r], r)'
    BY <1>c, <2>1 DEF Seen, Loading
  <2> QED BY <1>b, <1>c, <2>2
<1>1. ASSUME NEW r \in Req, Begin(r) PROVE SeenInv'
  <2>1. ASSUME NEW mode, NEW v, BeginSet(r, mode, v) PROVE SeenInv'
    <3> DEFINE new == [Idle EXCEPT !.op = "set", !.pc = "lookup", !.phase = "first",
                                   !.plan = PlanFor("env", mode, {v})]
    <3>1. new.pc = "lookup" /\ new.phase = "first" /\ new.owner = None
      BY DEF Idle
    <3> HIDE DEF new
    <3> QED BY <1>c, <2>1, <3>1 DEF BeginSet, Loading, new
  <2>2. ASSUME NEW c, BeginBind(r, c) PROVE SeenInv'
    <3> DEFINE new == [Idle EXCEPT !.op = "bind", !.pc = "lookup", !.phase = "first",
                                   !.target = {c}, !.plan = PlanFor("conf", "add", {c})]
    <3>1. new.pc = "lookup" /\ new.phase = "first" /\ new.owner = None
      BY DEF Idle
    <3> HIDE DEF new
    <3> QED BY <1>c, <2>2, <3>1 DEF BeginBind, Loading, new
  <2>3. ASSUME NEW c, BeginUnbind(r, c) PROVE SeenInv'
    <3> DEFINE new == [Idle EXCEPT !.op = "unbind", !.pc = "lookup", !.phase = "first",
                                   !.plan = PlanFor("conf", "remove", {c})]
    <3>1. new.pc = "lookup" /\ new.phase = "first" /\ new.owner = None
      BY DEF Idle
    <3> HIDE DEF new
    <3> QED BY <1>c, <2>3, <3>1 DEF BeginUnbind, Loading, new
  <2>4. ASSUME NEW mode, NEW v, NEW cs, BeginUpdate(r, mode, v, cs) PROVE SeenInv'
    <3> DEFINE new == [Idle EXCEPT !.op = "update", !.pc = "lookup", !.phase = "first",
                                   !.target = cs, !.plan = PlanBoth(mode, {v}, cs)]
    <3>1. new.pc = "lookup" /\ new.phase = "first" /\ new.owner = None
      BY DEF Idle
    <3> HIDE DEF new
    <3> QED BY <1>c, <2>4, <3>1 DEF BeginUpdate, Loading, new
  <2>5. ASSUME NEW vs, NEW cs, BeginCreate(r, vs, cs) PROVE SeenInv'
    <3>1. req'[r] = [Idle EXCEPT !.op = "create", !.pc = "create", !.phase = "update",
                                 !.plan = PlanBoth("replace", vs, cs)]
      BY <1>r, <2>5 DEF BeginCreate
    <3>2. /\ req'[r].pc = "create" /\ req'[r].phase = "update" /\ req'[r].owner = None
          /\ req'[r].op = "create"
      BY <3>1 DEF Idle
    <3>3. Seen(req[r], r)'
      BY <3>2 DEF Seen, Loading
    <3> QED BY <1>b, <2>5, <3>3 DEF BeginCreate
  <2>6. CASE BeginDeploy(r)
    <3> DEFINE new == [Idle EXCEPT !.op = "deploy", !.pc = "lookup", !.phase = "deploy"]
    <3>1. new.pc = "lookup" /\ new.phase = "deploy" /\ new.owner = None
      BY DEF Idle
    <3> HIDE DEF new
    <3> QED BY <1>c, <2>6, <3>1 DEF BeginDeploy, new
  <2>7. ASSUME NEW c, NEW unbind, BeginDelconf(r, c, unbind) PROVE SeenInv'
    <3> DEFINE new == [Idle EXCEPT !.op = "delconf", !.pc = "list", !.target = {c},
                                   !.unbind = unbind]
    <3>1. new.pc = "list" /\ new.phase = "none" /\ new.owner = None
      BY DEF Idle
    <3> HIDE DEF new
    <3> QED BY <1>c, <2>7, <3>1 DEF BeginDelconf, new
  <2>8. CASE BeginDelete(r)
    BY <2>8 DEF BeginDelete, Start
  <2> QED BY <1>1, <2>1, <2>2, <2>3, <2>4, <2>5, <2>6, <2>7, <2>8 DEF Begin
<1>2. ASSUME NEW r \in Req, LookupApp(r) PROVE SeenInv'
  <2> DEFINE new == [Read(r, "env", req[r].phase) EXCEPT
                       !.redeploy = (req[r].phase = "deploy") /\ image]
  <2>1. /\ new.pc = "load" /\ new.area = "env" /\ new.phase = req[r].phase
        /\ new.owner = req[r].owner
    BY <1>r DEF Read, Request
  <2>2. req[r].phase \in {"first", "deploy"} /\ req[r].owner \in {None, app}
    BY <1>2, <1>r DEF LookupApp, At, Shape, Seen
  <2>3. Become(r, new) \/ Become(r, Idle)
    BY <1>2 DEF LookupApp, End
  <2> HIDE DEF new
  <2> QED BY <1>0, <1>2, <1>c, <2>1, <2>2, <2>3 DEF LookupApp
<1>3. ASSUME NEW r \in Req, LoadSecret(r) PROVE SeenInv'
  <2>1. req[r].pc = "load" /\ UNCHANGED <<app, secret, stale>>
    BY <1>3 DEF LoadSecret, At
  <2>2. CASE There(req[r].area)
    <3>1. Loaded(r, secret[req[r].area].data, TRUE)
      BY <1>3, <2>2 DEF LoadSecret
    <3>2. Seen(req[r], r)'
      <4> DEFINE d == secret[req[r].area].data
      <4>1. secret'[req[r].area].data = d /\ secret'[req[r].area].owner # None
        BY <2>1, <2>2 DEF There
      <4> HIDE DEF d
      <4> QED BY <1>r, <2>1, <3>1, <4>1, LoadedSees DEF Loading, There, d
    <3>3. \E new : Become(r, new)
      BY <1>r, <2>1, <3>1, LoadedLocal DEF LocalInv, Loading
    <3> QED BY <1>b, <2>1, <3>2, <3>3
  <2>3. CASE ~There(req[r].area)
    <3>1. Become(r, [req[r] EXCEPT !.pc = "owner"])
      BY <1>3, <2>3 DEF LoadSecret
    <3>2. /\ req'[r].pc = "owner" /\ req'[r].phase = req[r].phase /\ req'[r].op = req[r].op
          /\ req'[r].owner = req[r].owner /\ req'[r].area = req[r].area
      BY <1>r, <3>1 DEF Request
    <3>3. Seen(req[r], r)'
      BY <1>r, <2>1, <3>2 DEF Seen, Loading, There
    <3> QED BY <1>b, <2>1, <3>1, <3>3
  <2> QED BY <2>2, <2>3
<1>4. ASSUME NEW r \in Req, ReadOwner(r) PROVE SeenInv'
  <2>1. req[r].pc = "owner" /\ UNCHANGED <<app, secret, stale>>
    BY <1>4 DEF ReadOwner, At
  <2>2. CASE app = None
    BY <1>0, <1>4, <2>1, <2>2 DEF ReadOwner, End
  <2>3. CASE app # None
    <3>1. Become(r, [req[r] EXCEPT !.pc = "make", !.owner = app])
      BY <1>4, <2>3 DEF ReadOwner
    <3>2. /\ req'[r].pc = "make" /\ req'[r].phase = req[r].phase /\ req'[r].op = req[r].op
          /\ req'[r].owner = app /\ req'[r].area = req[r].area
      <4>1. req'[r] = [req[r] EXCEPT !.pc = "make", !.owner = app] /\ req[r] \in Request
        BY <1>r, <3>1
      <4> QED BY <4>1 DEF Request
    <3>3. Seen(req[r], r)'
      BY <1>r, <2>1, <2>3, <3>2 DEF Seen, Loading, There
    <3> QED BY <1>b, <2>1, <3>1, <3>3
  <2> QED BY <2>2, <2>3
<1>5. ASSUME NEW r \in Req, MakeSecret(r) PROVE SeenInv'
  <2> DEFINE a == req[r].area
  <2>1. req[r].pc = "make" /\ app' = app /\ a \in Area
    BY <1>5, <1>r DEF MakeSecret, At
  <2>2. CASE There(a)
    BY <1>0, <1>5, <2>1, <2>2 DEF MakeSecret, End
  <2>3. CASE ~There(a)
    <3>1. /\ secret' = [secret EXCEPT ![a] = [owner |-> req[r].owner, data |-> {}]]
          /\ Outdate(a, r) /\ Loaded(r, {}, FALSE)
      BY <1>5, <2>3 DEF MakeSecret
    <3>2. req[r].owner = app /\ req[r].owner # None
      BY <1>r, <2>1 DEF Seen
    <3>3. /\ secret'[a] = [owner |-> app, data |-> {}]
          /\ \A b \in Area \ {a} : secret'[b] = secret[b]
      BY <2>1, <3>1, <3>2 DEF TypeOK
    <3>4. secret[a].data = {}
      BY <2>1, <2>3 DEF SeenInv, Owned
    <3>5. Owned'
      BY <2>1, <3>2, <3>3 DEF SeenInv, Owned, There
    <3>6. \A b \in Area : There(b) => There(b)'
      BY <3>2, <3>3 DEF There
    <3>7. Seen(req[r], r)'
      <4>1. secret'[a].owner # None /\ secret'[a].data = {}
        BY <3>2, <3>3
      <4> QED BY <1>r, <2>1, <2>3, <3>1, <3>6, <4>1, LoadedSees DEF Loading
    <3>8. \E new : Become(r, new)
      BY <1>r, <2>1, <3>1, LoadedLocal DEF LocalInv, Loading
    <3>9. ASSUME NEW q \in Req, q # r PROVE Seen(req[q], q)'
      <4>1. req'[q] = req[q]
        BY <3>8, <3>9 DEF Become, TypeOK
      <4>2. \A b \in Area : secret'[b].data = secret[b].data
        <5>1. secret'[a].data = {}
          BY <3>3
        <5> QED BY <3>3, <3>4, <5>1
      <4>3. q \in stale => q \in stale'
        BY <3>1, <3>9 DEF Outdate
      <4>4. Seen(req[q], q)
        BY <1>r
      <4>5. app' = app \/ (app = None /\ Owned)
        BY <2>1
      <4>6. \A b \in Area : secret'[b].data # secret[b].data /\ At(q, "write") /\ req[q].area = b
                      => q \in stale'
        BY <4>2
      <4> QED BY <3>6, <4>1, <4>3, <4>4, <4>5, <4>6, OthersSee DEF Seen, There
    <3> QED BY <3>5, <3>7, <3>9 DEF SeenInv
  <2> QED BY <2>2, <2>3
<1>6. ASSUME NEW r \in Req, ReadState(r) PROVE SeenInv'
  <2>1. req[r].pc = "state" /\ UNCHANGED <<app, secret, stale>>
    BY <1>6 DEF ReadState, At
  <2>2. PICK redeploy :
          IF req[r].op = "bind"
          THEN Become(r, [Read(r, "conf", "known") EXCEPT !.redeploy = redeploy])
          ELSE Become(r, [Read(r, FirstArea(r), "update") EXCEPT !.redeploy = redeploy])
    BY <1>6 DEF ReadState
  <2>3. req'[r].pc = "load" /\ req'[r].owner = req[r].owner
    <3>1. /\ req[r] \in Request
          /\ \/ req'[r] = [Read(r, "conf", "known") EXCEPT !.redeploy = redeploy]
             \/ req'[r] = [Read(r, FirstArea(r), "update") EXCEPT !.redeploy = redeploy]
      BY <1>r, <2>2
    <3> QED BY <3>1 DEF Read, Request
  <2>4. (\A a \in Area : There(a)) /\ req[r].owner \in {None, app}
    BY <1>r, <2>1 DEF Seen
  <2>5. /\ req'[r].owner \in {None, app'} /\ req'[r].pc = "load"
        /\ secret'["env"].owner # None /\ secret'["conf"].owner # None
    BY <2>1, <2>3, <2>4 DEF There, Area
  <2>6. Seen(req[r], r)'
    BY <2>5 DEF Seen, There, Area
  <2> QED BY <1>b, <2>1, <2>2, <2>6
<1>7. ASSUME NEW r \in Req, CheckConfigurations(r) PROVE SeenInv'
  <2>1. req[r].pc = "exist" /\ UNCHANGED <<app, secret, stale>>
    BY <1>7 DEF CheckConfigurations, At
  <2>2. \/ Become(r, [Read(r, "conf", "update") EXCEPT !.conf = {}])
        \/ Become(r, Idle)
    BY <1>7 DEF CheckConfigurations, End
  <2>3. CASE Become(r, [Read(r, "conf", "update") EXCEPT !.conf = {}])
    <3>1. req'[r].pc = "load" /\ req'[r].owner = req[r].owner
      <4>1. req[r] \in Request
        BY <1>r
      <4>2. req'[r] = [Read(r, "conf", "update") EXCEPT !.conf = {}]
        BY <1>r, <2>3
      <4> QED BY <4>1, <4>2 DEF Read, Request
    <3>2. (\A a \in Area : There(a)) /\ req[r].owner \in {None, app}
      BY <1>r, <2>1 DEF Seen, Shape
    <3>3. Seen(req[r], r)'
      BY <2>1, <3>1, <3>2 DEF Seen, There, Area
    <3> QED BY <1>b, <2>1, <2>3, <3>3
  <2> QED BY <1>0, <2>1, <2>2, <2>3
<1>8. ASSUME NEW r \in Req, WriteSecret(r) PROVE SeenInv'
  <2> DEFINE a == req[r].area
  <2>1. /\ req[r].pc = "write" /\ req[r].phase = "update" /\ app' = app /\ a \in Area
        /\ There(a)
    BY <1>8, <1>r DEF WriteSecret, At, Shape, Seen
  <2>2. CASE /\ Outdate(a, r) /\ AfterWrite(r)
             /\ secret' = [secret EXCEPT ![a].data = Modify(req[r].plan[a], req[r].copy)]
    <3>1. PICK new : Become(r, new) /\ Local(new)
      BY <1>r, <2>1, <2>2, AfterWriteLocal DEF LocalInv
    <3>2. /\ \A b \in Area : secret'[b].owner = secret[b].owner
          /\ \A b \in Area \ {a} : secret'[b].data = secret[b].data
      BY <2>1, <2>2 DEF TypeOK, Secret
    <3>3. Owned'
      BY <2>1, <3>2 DEF SeenInv, Owned, There
    <3>4. ASSUME NEW q \in Req, q # r PROVE Seen(req[q], q)'
      <4>1. req'[q] = req[q]
        BY <3>1, <3>4 DEF Become, TypeOK
      <4>2. q \in stale => q \in stale'
        BY <2>2, <3>4 DEF Outdate
      <4>3. \A b \in Area : There(b) => There(b)'
        BY <3>2 DEF There
      <4>4. \A b \in Area : secret'[b].data # secret[b].data /\ At(q, "write") /\ req[q].area = b
                      => q \in stale'
        BY <2>2, <3>2, <3>4 DEF Outdate
      <4>5. Seen(req[q], q) /\ (app' = app \/ (app = None /\ Owned))
        BY <1>r, <2>1
      <4> QED BY <4>1, <4>2, <4>3, <4>4, <4>5, OthersSee DEF Seen, There
    <3>5. /\ req'[r].pc \in {"exist", "load", "lookup", "drop", "idle"} /\ req'[r].owner = None
          /\ req'[r].phase \in {"none", "update", "deploy"}
          /\ req'[r].phase = "update" => req'[r].op = req[r].op
      <4> DEFINE q == [req[r] EXCEPT !.plan[req[r].area] = NoChange, !.copy = {},
                                     !.versioned = FALSE, !.owner = None, !.tries = 0]
      <4>1. q \in Request /\ q.owner = None /\ q.op = req[r].op /\ q.phase = "update"
        <5>1. [req[r].plan EXCEPT ![a] = NoChange] \in Plan
          BY <1>r, <2>1, ConstantTypes DEF Request, Plan
        <5>2. req[r] \in Request /\ req[r].phase = "update"
          BY <1>r, <2>1
        <5>3. q = [req[r] EXCEPT !.plan = [req[r].plan EXCEPT ![a] = NoChange], !.copy = {},
                                 !.versioned = FALSE, !.owner = None, !.tries = 0]
          BY <5>2 DEF Request
        <5> HIDE DEF q
        <5> QED BY <5>1, <5>2, <5>3 DEF Request
      <4>2. \/ Become(r, [q EXCEPT !.pc = "exist"])
            \/ Become(r, [q EXCEPT !.pc = "load", !.area = "env"])
            \/ Become(r, [q EXCEPT !.pc = "lookup", !.phase = "deploy", !.redeploy = FALSE])
            \/ Become(r, [q EXCEPT !.pc = "drop"])
            \/ Become(r, Idle)
        BY <2>2 DEF AfterWrite, End
      <4> HIDE DEF q
      <4>3. CASE Become(r, [q EXCEPT !.pc = "exist"])
        <5>1. req'[r] = [q EXCEPT !.pc = "exist"]
          BY <1>r, <4>3
        <5> QED BY <4>1, <5>1 DEF Request
      <4>4. CASE Become(r, [q EXCEPT !.pc = "load", !.area = "env"])
        <5>1. req'[r] = [q EXCEPT !.pc = "load", !.area = "env"]
          BY <1>r, <4>4
        <5> QED BY <4>1, <5>1 DEF Request
      <4>5. CASE Become(r, [q EXCEPT !.pc = "lookup", !.phase = "deploy", !.redeploy = FALSE])
        <5>1. req'[r] = [q EXCEPT !.pc = "lookup", !.phase = "deploy", !.redeploy = FALSE]
          BY <1>r, <4>5
        <5> QED BY <4>1, <5>1 DEF Request
      <4>6. CASE Become(r, [q EXCEPT !.pc = "drop"])
        BY <1>r, <4>1, <4>6 DEF Request
      <4>7. CASE Become(r, Idle)
        <5>1. req'[r] = Idle
          BY <1>r, <4>7
        <5> QED BY <5>1 DEF Idle
      <4> QED BY <4>2, <4>3, <4>4, <4>5, <4>6, <4>7
    <3>6. Seen(req[r], r)'
      <4>1. req[r].op # "create" => \A b \in Area : There(b)'
        BY <1>r, <2>1, <3>2 DEF Seen, There
      <4> QED BY <3>5, <4>1 DEF Seen, There
    <3> QED BY <3>3, <3>4, <3>6 DEF SeenInv
  <2>3. CASE /\ stale' = stale \ {r} /\ UNCHANGED secret
             /\ Become(r, [Read(r, a, "update") EXCEPT !.tries = @ + 1, !.copy = {},
                                                       !.versioned = FALSE])
    <3>1. /\ req'[r].pc = "load" /\ req'[r].owner = req[r].owner /\ req'[r].op = req[r].op
          /\ req'[r].phase = "update"
      <4>1. req'[r] = [Read(r, a, "update") EXCEPT !.tries = @ + 1, !.copy = {},
                                                   !.versioned = FALSE]
        BY <1>r, <2>3
      <4> QED BY <1>r, <4>1 DEF Read, Request
    <3>2. Seen(req[r], r)'
      BY <1>r, <2>1, <2>3, <3>1 DEF Seen, There
    <3> QED BY <1>b, <2>1, <2>3, <3>2
  <2>4. CASE stale' = stale \ {r} /\ UNCHANGED secret /\ Become(r, Idle)
    BY <1>0, <2>1, <2>4
  <2> QED BY <1>8, <2>2, <2>3, <2>4 DEF WriteSecret, End
<1>9. ASSUME NEW r \in Req, LookupBound(r) PROVE SeenInv'
  <2> DEFINE new == [req[r] EXCEPT !.pc = "helm", !.redeploy = FALSE]
  <2>1. req[r].pc = "bound" /\ UNCHANGED <<app, secret, stale>>
    BY <1>9 DEF LookupBound, At
  <2>2. Become(r, new) \/ Become(r, Idle)
    BY <1>9 DEF LookupBound, End
  <2>3. CASE Become(r, new)
    <3>1. /\ req'[r].pc = "helm" /\ req'[r].phase = req[r].phase /\ req'[r].op = req[r].op
          /\ req'[r].owner = req[r].owner
      <4>1. req[r] \in Request /\ req'[r] = new
        BY <1>r, <2>3
      <4> QED BY <4>1 DEF Request
    <3>2. Seen(req[r], r)'
      BY <1>r, <2>1, <3>1 DEF Seen, There, Loading
    <3> QED BY <1>b, <2>1, <2>3, <3>2
  <2> QED BY <1>0, <2>1, <2>2, <2>3
<1>10. ASSUME NEW r \in Req, HelmDeploy(r) PROVE SeenInv'
  <2> DEFINE new == [req[r] EXCEPT !.pc = "drop", !.env = {}, !.conf = {}]
  <2>1. req[r].pc = "helm" /\ UNCHANGED <<app, secret, stale>>
    BY <1>10 DEF HelmDeploy, At
  <2>2. Become(r, new) \/ Become(r, Idle)
    BY <1>10 DEF HelmDeploy, End
  <2>3. CASE Become(r, new)
    <3>1. /\ req'[r].pc = "drop" /\ req'[r].phase = req[r].phase /\ req'[r].op = req[r].op
          /\ req'[r].owner = req[r].owner
      <4>1. req[r] \in Request /\ req'[r] = new
        BY <1>r, <2>3
      <4> QED BY <4>1 DEF Request
    <3>2. Seen(req[r], r)'
      BY <1>r, <2>1, <3>1 DEF Seen, There, Loading
    <3> QED BY <1>b, <2>1, <2>3, <3>2
  <2> QED BY <1>0, <2>1, <2>2, <2>3
<1>11. ASSUME NEW r \in Req, CreateApp(r) PROVE SeenInv'
  <2>1. req[r].pc = "create" /\ req[r].op = "create" /\ UNCHANGED <<secret, stale>>
    BY <1>11, <1>r DEF CreateApp, At, Shape
  <2>2. CASE app # None
    BY <1>0, <1>11, <2>1, <2>2 DEF CreateApp, End
  <2>3. CASE app = None
    <3>1. Become(r, Read(r, "conf", "update"))
      BY <1>11, <2>3 DEF CreateApp
    <3>2. \A a \in Area : ~There(a)
      BY <2>3 DEF SeenInv, Owned, There
    <3>3. Owned'
      BY <2>1, <3>2 DEF SeenInv, Owned, There
    <3>4. /\ req'[r].pc = "load" /\ req'[r].phase = "update" /\ req'[r].op = "create"
          /\ req'[r].owner = req[r].owner
      <4>1. req'[r] = Read(r, "conf", "update")
        BY <1>r, <3>1
      <4> QED BY <2>1, <4>1, ReadFields
    <3>5. req[r].owner = None
      BY <1>r, <2>3 DEF Seen
    <3>6. Seen(req[r], r)'
      BY <3>4, <3>5 DEF Seen
    <3>7. ASSUME NEW q \in Req, q # r PROVE Seen(req[q], q)'
      <4>1. req'[q] = req[q]
        BY <3>1, <3>7 DEF Become, TypeOK
      <4>2. app' = app \/ (app = None /\ Owned)
        BY <2>3 DEF SeenInv
      <4>3. \A a \in Area : There(a) => There(a)'
        BY <3>2
      <4>4. \A a \in Area : secret'[a].data # secret[a].data /\ At(q, "write") /\ req[q].area = a
                      => q \in stale'
        BY <2>1
      <4>5. Seen(req[q], q) /\ (q \in stale => q \in stale')
        BY <1>r, <2>1
      <4> QED BY <4>1, <4>2, <4>3, <4>4, <4>5, OthersSee DEF Seen, There
    <3> QED BY <3>3, <3>6, <3>7 DEF SeenInv
  <2> QED BY <2>2, <2>3
<1>12. ASSUME NEW r \in Req, RemoveWorkload(r) \/ DeleteApp(r) PROVE SeenInv'
  <2>1. req[r].pc \in {"remove", "delcr"}
    BY <1>12 DEF RemoveWorkload, DeleteApp, At
  <2> QED BY <1>r, <2>1 DEF Seen
<1>13. ASSUME NEW r \in Req, ListBound(r) PROVE SeenInv'
  <2> DEFINE drop == [req[r] EXCEPT !.pc = "drop"]
             unbind == [req[r] EXCEPT !.pc = "lookup", !.phase = "first",
                                      !.plan = PlanFor("conf", "remove", req[r].target)]
  <2>1. req[r].pc = "list" /\ UNCHANGED <<app, secret, stale>>
    BY <1>13 DEF ListBound, At
  <2>2. Become(r, drop) \/ Become(r, unbind) \/ Become(r, Idle)
    BY <1>13 DEF ListBound, End
  <2>3. CASE Become(r, drop)
    <3>1. /\ req'[r].pc = "drop" /\ req'[r].phase = req[r].phase /\ req'[r].op = req[r].op
          /\ req'[r].owner = req[r].owner
      <4>1. req[r] \in Request /\ req'[r] = drop
        BY <1>r, <2>3
      <4> QED BY <4>1 DEF Request
    <3>2. Seen(req[r], r)'
      BY <1>r, <2>1, <3>1 DEF Seen, There, Loading
    <3> QED BY <1>b, <2>1, <2>3, <3>2
  <2>4. CASE Become(r, unbind)
    <3>1. req'[r].pc = "lookup" /\ req'[r].phase = "first" /\ req'[r].owner = req[r].owner
      <4> DEFINE plan == PlanFor("conf", "remove", req[r].target)
      <4> HIDE DEF plan
      <4>1. req'[r] = [req[r] EXCEPT !.pc = "lookup", !.phase = "first", !.plan = plan]
        BY <1>r, <2>4 DEF plan
      <4> QED BY <1>r, <4>1 DEF Request
    <3>2. Seen(req[r], r)'
      BY <1>r, <2>1, <3>1 DEF Seen, There, Loading
    <3> QED BY <1>b, <2>1, <2>4, <3>2
  <2> QED BY <1>0, <2>1, <2>2, <2>3, <2>4
<1>14. ASSUME NEW r \in Req, DropConfiguration(r) \/ Fail(r) PROVE SeenInv'
  BY <1>0, <1>14 DEF DropConfiguration, Fail, End
<1>15. CASE Outside \/ UNCHANGED vars
  <2>1. UNCHANGED <<app, secret, stale, req>>
    <3>1. ASSUME NEW a \in Area, CollectSecret(a) PROVE FALSE
      BY <3>1 DEF CollectSecret, SeenInv, Owned
    <3> QED BY <1>15, <3>1 DEF Outside, CreateConfiguration, StagingToggles, vars
  <2> QED BY <2>1 DEF SeenInv, Owned, Seen, There
<1> QED
  BY <1>1, <1>2, <1>3, <1>4, <1>5, <1>6, <1>7, <1>8, <1>9, <1>10, <1>11, <1>12, <1>13, <1>14,
     <1>15 DEF Next, Proceed
-----------------------------------------------------------------------------
(* AppSettings implements AtomicSettings *)

\* There are no settings, and no changes to make, before any request.
LEMMA RefineInit == Init => Atomic!Init
BY DEF Init, Atomic!Init, Atomic!Nothing, NoSecret, Idle, NoPlan

\* Every step makes one change, accepts or abandons changes, or does nothing to the
\* settings.  A write replaces the settings as they are, or all of them.
LEMMA RefineStep ==
  ASSUME TypeOK, TypeOK', LocalInv, SeenInv, [Next]_vars, "delete" \notin Ops
  PROVE  [Atomic!Next]_<<[a \in Area |-> secret[a].data], [r \in Req |-> req[r].plan]>>
<1> DEFINE data == [a \in Area |-> secret[a].data]
           todo == [r \in Req |-> req[r].plan]
<1>r. \A r \in Req : /\ req[r] \in Request /\ Shape(req[r]) /\ PlanShape(req[r])
                     /\ Seen(req[r], r) /\ req[r].area \in Area /\ req[r].plan \in Plan
                     /\ \A new : Become(r, new) => req'[r] = new
  BY RequestTypes DEF LocalInv, Local, SeenInv, Fits, Become, TypeOK
<1>s. \* a request that keeps its plan
      ASSUME NEW r \in Req, NEW new, Become(r, new), new.plan = req[r].plan,
             \A a \in Area : secret'[a].data = secret[a].data
      PROVE  UNCHANGED <<data, todo>>
  BY <1>s DEF Become, TypeOK
<1>e. \* a request that ends
      ASSUME NEW r \in Req, Become(r, Idle), \A a \in Area : secret'[a].data = secret[a].data
      PROVE  Atomic!Abandon(r)
  <2>1. todo' = [todo EXCEPT ![r] = NoPlan]
    BY <1>e DEF Become, TypeOK, Idle
  <2> QED BY <1>e, <2>1 DEF Atomic!Abandon, Atomic!Nothing, NoPlan
<1>p. \* a request that begins with a plan
      ASSUME NEW r \in Req, NEW new, Become(r, new), new.plan \in Plan, req[r].plan = NoPlan,
             UNCHANGED secret
      PROVE  Atomic!Accept(r)
  <2>1. todo' = [todo EXCEPT ![r] = new.plan]
    BY <1>p DEF Become, TypeOK
  <2> QED BY <1>p, <2>1 DEF Atomic!Accept, Atomic!Nothing, NoPlan, Plan
<1>g. \* it is enough that the step is one of those
      ASSUME NEW r \in Req,
             Atomic!Accept(r) \/ Atomic!Abandon(r) \/ UNCHANGED <<data, todo>>
      PROVE  [Atomic!Next]_<<data, todo>>
  BY <1>g DEF Atomic!Next
<1>h. ASSUME NEW r \in Req, NEW a \in Area, Atomic!Perform(r, a)
      PROVE  [Atomic!Next]_<<data, todo>>
  BY <1>h DEF Atomic!Next
<1> HIDE DEF data, todo
<1>1. ASSUME NEW r \in Req, Begin(r) PROVE [Atomic!Next]_<<data, todo>>
  <2>0. req[r].pc = "idle" => req[r].plan = NoPlan
    <3>1. Idle.plan = NoPlan
      BY DEF Idle
    <3>2. Shape(req[r])
      BY <1>r
    <3>3. req[r].pc = "idle" => req[r] = Idle
      BY <3>2 DEF Shape
    <3> QED BY <3>1, <3>3
  <2>1. ASSUME NEW mode \in {"add", "remove"}, NEW v \in Var, BeginSet(r, mode, v)
        PROVE  Atomic!Accept(r)
    <3> DEFINE plan == PlanFor("env", mode, {v})
               new == [Idle EXCEPT !.op = "set", !.pc = "lookup", !.phase = "first",
                                   !.plan = plan]
    <3>1. plan \in Plan
      <4>1. {v} \in SUBSET KeysOf("env") /\ "env" \in Area
        BY DEF KeysOf, Area
      <4> QED BY <4>1, PlanTypes
    <3> HIDE DEF plan
    <3>2. Become(r, new) /\ req[r].pc = "idle" /\ UNCHANGED secret
      BY <2>1 DEF BeginSet, Start, At, plan
    <3>3. new.plan = plan
      BY DEF Idle
    <3> HIDE DEF new
    <3> QED BY <1>p, <2>0, <3>1, <3>2, <3>3
  <2>2. ASSUME NEW c \in Config, BeginBind(r, c) PROVE Atomic!Accept(r)
    <3> DEFINE plan == PlanFor("conf", "add", {c})
               new == [Idle EXCEPT !.op = "bind", !.pc = "lookup", !.phase = "first",
                                   !.target = {c}, !.plan = plan]
    <3>1. plan \in Plan
      <4>1. {c} \in SUBSET KeysOf("conf") /\ "conf" \in Area
        BY DEF KeysOf, Area
      <4> QED BY <4>1, PlanTypes
    <3> HIDE DEF plan
    <3>2. Become(r, new) /\ req[r].pc = "idle" /\ UNCHANGED secret
      BY <2>2 DEF BeginBind, Start, At, plan
    <3>3. new.plan = plan
      BY DEF Idle
    <3> HIDE DEF new
    <3> QED BY <1>p, <2>0, <3>1, <3>2, <3>3
  <2>3. ASSUME NEW c \in Config, BeginUnbind(r, c) PROVE Atomic!Accept(r)
    <3> DEFINE plan == PlanFor("conf", "remove", {c})
               new == [Idle EXCEPT !.op = "unbind", !.pc = "lookup", !.phase = "first",
                                   !.plan = plan]
    <3>1. plan \in Plan
      <4>1. {c} \in SUBSET KeysOf("conf") /\ "conf" \in Area
        BY DEF KeysOf, Area
      <4> QED BY <4>1, PlanTypes
    <3> HIDE DEF plan
    <3>2. Become(r, new) /\ req[r].pc = "idle" /\ UNCHANGED secret
      BY <2>3 DEF BeginUnbind, Start, At, plan
    <3>3. new.plan = plan
      BY DEF Idle
    <3> HIDE DEF new
    <3> QED BY <1>p, <2>0, <3>1, <3>2, <3>3
  <2>4. ASSUME NEW mode \in {"add", "replace"}, NEW v \in Var, NEW cs \in SUBSET Config,
               BeginUpdate(r, mode, v, cs)
        PROVE  Atomic!Accept(r)
    <3> DEFINE plan == PlanBoth(mode, {v}, cs)
               new == [Idle EXCEPT !.op = "update", !.pc = "lookup", !.phase = "first",
                                   !.target = cs, !.plan = plan]
    <3>1. plan \in Plan
      <4>1. {v} \in SUBSET Var
        OBVIOUS
      <4> QED BY <4>1, PlanBothTypes
    <3> HIDE DEF plan
    <3>2. Become(r, new) /\ req[r].pc = "idle" /\ UNCHANGED secret
      BY <2>4 DEF BeginUpdate, Start, At, plan
    <3>3. new.plan = plan
      BY DEF Idle
    <3> HIDE DEF new
    <3> QED BY <1>p, <2>0, <3>1, <3>2, <3>3
  <2>5. ASSUME NEW vs \in SUBSET Var, NEW cs \in SUBSET Config, BeginCreate(r, vs, cs)
        PROVE  Atomic!Accept(r)
    <3> DEFINE plan == PlanBoth("replace", vs, cs)
               new == [Idle EXCEPT !.op = "create", !.pc = "create", !.phase = "update",
                                   !.plan = plan]
    <3>1. plan \in Plan
      BY PlanBothTypes
    <3> HIDE DEF plan
    <3>2. Become(r, new) /\ req[r].pc = "idle" /\ UNCHANGED secret
      BY <2>5 DEF BeginCreate, Start, At, plan
    <3>3. new.plan = plan
      BY DEF Idle
    <3> HIDE DEF new
    <3> QED BY <1>p, <2>0, <3>1, <3>2, <3>3
  <2>6. CASE BeginDeploy(r)
    <3> DEFINE new == [Idle EXCEPT !.op = "deploy", !.pc = "lookup", !.phase = "deploy"]
    <3>1. Become(r, new) /\ req[r].pc = "idle" /\ UNCHANGED secret
      BY <2>6 DEF BeginDeploy, Start, At
    <3>2. new.plan = NoPlan
      BY DEF Idle
    <3> HIDE DEF new
    <3> QED BY <1>g, <1>s, <2>0, <3>1, <3>2
  <2>7. ASSUME NEW c, NEW unbind, BeginDelconf(r, c, unbind)
        PROVE  UNCHANGED <<data, todo>>
    <3> DEFINE new == [Idle EXCEPT !.op = "delconf", !.pc = "list", !.target = {c},
                                   !.unbind = unbind]
    <3>1. Become(r, new) /\ req[r].pc = "idle" /\ UNCHANGED secret
      BY <2>7 DEF BeginDelconf, Start, At
    <3>2. new.plan = NoPlan
      BY DEF Idle
    <3> HIDE DEF new
    <3> QED BY <1>s, <2>0, <3>1, <3>2
  <2>8. ~BeginDelete(r)
    BY DEF BeginDelete, Start
  <2> QED BY <1>1, <1>g, <2>1, <2>2, <2>3, <2>4, <2>5, <2>6, <2>7, <2>8 DEF Begin
<1>2. ASSUME NEW r \in Req, LookupApp(r) PROVE [Atomic!Next]_<<data, todo>>
  <2> DEFINE new == [Read(r, "env", req[r].phase) EXCEPT
                       !.redeploy = (req[r].phase = "deploy") /\ image]
  <2>1. new.plan = req[r].plan
    BY <1>r DEF Read, Request
  <2>2. (Become(r, new) \/ Become(r, Idle)) /\ UNCHANGED secret
    BY <1>2 DEF LookupApp, End
  <2> HIDE DEF new
  <2> QED BY <1>e, <1>g, <1>s, <2>1, <2>2
<1>l. \* a request that goes on with a secret keeps its plan
      ASSUME NEW r \in Req, req[r].pc \in Loading, NEW d, NEW versioned,
             Loaded(r, d, versioned), \A a \in Area : secret'[a].data = secret[a].data
      PROVE  UNCHANGED <<data, todo>>
  <2> DEFINE q == req[r]
  <2>q. /\ q \in Request /\ q.phase \in {"first", "known", "update", "deploy"}
        /\ q.area \in {"env", "conf"}
    BY <1>l, <1>r DEF Shape, Loading, Request, Phases, Area
  <2>1. /\ Read(r, "conf", "first").plan = q.plan
        /\ [q EXCEPT !.pc = "state"].plan = q.plan
        /\ [q EXCEPT !.pc = "exist", !.conf = d].plan = q.plan
        /\ [Read(r, "conf", "deploy") EXCEPT !.env = d].plan = q.plan
        /\ [q EXCEPT !.pc = "bound", !.conf = d].plan = q.plan
        /\ [q EXCEPT !.pc = "write", !.copy = d, !.versioned = versioned].plan = q.plan
    BY <2>q DEF Read, Request
  <2>2. \/ Become(r, Read(r, "conf", "first"))
        \/ Become(r, [q EXCEPT !.pc = "state"])
        \/ Become(r, [q EXCEPT !.pc = "exist", !.conf = d])
        \/ Become(r, [Read(r, "conf", "deploy") EXCEPT !.env = d])
        \/ Become(r, [q EXCEPT !.pc = "bound", !.conf = d])
        \/ Become(r, [q EXCEPT !.pc = "write", !.copy = d, !.versioned = versioned])
    BY <1>l, <2>q DEF Loaded
  <2>3. \E new : Become(r, new) /\ new.plan = q.plan
    BY <2>1, <2>2
  <2> QED BY <1>l, <1>s, <2>3
<1>3. ASSUME NEW r \in Req, LoadSecret(r) PROVE [Atomic!Next]_<<data, todo>>
  <2>1. req[r].pc \in Loading /\ UNCHANGED secret
    BY <1>3 DEF LoadSecret, At, Loading
  <2>2. CASE There(req[r].area)
    <3>1. Loaded(r, secret[req[r].area].data, TRUE)
      BY <1>3, <2>2 DEF LoadSecret
    <3> QED BY <1>g, <1>l, <2>1, <3>1
  <2>3. CASE ~There(req[r].area)
    <3> DEFINE new == [req[r] EXCEPT !.pc = "owner"]
    <3>1. Become(r, new)
      BY <1>3, <2>3 DEF LoadSecret
    <3>2. new.plan = req[r].plan
      BY <1>r DEF Request
    <3> HIDE DEF new
    <3> QED BY <1>g, <1>s, <2>1, <3>1, <3>2
  <2> QED BY <2>2, <2>3
<1>4. ASSUME NEW r \in Req, ReadOwner(r) PROVE [Atomic!Next]_<<data, todo>>
  <2> DEFINE new == [req[r] EXCEPT !.pc = "make", !.owner = app]
  <2>1. (Become(r, new) \/ Become(r, Idle)) /\ UNCHANGED secret
    BY <1>4 DEF ReadOwner, End
  <2>2. new.plan = req[r].plan
    BY <1>r DEF Request
  <2> HIDE DEF new
  <2> QED BY <1>e, <1>g, <1>s, <2>1, <2>2
<1>5. ASSUME NEW r \in Req, MakeSecret(r) PROVE [Atomic!Next]_<<data, todo>>
  <2> DEFINE a == req[r].area
  <2>1. req[r].pc \in Loading /\ a \in Area
    BY <1>5, <1>r DEF MakeSecret, At, Loading
  <2>2. CASE There(a)
    BY <1>5, <1>e, <1>g, <2>2 DEF MakeSecret, End
  <2>3. CASE ~There(a)
    <3>1. /\ secret' = [secret EXCEPT ![a] = [owner |-> req[r].owner, data |-> {}]]
          /\ Loaded(r, {}, FALSE)
      BY <1>5, <2>3 DEF MakeSecret
    <3>2. secret[a].data = {}
      BY <2>1, <2>3 DEF SeenInv, Owned
    <3>3. \A b \in Area : secret'[b].data = secret[b].data
      <4>1. secret'[a].data = {} /\ \A b \in Area \ {a} : secret'[b] = secret[b]
        BY <2>1, <3>1 DEF TypeOK
      <4> QED BY <3>2, <4>1
    <3> QED BY <1>g, <1>l, <2>1, <3>1, <3>3
  <2> QED BY <2>2, <2>3
<1>6. ASSUME NEW r \in Req, ReadState(r) PROVE [Atomic!Next]_<<data, todo>>
  <2> DEFINE known(b) == [Read(r, "conf", "known") EXCEPT !.redeploy = b]
             update(b) == [Read(r, FirstArea(r), "update") EXCEPT !.redeploy = b]
  <2>1. \A b : known(b).plan = req[r].plan /\ update(b).plan = req[r].plan
    BY <1>r DEF Read, Request
  <2>2. UNCHANGED secret /\ \E b : Become(r, known(b)) \/ Become(r, update(b))
    BY <1>6 DEF ReadState
  <2> HIDE DEF known, update
  <2> QED BY <1>g, <1>s, <2>1, <2>2
<1>7. ASSUME NEW r \in Req, CheckConfigurations(r) PROVE [Atomic!Next]_<<data, todo>>
  <2> DEFINE new == [Read(r, "conf", "update") EXCEPT !.conf = {}]
  <2>1. (Become(r, new) \/ Become(r, Idle)) /\ UNCHANGED secret
    BY <1>7 DEF CheckConfigurations, End
  <2>2. new.plan = req[r].plan
    BY <1>r DEF Read, Request
  <2> HIDE DEF new
  <2> QED BY <1>e, <1>g, <1>s, <2>1, <2>2
<1>8. ASSUME NEW r \in Req, WriteSecret(r) PROVE [Atomic!Next]_<<data, todo>>
  <2> DEFINE a == req[r].area
             change == req[r].plan[a]
             retry == [Read(r, a, "update") EXCEPT !.tries = @ + 1, !.copy = {},
                                                   !.versioned = FALSE]
  <2>1. /\ req[r].pc = "write" /\ a \in Area /\ change # NoChange
        /\ req[r].versioned \in BOOLEAN
    BY <1>8, <1>r DEF WriteSecret, At, Shape, PlanShape, Request
  <2>2. CASE /\ ~(req[r].versioned /\ r \in stale) /\ AfterWrite(r)
             /\ secret' = [secret EXCEPT ![a].data = Modify(change, req[r].copy)]
    <3>1. req[r].copy = secret[a].data \/ change.mode = "replace"
      BY <1>r, <2>1, <2>2 DEF Seen
    <3>2. Modify(change, req[r].copy) = Atomic!Apply(change, secret[a].data)
      <4>1. CASE req[r].copy = secret[a].data
        BY <4>1 DEF Modify, Atomic!Apply
      <4>2. CASE change.mode = "replace"
        BY <4>2 DEF Modify, Atomic!Apply
      <4> QED BY <3>1, <4>1, <4>2
    <3>3. data' = [data EXCEPT ![a] = Atomic!Apply(change, data[a])]
      <4>1. data[a] = secret[a].data
        BY <2>1 DEF data
      <4>2. \A b \in Area : secret'[b].data = IF b = a THEN Atomic!Apply(change, secret[a].data)
                                                      ELSE secret[b].data
        <5> DEFINE d == Atomic!Apply(change, secret[a].data)
        <5>1. secret' = [secret EXCEPT ![a].data = d]
          BY <2>2, <3>2
        <5> HIDE DEF d
        <5>2. \A b \in Area : secret'[b].data = IF b = a THEN d ELSE secret[b].data
          BY <2>1, <5>1 DEF TypeOK, Secret
        <5> QED BY <5>2 DEF d
      <4> QED BY <2>1, <4>1, <4>2 DEF data
    <3>4. todo' = [todo EXCEPT ![r][a] = NoChange]
      <4>1. PICK new : Become(r, new) /\ new.plan = [req[r].plan EXCEPT ![a] = NoChange]
        BY <1>r, <2>1, <2>2, AfterWritePlan DEF Local
      <4>2. todo' = [todo EXCEPT ![r] = new.plan]
        BY <4>1 DEF todo, Become, TypeOK
      <4>3. todo[r] = req[r].plan
        BY DEF todo
      <4> QED BY <4>1, <4>2, <4>3
    <3>5. todo[r][a] = change
      BY <2>1 DEF todo
    <3>6. PICK b \in Area : b = a
      BY <2>1
    <3>7. Atomic!Perform(r, b)
      BY <2>1, <3>3, <3>4, <3>5, <3>6 DEF Atomic!Perform, data, todo
    <3> QED BY <1>h, <3>7
  <2>3. CASE Become(r, retry) /\ UNCHANGED secret
    <3>1. retry.plan = req[r].plan
      BY <1>r DEF Read, Request
    <3> HIDE DEF retry
    <3> QED BY <1>g, <1>s, <2>3, <3>1
  <2>4. CASE Become(r, Idle) /\ UNCHANGED secret
    BY <1>e, <1>g, <2>4
  <2> QED BY <1>8, <2>2, <2>3, <2>4 DEF WriteSecret, End
<1>9. ASSUME NEW r \in Req, LookupBound(r) PROVE [Atomic!Next]_<<data, todo>>
  <2> DEFINE new == [req[r] EXCEPT !.pc = "helm", !.redeploy = FALSE]
  <2>1. (Become(r, new) \/ Become(r, Idle)) /\ UNCHANGED secret
    BY <1>9 DEF LookupBound, End
  <2>2. new.plan = req[r].plan
    BY <1>r DEF Request
  <2> HIDE DEF new
  <2> QED BY <1>e, <1>g, <1>s, <2>1, <2>2
<1>10. ASSUME NEW r \in Req, HelmDeploy(r) PROVE [Atomic!Next]_<<data, todo>>
  <2> DEFINE new == [req[r] EXCEPT !.pc = "drop", !.env = {}, !.conf = {}]
  <2>1. (Become(r, new) \/ Become(r, Idle)) /\ UNCHANGED secret
    BY <1>10 DEF HelmDeploy, End
  <2>2. new.plan = req[r].plan
    BY <1>r DEF Request
  <2> HIDE DEF new
  <2> QED BY <1>e, <1>g, <1>s, <2>1, <2>2
<1>11. ASSUME NEW r \in Req, CreateApp(r) PROVE [Atomic!Next]_<<data, todo>>
  <2> DEFINE new == Read(r, "conf", "update")
  <2>1. (Become(r, new) \/ Become(r, Idle)) /\ UNCHANGED secret
    BY <1>11 DEF CreateApp, End
  <2>2. new.plan = req[r].plan
    BY ReadFields
  <2> HIDE DEF new
  <2> QED BY <1>e, <1>g, <1>s, <2>1, <2>2
<1>12. ASSUME NEW r \in Req, RemoveWorkload(r) \/ DeleteApp(r) PROVE FALSE
  BY <1>12, <1>r DEF RemoveWorkload, DeleteApp, At, Seen
<1>13. ASSUME NEW r \in Req, ListBound(r) PROVE [Atomic!Next]_<<data, todo>>
  <2> DEFINE drop == [req[r] EXCEPT !.pc = "drop"]
             plan == PlanFor("conf", "remove", req[r].target)
             unbind == [req[r] EXCEPT !.pc = "lookup", !.phase = "first", !.plan = plan]
  <2>1. (Become(r, drop) \/ Become(r, unbind) \/ Become(r, Idle)) /\ UNCHANGED secret
    BY <1>13 DEF ListBound, End
  <2>2. req[r].plan = NoPlan
    BY <1>13, <1>r DEF ListBound, At, Shape
  <2>3. plan \in Plan
    <3>1. req[r].target \in SUBSET KeysOf("conf") /\ "conf" \in Area
      BY <1>r DEF Request, KeysOf, Area
    <3> QED BY <3>1, PlanTypes
  <2> HIDE DEF plan
  <2>4. drop.plan = req[r].plan /\ unbind.plan = plan
    BY <1>r DEF Request
  <2> HIDE DEF drop, unbind
  <2> QED BY <1>e, <1>g, <1>p, <1>s, <2>1, <2>2, <2>3, <2>4
<1>14. ASSUME NEW r \in Req, DropConfiguration(r) \/ Fail(r)
       PROVE  [Atomic!Next]_<<data, todo>>
  <2>1. Become(r, Idle) /\ UNCHANGED secret
    BY <1>14 DEF DropConfiguration, Fail, End
  <2>2. Atomic!Abandon(r)
    BY <1>e, <2>1
  <2> QED BY <1>g, <2>2
<1>15. CASE Outside \/ UNCHANGED vars
  <2>1. ASSUME NEW a \in Area, CollectSecret(a) PROVE FALSE
    BY <2>1 DEF CollectSecret, SeenInv, Owned
  <2>2. UNCHANGED <<secret, req>>
    BY <1>15, <2>1 DEF Outside, CreateConfiguration, StagingToggles, vars
  <2> QED BY <2>2 DEF data, todo
<1> QED
  <2>1. ASSUME NEW r \in Req, Begin(r) \/ Proceed(r) \/ Fail(r)
        PROVE  [Atomic!Next]_<<data, todo>>
    BY <1>1, <1>2, <1>3, <1>4, <1>5, <1>6, <1>7, <1>8, <1>9, <1>10, <1>11, <1>12, <1>13,
       <1>14, <2>1 DEF Proceed
  <2>2. [Atomic!Next]_<<data, todo>>
    <3>1. CASE \E r \in Req : Begin(r) \/ Proceed(r) \/ Fail(r)
      <4>1. PICK r \in Req : Begin(r) \/ Proceed(r) \/ Fail(r)
        BY <3>1
      <4> QED BY <2>1, <4>1
    <3>2. CASE Outside
      BY <1>15, <3>2 DEF data, todo
    <3>3. CASE UNCHANGED vars
      BY <1>15, <3>3 DEF data, todo
    <3> QED BY <3>1, <3>2, <3>3 DEF Next
  <2> QED BY <2>2 DEF data, todo

\* Settings: each request makes its changes to the settings as they are at that
\* moment, each once, or gives up - for any number of requests, any of which may
\* fail at any access, as long as the application is not deleted (envUpdate and
\* configUpdate, RetryOnConflict).
THEOREM SettingsAreAtomic ==
  ASSUME "delete" \notin Ops
  PROVE  Spec => AtomicChanges
<1> DEFINE Inv == TypeOK /\ LocalInv /\ SeenInv
<1>1. Init => Inv
  <2> SUFFICES ASSUME Init PROVE Inv
    OBVIOUS
  <2>1. TypeOK /\ LocalInv
    BY InitLocal
  <2>2. \A r : Seen(Idle, r)
    BY IdleSees
  <2>3. SeenInv
    BY <2>2 DEF Init, SeenInv, Owned, There, NoSecret
  <2> QED BY <2>1, <2>3
<1>2. Inv /\ [Next]_vars => Inv'
  BY TypeStep, LocalStep, SeenStep
<1>3. Inv /\ Inv' /\ [Next]_vars
        => [Atomic!Next]_<<[a \in Area |-> secret[a].data], [r \in Req |-> req[r].plan]>>
  BY RefineStep
<1>4. Init => Atomic!Init
  BY RefineInit
<1> QED BY <1>1, <1>2, <1>3, <1>4, PTL DEF Spec, AtomicChanges, Atomic!Spec
=============================================================================
