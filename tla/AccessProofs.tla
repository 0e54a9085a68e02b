---------------------------- MODULE AccessProofs ----------------------------
(***************************************************************************)
(* Proofs about Access, for any number of requests, users, namespaces and  *)
(* git configurations.                                                     *)
(*                                                                         *)
(* CopyInv says of every copy of an account that a request may write, that *)
(* the roles in it lie within the namespaces in it; so it does not matter  *)
(* which copy is written last.  SoleInv adds what a request alone can      *)
(* rely on: its copies are those stored, and what is to be removed is      *)
(* nobody's any more.  KeepInv, while nothing fails, says that whoever     *)
(* has made a resource has it in her account, and in every copy that may   *)
(* be written there, but for the moment in which it is granted or revoked. *)
(***************************************************************************)
EXTENDS Access, TLAPS

Entered(r) == req[r].pc \in {"update", "ready", "create", "grant"}

CopyInv ==
  \A r \in Req :
    /\ Entered(r) \/ At(r, "save") => req[r].user \in User
    /\ req[r].pc \in {"create", "grant", "revoke", "remove", "wait"} => req[r].on \in Resource
    /\ Entered(r) => req[r].me.admin \subseteq req[r].me.owned
    /\ At(r, "revoke") => \A u \in req[r].rest :
         req[r].seen[u].admin \subseteq req[r].seen[u].owned \cup Groups(u)

\* What u lists exists, and is what she has made, but for the namespaces of her groups.
Own(u, list) == \A x \in list \ Groups(u) : exists[x] = "yes" /\ maker[x] = u

SoleInv ==
  "overlap" \notin past =>
    /\ \A q, r \in Req : ~At(q, "idle") /\ ~At(r, "idle") => q = r
    /\ \A u \in User : Known(u) => Own(u, account[u].owned)
    /\ \A r \in Req :
         /\ Entered(r) => Own(req[r].user, req[r].me.owned)
         /\ At(r, "grant") => exists[req[r].on] = "yes" /\ maker[req[r].on] = req[r].user
         /\ At(r, "revoke") => \A u \in User :
              IF u \in req[r].rest THEN account[u] = req[r].seen[u]
              ELSE req[r].failed \/ (Known(u) => req[r].on \notin account[u].owned)
         /\ At(r, "remove") => \A u \in User : Known(u) => req[r].on \notin account[u].owned

IInv == TypeOK /\ RolesWithinNamespaces /\ CopyInv /\ SoleInv

\* Account a gives u what she is entitled to as the maker of x.
Has(a, u, x) == x \in a.owned /\ (x \in Namespace /\ u \notin Grouped => x \in a.admin)
\* A request is about to grant x, or to remove it.
Pending(q, x) == q.pc \in {"grant", "revoke", "remove"} /\ q.on = x
\* What u has made has come into the hands of her request q.
Carries(q) ==
  /\ Known(q.user)
  /\ \A x \in Resource :
       exists[x] = "yes" /\ maker[x] = q.user => Pending(q, x) \/ Has(q.me, q.user, x)

MakersKnown == \A x \in Resource : exists[x] = "yes" => maker[x] \in User /\ Known(maker[x])
MakersHave ==
  \A x \in Resource : exists[x] = "yes" =>
    Has(account[maker[x]], maker[x], x) \/ \E r \in Req : Pending(req[r], x)

KeepInv ==
  past = {} =>
    /\ MakersKnown /\ MakersHave
    /\ \A r \in Req : (Entered(r) => Carries(req[r])) /\ ~req[r].failed

USE DEF At, Known
-----------------------------------------------------------------------------
(* Types *)

LEMMA Names == \A pc \in {"idle", "save", "update", "ready", "create", "grant", "list",
                          "revoke", "remove", "wait"} : pc \in PCs
BY DEF PCs

LEMMA IdleType == Idle \in Request /\ Idle.pc = "idle"
BY Names DEF Idle, Request, NoAccess, Account

LEMMA GroupsType == \A u \in User : Groups(u) \subseteq Namespace /\ Groups(u) \subseteq Resource
BY AccessAssumption DEF Groups, Resource

LEMMA AccountType ==
  ASSUME NEW a \in Account
  PROVE  /\ a.admin \subseteq Namespace /\ a.admin \subseteq Resource /\ a.owned \subseteq Resource
         /\ a # None
BY NoneAssumption DEF Account, Resource

\* The components of a request
LEMMA RequestType ==
  ASSUME NEW q \in Request
  PROVE  /\ q.pc \in PCs /\ q.user \in User \cup {None} /\ q.me \in Account
         /\ q.on \in Resource \cup {None} /\ q.todo \subseteq Resource
         /\ q.seen \in [User -> Account] /\ q.rest \subseteq User /\ q.failed \in BOOLEAN
BY DEF Request

\* The account that a request works with after authentication
LEMMA EnteredAccount ==
  ASSUME NEW u \in User, NEW a \in Account
  PROVE  LET me == WithNamespaces(Authenticated(u, a))
         IN  /\ me \in Account /\ me.admin \subseteq me.owned
             /\ \A x \in me.owned : x \in a.owned \/ x \in a.admin \/ x \in Groups(u)
<1> DEFINE b == Authenticated(u, a)
<1>1. b \in Account /\ b.owned = a.owned
  BY AccessAssumption DEF Authenticated, Account
<1>2. b.admin = a.admin \/ b.admin = Groups(u)
  BY DEF Authenticated, Account, Groups
<1> HIDE DEF b
<1>3. /\ WithNamespaces(b) \in Account
      /\ WithNamespaces(b).admin = b.admin /\ WithNamespaces(b).owned = b.owned \cup b.admin
  BY <1>1, AccountType DEF WithNamespaces, Account, Resource
<1> QED BY <1>1, <1>2, <1>3 DEF b

LEMMA AddType ==
  ASSUME NEW a \in Account, NEW x \in Resource, a.admin \subseteq a.owned
  PROVE  /\ Add(a, x) \in Account /\ Add(a, x).admin \subseteq Add(a, x).owned
         /\ Add(a, x).owned = a.owned \cup {x}
BY DEF Add, Account, Resource

LEMMA DropType ==
  ASSUME NEW a \in Account, NEW x
  PROVE  /\ Drop(a, x) \in Account
         /\ Drop(a, x).owned = a.owned \ {x} /\ Drop(a, x).admin = a.admin \ {x}
BY DEF Drop, Account
-----------------------------------------------------------------------------
(* The steps of a request *)

\* Steps that change but the request, which has what the invariants ask of it.
LEMMA RequestStep ==
  ASSUME IInv, NEW r \in Req, NEW new \in Request, Become(r, new),
         UNCHANGED <<exists, maker, account>>,
         past' = past \/ past' = past \cup {"fault"} \/ past' = past \cup {"overlap"},
         ~At(r, "idle") \/ AllIdle \/ "overlap" \in past',
         new.pc \in {"save", "update", "ready", "create", "grant"} => new.user \in User,
         new.pc \in {"create", "grant", "revoke", "remove", "wait"} => new.on \in Resource,
         new.pc \in {"update", "ready", "create"} =>
           new.me.admin \subseteq new.me.owned /\ ("overlap" \in past' \/ Own(new.user, new.me.owned)),
         new.pc # "grant",
         new.pc = "revoke" => \A u \in new.rest :
           new.seen[u].admin \subseteq new.seen[u].owned \cup Groups(u),
         new.pc = "revoke" /\ "overlap" \notin past => \A u \in User :
           IF u \in new.rest THEN account[u] = new.seen[u]
           ELSE new.failed \/ (Known(u) => new.on \notin account[u].owned),
         new.pc = "remove" /\ "overlap" \notin past => \A u \in User : Known(u) =>
           new.on \notin account[u].owned
  PROVE  IInv'
<1>1. \A q \in Req : req'[q] = IF q = r THEN new ELSE req[q]
  BY DEF Become, IInv, TypeOK
<1>2. "overlap" \notin past' => "overlap" \notin past
  OBVIOUS
<1>3. TypeOK'
  BY DEF IInv, TypeOK, Become
<1>4. RolesWithinNamespaces'
  BY DEF IInv, RolesWithinNamespaces
<1>5. CopyInv'
  BY <1>1 DEF IInv, CopyInv, Entered
<1>6. SoleInv'
  <2> SUFFICES ASSUME "overlap" \notin past' PROVE SoleInv'
    BY DEF SoleInv
  <2>1. \A q, p \in Req : req'[q].pc # "idle" /\ req'[p].pc # "idle" => q = p
    BY <1>1, <1>2 DEF IInv, SoleInv, AllIdle
  <2>2. \A u \in User : account'[u] # None => Own(u, account[u].owned)'
    BY <1>2 DEF IInv, SoleInv, Own
  <2>3. \A q \in Req : Entered(q)' => Own(req[q].user, req[q].me.owned)'
    BY <1>1, <1>2 DEF IInv, SoleInv, Own, Entered
  <2>4. \A q \in Req : req'[q].pc = "grant" =>
          exists'[req'[q].on] = "yes" /\ maker'[req'[q].on] = req'[q].user
    BY <1>1, <1>2 DEF IInv, SoleInv
  <2>5. \A q \in Req : req'[q].pc = "revoke" => \A u \in User :
          IF u \in req'[q].rest THEN account'[u] = req'[q].seen[u]
          ELSE req'[q].failed \/ (account'[u] # None => req'[q].on \notin account'[u].owned)
    BY <1>1, <1>2 DEF IInv, SoleInv
  <2>6. \A q \in Req : req'[q].pc = "remove" =>
          \A u \in User : account'[u] # None => req'[q].on \notin account'[u].owned
    BY <1>1, <1>2 DEF IInv, SoleInv
  <2> QED BY <2>1, <2>2, <2>3, <2>4, <2>5, <2>6 DEF SoleInv
<1> QED BY <1>3, <1>4, <1>5, <1>6 DEF IInv

\* Steps in which the account of u is written, by a request that goes on or ends.
LEMMA AccountStep ==
  ASSUME IInv, NEW r \in Req, NEW new \in Request, Become(r, new), ~At(r, "idle"),
         NEW u \in User, NEW a \in Account, account' = [account EXCEPT ![u] = a],
         UNCHANGED <<exists, maker, past>>,
         a.admin \subseteq a.owned \cup Groups(u),
         "overlap" \notin past => Own(u, a.owned),
         new.pc \in {"idle", "update", "ready", "revoke"},
         new.pc \in {"update", "ready"} =>
           /\ new.user \in User /\ new.me.admin \subseteq new.me.owned
           /\ "overlap" \notin past => Own(new.user, new.me.owned),
         new.pc = "revoke" => new.on \in Resource /\ \A v \in new.rest :
           new.seen[v].admin \subseteq new.seen[v].owned \cup Groups(v),
         new.pc = "revoke" /\ "overlap" \notin past => \A v \in User :
           IF v \in new.rest THEN account'[v] = new.seen[v]
           ELSE new.failed \/ (account'[v] # None => new.on \notin account'[v].owned)
  PROVE  IInv'
<1>1. \A q \in Req : req'[q] = IF q = r THEN new ELSE req[q]
  BY DEF Become, IInv, TypeOK
<1>2. \A v \in User : account'[v] = IF v = u THEN a ELSE account[v]
  BY DEF IInv, TypeOK
<1>3. TypeOK'
  BY DEF IInv, TypeOK, Become
<1>4. RolesWithinNamespaces'
  BY <1>2 DEF IInv, RolesWithinNamespaces
<1>5. CopyInv'
  BY <1>1 DEF IInv, CopyInv, Entered
<1>6. SoleInv'
  <2> SUFFICES ASSUME "overlap" \notin past PROVE SoleInv'
    BY DEF SoleInv
  <2>1. \A q \in Req : q # r => req'[q].pc = "idle"
    BY <1>1 DEF IInv, SoleInv
  <2>2. \A v \in User : account'[v] # None => Own(v, account[v].owned)'
    BY <1>2 DEF IInv, SoleInv, Own
  <2>3. Entered(r)' => Own(req[r].user, req[r].me.owned)'
    BY <1>1 DEF Own, Entered
  <2> QED BY <1>1, <2>1, <2>2, <2>3 DEF SoleInv, Entered
<1> QED BY <1>3, <1>4, <1>5, <1>6 DEF IInv

\* Steps in which the resource x is made, or goes when it is in nobody's list.
LEMMA ResourceStep ==
  ASSUME IInv, NEW r \in Req, NEW new \in Request, Become(r, new), ~At(r, "idle"),
         NEW x \in Resource, NEW state \in {"no", "yes", "going"}, NEW who \in User \cup {None},
         exists' = [exists EXCEPT ![x] = state], maker' = [maker EXCEPT ![x] = who],
         UNCHANGED <<account, past>>,
         exists[x] = "yes" => At(r, "remove") /\ req[r].on = x,
         new.pc \in {"idle", "grant", "list", "wait"},
         new.pc = "grant" =>
           /\ Entered(r) /\ exists[x] = "no" /\ state = "yes" /\ who = req[r].user
           /\ new.user = req[r].user /\ new.me = req[r].me /\ new.on = x,
         new.pc = "wait" => new.on = x
  PROVE  IInv'
<1>1. \A q \in Req : req'[q] = IF q = r THEN new ELSE req[q]
  BY DEF Become, IInv, TypeOK
<1>2. \A y \in Resource : /\ exists'[y] = IF y = x THEN state ELSE exists[y]
                          /\ maker'[y] = IF y = x THEN who ELSE maker[y]
  BY DEF IInv, TypeOK
<1>3. TypeOK'
  BY DEF IInv, TypeOK, Become
<1>4. RolesWithinNamespaces'
  BY DEF IInv, RolesWithinNamespaces
<1>5. CopyInv'
  BY <1>1 DEF IInv, CopyInv, Entered
<1>6. SoleInv'
  <2> SUFFICES ASSUME "overlap" \notin past PROVE SoleInv'
    BY DEF SoleInv
  <2>1. \A q \in Req : q # r => req'[q].pc = "idle"
    BY <1>1 DEF IInv, SoleInv
  <2>2. ASSUME NEW v \in User, account[v] # None PROVE Own(v, account[v].owned)'
    <3>1. account[v].owned \subseteq Resource /\ Own(v, account[v].owned)
      BY <2>2, AccountType DEF IInv, TypeOK, SoleInv
    <3>2. x \in account[v].owned => exists[x] # "yes"
      BY <2>2 DEF IInv, SoleInv
    <3> QED BY <1>2, <3>1, <3>2 DEF Own
  <2>3. Entered(r)' => Own(req[r].user, req[r].me.owned)'
    <3> SUFFICES ASSUME new.pc = "grant" PROVE Own(new.user, new.me.owned)'
      BY <1>1 DEF Entered
    <3>1. Own(new.user, new.me.owned) /\ new.me.owned \subseteq Resource
      BY RequestType, AccountType DEF IInv, SoleInv
    <3>2. \A y \in new.me.owned \ Groups(new.user) : exists'[y] = "yes" /\ maker'[y] = new.user
      BY <1>2, <3>1 DEF Own
    <3> QED BY <3>2 DEF Own
  <2>4. new.pc = "grant" => exists'[new.on] = "yes" /\ maker'[new.on] = new.user
    BY <1>2
  <2> QED BY <1>1, <2>1, <2>2, <2>3, <2>4 DEF SoleInv, Entered
<1> QED BY <1>3, <1>4, <1>5, <1>6 DEF IInv

\* The namespace controller ends what nobody lists any more.
LEMMA TerminatedStep == ASSUME IInv, NEW x \in Namespace, Terminated(x) PROVE IInv'
<1>1. /\ x \in Resource /\ exists[x] = "going" /\ exists' = [exists EXCEPT ![x] = "no"]
      /\ maker' = [maker EXCEPT ![x] = None] /\ UNCHANGED <<account, req, past>>
  BY DEF Terminated, Vanish, Resource
<1>2. \A y : exists[y] = "yes" => exists'[y] = exists[y] /\ maker'[y] = maker[y]
  BY <1>1 DEF IInv, TypeOK
<1>3. TypeOK'
  BY <1>1 DEF IInv, TypeOK
<1>4. RolesWithinNamespaces' /\ CopyInv'
  BY <1>1 DEF IInv, RolesWithinNamespaces, CopyInv, Entered
<1>5. SoleInv'
  BY <1>1, <1>2 DEF IInv, SoleInv, Own, Entered
<1> QED BY <1>3, <1>4, <1>5 DEF IInv

\* A request arrives.
LEMMA LoginStep == ASSUME IInv, NEW r \in Req, NEW u \in User, Login(r, u) PROVE IInv'
<1>1. /\ At(r, "idle") /\ UNCHANGED <<exists, maker, account>>
      /\ (past' = past /\ AllIdle) \/ (past' = past \cup {"overlap"} /\ "overlap" \in past')
  BY DEF Login
<1>2. CASE ~Known(u)
  <2> DEFINE new == [Idle EXCEPT !.user = u, !.pc = "save"]
  <2>1. new \in Request /\ new.pc = "save" /\ new.user = u
    BY IdleType, Names DEF Request
  <2>2. Become(r, new)
    BY <1>2 DEF Login
  <2> HIDE DEF new
  <2> QED BY <1>1, <2>1, <2>2, RequestStep
<1>3. CASE Known(u)
  <2> DEFINE me == WithNamespaces(Authenticated(u, account[u]))
             new == [Idle EXCEPT !.user = u, !.me = me,
                                 !.pc = IF me = account[u] THEN "ready" ELSE "update"]
  <2>1. account[u] \in Account
    BY <1>3 DEF IInv, TypeOK
  <2>2. me \in Account /\ me.admin \subseteq me.owned
        /\ \A x \in me.owned : x \in account[u].owned \/ x \in account[u].admin \/ x \in Groups(u)
    BY <2>1, EnteredAccount
  <2>3. Become(r, new)
    BY <1>3 DEF Login, Enter
  <2> HIDE DEF me
  <2>4. new \in Request /\ new.pc \in {"ready", "update"} /\ new.user = u /\ new.me = me
    BY <2>2, IdleType, Names DEF Request
  <2>5. "overlap" \notin past => Own(u, me.owned)
    <3>1. account[u].admin \subseteq account[u].owned \cup Groups(u)
      BY <1>3 DEF IInv, RolesWithinNamespaces
    <3>2. "overlap" \notin past => Own(u, account[u].owned)
      BY <1>3 DEF IInv, SoleInv
    <3> QED BY <2>2, <3>1, <3>2 DEF Own
  <2>6. "overlap" \in past' \/ Own(new.user, new.me.owned)
    BY <1>1, <2>4, <2>5
  <2> HIDE DEF new
  <2> QED BY <1>1, <2>2, <2>3, <2>4, <2>6, RequestStep
<1> QED BY <1>2, <1>3

\* The account of a new user is made.
LEMMA SaveStep == ASSUME IInv, NEW r \in Req, Save(r) PROVE IInv'
<1>1. At(r, "save") /\ UNCHANGED <<exists, maker, past>> /\ req[r].user \in User
  BY DEF Save, IInv, CopyInv
<1>2. CASE Known(req[r].user)
  <2>1. Become(r, Idle) /\ UNCHANGED account
    BY <1>2 DEF Save, End
  <2> QED BY <1>1, <2>1, IdleType, RequestStep
<1>3. CASE ~Known(req[r].user)
  <2> DEFINE u == req[r].user
             a == [admin |-> Groups(u), owned |-> {}]
             me == WithNamespaces(Authenticated(u, a))
             new == [Idle EXCEPT !.user = u, !.me = me, !.pc = IF me = a THEN "ready" ELSE "update"]
  <2>1. a \in Account /\ a.admin = Groups(u) /\ a.owned = {}
    BY <1>1, GroupsType DEF Account
  <2>2. Become(r, new) /\ account' = [account EXCEPT ![u] = a]
    BY <1>3 DEF Save, Enter
  <2> HIDE DEF a
  <2>3. me \in Account /\ me.admin \subseteq me.owned
        /\ \A x \in me.owned : x \in a.owned \/ x \in a.admin \/ x \in Groups(u)
    BY <1>1, <2>1, EnteredAccount
  <2> HIDE DEF me
  <2>4. new \in Request /\ new.pc \in {"ready", "update"} /\ new.user = u /\ new.me = me
    BY <1>1, <2>3, IdleType, Names DEF Request
  <2>5. Own(u, me.owned) /\ Own(u, a.owned)
    BY <2>1, <2>3 DEF Own
  <2> HIDE DEF new, u
  <2>6. u \in User
    BY <1>1 DEF u
  <2> QED BY <1>1, <2>1, <2>2, <2>3, <2>4, <2>5, <2>6, AccountStep
<1> QED BY <1>2, <1>3

\* The account of a user is written at her login.
LEMMA UpdateLoginStep == ASSUME IInv, NEW r \in Req, UpdateLogin(r) PROVE IInv'
<1> DEFINE new == [req[r] EXCEPT !.pc = "ready"]
<1>1. req[r] \in Request /\ req[r].user \in User /\ req[r].pc = "update"
      /\ req[r].me.admin \subseteq req[r].me.owned
  BY DEF IInv, TypeOK, CopyInv, UpdateLogin, Entered
<1>2. "overlap" \notin past => Own(req[r].user, req[r].me.owned)
  BY <1>1 DEF IInv, SoleInv, Entered
<1>3. /\ Become(r, new) /\ account' = [account EXCEPT ![req[r].user] = req[r].me]
      /\ UNCHANGED <<exists, maker, past>>
  BY DEF UpdateLogin, Write, Goto
<1>4. new \in Request /\ new.pc = "ready" /\ new.user = req[r].user /\ new.me = req[r].me
  BY <1>1, Names DEF Request
<1>5. req[r].me \in Account
  BY <1>1, RequestType
<1> HIDE DEF new
<1> QED BY <1>1, <1>2, <1>3, <1>4, <1>5, AccountStep

\* What a user has made is added to her account.
LEMMA GrantStep == ASSUME IInv, NEW r \in Req, Grant(r) PROVE IInv'
<1> DEFINE u == req[r].user
           a == Add(req[r].me, req[r].on)
<1>1. /\ req[r] \in Request /\ u \in User /\ req[r].on \in Resource /\ ~At(r, "idle")
      /\ req[r].me.admin \subseteq req[r].me.owned
  BY DEF IInv, TypeOK, CopyInv, Grant, Entered
<1>2. req[r].me \in Account
  BY <1>1, RequestType
<1>3. a \in Account /\ a.admin \subseteq a.owned /\ a.owned = req[r].me.owned \cup {req[r].on}
  BY <1>1, <1>2, AddType
<1>4. Become(r, Idle) /\ account' = [account EXCEPT ![u] = a] /\ UNCHANGED <<exists, maker, past>>
  BY DEF Grant, Write, End
<1> HIDE DEF a
<1>5. "overlap" \notin past => Own(u, a.owned)
  BY <1>3 DEF IInv, SoleInv, Own, Grant, Entered
<1> HIDE DEF u
<1> QED BY <1>1, <1>3, <1>4, <1>5, IdleType, AccountStep

\* A resource is taken from one of those who list it.
LEMMA RevokeStep == ASSUME IInv, NEW r \in Req, Revoke(r) PROVE IInv'
<1>1. PICK u \in req[r].rest :
        /\ Write(u, Drop(req[r].seen[u], req[r].on))
        /\ Become(r, [req[r] EXCEPT !.rest = @ \ {u}, !.seen[u] = NoAccess])
  BY DEF Revoke
<1> DEFINE a == Drop(req[r].seen[u], req[r].on)
           new == [req[r] EXCEPT !.rest = @ \ {u}, !.seen[u] = NoAccess]
<1>2. /\ req[r] \in Request /\ req[r].pc = "revoke" /\ req[r].on \in Resource
      /\ \A v \in req[r].rest : req[r].seen[v].admin \subseteq req[r].seen[v].owned \cup Groups(v)
      /\ UNCHANGED <<exists, maker, past>>
  BY DEF IInv, TypeOK, CopyInv, Revoke
<1>3. u \in User /\ req[r].seen[u] \in Account /\ req[r].seen \in [User -> Account]
  BY <1>2, RequestType
<1>4. /\ a \in Account /\ a.owned = req[r].seen[u].owned \ {req[r].on}
      /\ a.admin = req[r].seen[u].admin \ {req[r].on}
  BY <1>3, DropType
<1>5. account' = [account EXCEPT ![u] = a] /\ Become(r, new)
  BY <1>1 DEF Write
<1>6. NoAccess \in Account
  BY DEF NoAccess, Account
<1>7. /\ new \in Request /\ new.pc = "revoke" /\ new.on = req[r].on
      /\ new.rest = req[r].rest \ {u} /\ new.failed = req[r].failed
      /\ new.seen = [req[r].seen EXCEPT ![u] = NoAccess]
  BY <1>2, <1>3, <1>6 DEF Request
<1>8. \A v \in User : v # u => new.seen[v] = req[r].seen[v]
  BY <1>3, <1>7
<1> HIDE DEF a, new
<1>9. a.admin \subseteq a.owned \cup Groups(u)
  BY <1>2, <1>4
<1>10. \A v \in new.rest : new.seen[v].admin \subseteq new.seen[v].owned \cup Groups(v)
  BY <1>2, <1>3, <1>7
<1>11. ASSUME "overlap" \notin past, NEW v \in User
       PROVE  IF v \in new.rest THEN account'[v] = new.seen[v]
              ELSE new.failed \/ (account'[v] # None => new.on \notin account'[v].owned)
  <2>1. CASE v = u
    BY <1>3, <1>4, <1>5, <1>7, <2>1 DEF IInv, TypeOK
  <2>2. CASE v # u
    <3>1. account'[v] = account[v]
      BY <1>5, <2>2 DEF IInv, TypeOK
    <3> QED BY <1>2, <1>7, <1>8, <1>11, <2>2, <3>1 DEF IInv, SoleInv
  <2> QED BY <2>1, <2>2
<1>12. "overlap" \notin past => Own(u, a.owned)
  <2> SUFFICES ASSUME "overlap" \notin past PROVE Own(u, a.owned)
    OBVIOUS
  <2>1. account[u] = req[r].seen[u]
    BY <1>2, <1>3 DEF IInv, SoleInv
  <2>2. Own(u, account[u].owned)
    BY <1>3, <2>1, AccountType DEF IInv, SoleInv
  <2> QED BY <1>4, <2>1, <2>2 DEF Own
<1> QED BY <1>2, <1>3, <1>4, <1>5, <1>7, <1>9, <1>10, <1>11, <1>12, AccountStep

\* Accounts are listed, to take a resource from those who list it.
LEMMA ListUsersStep == ASSUME IInv, NEW r \in Req, ListUsers(r) PROVE IInv'
<1>1. PICK x \in req[r].todo :
        LET has == {u \in User : Known(u) /\ x \in account[u].admin \cup account[u].owned}
        IN Become(r, [Idle EXCEPT !.pc = "revoke", !.on = x, !.todo = req[r].todo \ {x}, !.rest = has,
                                  !.seen = [u \in User |-> IF u \in has THEN account[u] ELSE NoAccess]])
  BY DEF ListUsers
<1> DEFINE has == {u \in User : account[u] # None /\ x \in account[u].admin \cup account[u].owned}
           seen == [u \in User |-> IF u \in has THEN account[u] ELSE NoAccess]
           new == [Idle EXCEPT !.pc = "revoke", !.on = x, !.todo = req[r].todo \ {x}, !.rest = has,
                               !.seen = seen]
<1>2. Become(r, new) /\ UNCHANGED <<exists, maker, account, past>> /\ ~At(r, "idle")
  BY <1>1 DEF ListUsers
<1>3. x \in Resource /\ req[r].todo \subseteq Resource
  BY RequestType DEF IInv, TypeOK
<1>4. \A u \in has : account[u] \in Account
  BY DEF IInv, TypeOK
<1>5. NoAccess \in Account
  BY DEF NoAccess, Account
<1>6. seen \in [User -> Account] /\ has \subseteq User
  BY <1>4, <1>5
<1>7. \A u \in User : IF u \in has THEN account[u] = seen[u]
                       ELSE account[u] # None => x \notin account[u].owned
  OBVIOUS
<1>8. \A u \in has : seen[u].admin \subseteq seen[u].owned \cup Groups(u)
  BY DEF IInv, RolesWithinNamespaces
<1> HIDE DEF has, seen
<1>9. /\ new \in Request /\ new.pc = "revoke" /\ new.on = x /\ new.rest = has /\ new.seen = seen
      /\ ~new.failed
  BY <1>3, <1>6, IdleType, Names DEF Request, Idle
<1> HIDE DEF new
<1> QED BY <1>2, <1>3, <1>7, <1>8, <1>9, RequestStep

\* The steps that end a request or take it to the next resource, and those in which
\* it goes on with what it has
LEMMA MoveSteps ==
  ASSUME IInv, NEW r \in Req,
         \/ Leave(r) \/ Fail(r) \/ Revoked(r) \/ RevokeFails(r) \/ WaitMissing(r)
         \/ \E x \in Resource : BeginCreate(r, x)
         \/ \E names \in SUBSET Namespace : BeginDeleteNamespaces(r, names)
         \/ \E names \in SUBSET Gitconfig : BeginDeleteGitconfigs(r, names)
  PROVE  IInv'
<1>1. req[r] \in Request /\ req[r].todo \subseteq Resource /\ req[r].seen \in [User -> Account]
  BY RequestType DEF IInv, TypeOK
<1>2. ASSUME End(r), ~At(r, "idle"), UNCHANGED <<exists, maker, account>>,
             past' = past \/ past' = past \cup {"fault"}
      PROVE  IInv'
  BY <1>2, IdleType, RequestStep DEF End
<1>3. ASSUME NEW todo \in SUBSET Resource, ~At(r, "idle"), UNCHANGED <<exists, maker, account, past>>,
             Become(r, [Idle EXCEPT !.pc = "list", !.todo = todo])
      PROVE  IInv'
  <2> DEFINE new == [Idle EXCEPT !.pc = "list", !.todo = todo]
  <2>1. new \in Request /\ new.pc = "list"
    BY IdleType, Names DEF Request
  <2>2. Become(r, new)
    BY <1>3
  <2> HIDE DEF new
  <2> QED BY <1>3, <2>1, <2>2, RequestStep
<1>4. CASE Leave(r) \/ Fail(r)
  BY <1>2, <1>4 DEF Leave, Fail
<1>5. CASE WaitMissing(r)
  BY <1>1, <1>2, <1>3, <1>5 DEF WaitMissing, NextOrEnd
<1>6. CASE Revoked(r)
  <2>1. CASE req[r].failed
    BY <1>2, <1>6, <2>1 DEF Revoked
  <2>2. CASE ~req[r].failed
    <3> DEFINE new == [req[r] EXCEPT !.pc = "remove"]
    <3>1. new \in Request /\ new.pc = "remove" /\ new.on = req[r].on
      BY <1>1, Names DEF Request
    <3>2. /\ Become(r, new) /\ At(r, "revoke") /\ req[r].rest = {}
          /\ UNCHANGED <<exists, maker, account, past>>
      BY <1>6, <2>2 DEF Revoked, Goto
    <3>3. req[r].on \in Resource
      BY <3>2 DEF IInv, CopyInv
    <3>4. "overlap" \notin past => \A u \in User : Known(u) => req[r].on \notin account[u].owned
      BY <2>2, <3>2 DEF IInv, SoleInv
    <3> HIDE DEF new
    <3> QED BY <3>1, <3>2, <3>3, <3>4, RequestStep
  <2> QED BY <2>1, <2>2
<1>7. CASE RevokeFails(r)
  <2>1. PICK u \in req[r].rest :
          Become(r, [req[r] EXCEPT !.rest = @ \ {u}, !.seen[u] = NoAccess, !.failed = TRUE])
    BY <1>7 DEF RevokeFails
  <2> DEFINE new == [req[r] EXCEPT !.rest = @ \ {u}, !.seen[u] = NoAccess, !.failed = TRUE]
  <2>2. /\ At(r, "revoke") /\ UNCHANGED <<exists, maker, account>> /\ past' = past \cup {"fault"}
        /\ Become(r, new)
    BY <1>7, <2>1 DEF RevokeFails
  <2>3. NoAccess \in Account
    BY DEF NoAccess, Account
  <2>4. /\ new \in Request /\ new.pc = "revoke" /\ new.on = req[r].on
        /\ new.rest = req[r].rest \ {u} /\ new.failed
        /\ new.seen = [req[r].seen EXCEPT ![u] = NoAccess]
    BY <1>1, <2>2, <2>3 DEF Request
  <2>5. \A v \in req[r].rest \ {u} : new.seen[v] = req[r].seen[v]
    BY <1>1, <2>4, RequestType
  <2>6. req[r].on \in Resource /\ req[r].rest \subseteq User
    BY <1>1, <2>2, RequestType DEF IInv, CopyInv
  <2>7. \A v \in req[r].rest : req[r].seen[v].admin \subseteq req[r].seen[v].owned \cup Groups(v)
    BY <2>2 DEF IInv, CopyInv
  <2>8. "overlap" \notin past => \A v \in req[r].rest : account[v] = req[r].seen[v]
    BY <2>2, <2>6 DEF IInv, SoleInv
  <2> HIDE DEF new
  <2> QED BY <2>2, <2>4, <2>5, <2>6, <2>7, <2>8, RequestStep
<1>8. ASSUME NEW x \in Resource, BeginCreate(r, x) PROVE IInv'
  <2> DEFINE new == [req[r] EXCEPT !.pc = "create", !.on = x]
  <2>1. /\ new \in Request /\ new.pc = "create" /\ new.on = x /\ new.me = req[r].me
        /\ new.user = req[r].user
    BY <1>1, Names DEF Request
  <2>2. /\ Become(r, new) /\ At(r, "ready") /\ UNCHANGED <<exists, maker, account, past>>
    BY <1>8 DEF BeginCreate
  <2>3. /\ req[r].user \in User /\ req[r].me.admin \subseteq req[r].me.owned
        /\ "overlap" \notin past => Own(req[r].user, req[r].me.owned)
    BY <2>2 DEF IInv, CopyInv, SoleInv, Entered
  <2> HIDE DEF new
  <2> QED BY <2>1, <2>2, <2>3, RequestStep
<1>9. ASSUME NEW names \in SUBSET Namespace, BeginDeleteNamespaces(r, names) PROVE IInv'
  <2>1. names \in SUBSET Resource
    BY DEF Resource
  <2> QED BY <1>3, <1>9, <2>1 DEF BeginDeleteNamespaces
<1>10. ASSUME NEW names \in SUBSET Gitconfig, BeginDeleteGitconfigs(r, names) PROVE IInv'
  <2>1. {x \in names : exists[x] # "no"} \in SUBSET Resource
    BY DEF Resource
  <2> QED BY <1>3, <1>10, <2>1 DEF BeginDeleteGitconfigs
<1> QED BY <1>4, <1>5, <1>6, <1>7, <1>8, <1>9, <1>10

\* The resource is made.
LEMMA CreateStep == ASSUME IInv, NEW r \in Req, Create(r) PROVE IInv'
<1> DEFINE x == req[r].on
<1>1. /\ req[r] \in Request /\ x \in Resource /\ req[r].user \in User /\ At(r, "create")
      /\ UNCHANGED <<account, past>> /\ Entered(r)
  BY DEF IInv, TypeOK, CopyInv, Create, Entered
<1>2. CASE exists[x] = "no"
  <2> DEFINE new == [req[r] EXCEPT !.pc = "grant"]
  <2>1. /\ new \in Request /\ new.pc = "grant" /\ new.user = req[r].user /\ new.me = req[r].me
        /\ new.on = x
    BY <1>1, Names DEF Request
  <2>2. /\ exists' = [exists EXCEPT ![x] = "yes"] /\ maker' = [maker EXCEPT ![x] = req[r].user]
        /\ Become(r, new)
    BY <1>2 DEF Create, Goto
  <2> HIDE DEF new, x
  <2> QED BY <1>1, <1>2, <2>1, <2>2, ResourceStep
<1>3. CASE exists[x] # "no"
  <2>1. Become(r, Idle) /\ UNCHANGED <<exists, maker>>
    BY <1>3 DEF Create, End
  <2> QED BY <1>1, <2>1, IdleType, RequestStep
<1> QED BY <1>2, <1>3

\* The resource goes, or begins to go.
LEMMA RemoveSteps ==
  ASSUME IInv, NEW r \in Req, RemoveNamespace(r) \/ RemoveGitconfig(r)
  PROVE  IInv'
<1> DEFINE x == req[r].on
<1>1. /\ req[r] \in Request /\ x \in Resource /\ At(r, "remove") /\ UNCHANGED <<account, past>>
      /\ req[r].todo \subseteq Resource /\ maker[x] \in User \cup {None}
  BY RequestType DEF IInv, TypeOK, CopyInv, RemoveNamespace, RemoveGitconfig
<1>2. CASE exists[x] = "no"
  <2>1. Become(r, Idle) /\ UNCHANGED <<exists, maker>>
    BY <1>2 DEF RemoveNamespace, RemoveGitconfig, End
  <2> QED BY <1>1, <2>1, IdleType, RequestStep
<1>3. CASE exists[x] # "no" /\ RemoveNamespace(r)
  <2> DEFINE new == [req[r] EXCEPT !.pc = "wait"]
             who == maker[x]
  <2>1. new \in Request /\ new.pc = "wait" /\ new.on = x
    BY <1>1, Names DEF Request
  <2>2. exists' = [exists EXCEPT ![x] = "going"] /\ Become(r, new)
    BY <1>3 DEF RemoveNamespace, Goto
  <2> HIDE DEF new
  <2>3. maker' = [maker EXCEPT ![x] = who] /\ (exists[x] = "yes" => req[r].on = x)
        /\ who \in User \cup {None}
    BY <1>1, <1>3 DEF IInv, TypeOK, RemoveNamespace
  <2>4. new.pc # "grant" /\ "going" \in {"no", "yes", "going"}
    BY <2>1
  <2> HIDE DEF x, who
  <2> QED BY <1>1, <2>1, <2>2, <2>3, <2>4, ResourceStep
<1>4. CASE exists[x] # "no" /\ RemoveGitconfig(r)
  <2>1. PICK new \in Request : Become(r, new) /\ new.pc \in {"idle", "list"}
    <3> DEFINE next == [Idle EXCEPT !.pc = "list", !.todo = req[r].todo]
    <3>1. next \in Request /\ next.pc = "list"
      BY <1>1, IdleType, Names DEF Request
    <3>2. Become(r, Idle) \/ Become(r, next)
      BY <1>4 DEF RemoveGitconfig, NextOrEnd, End
    <3> HIDE DEF next
    <3> QED BY <3>1, <3>2, IdleType
  <2>2. exists' = [exists EXCEPT ![x] = "no"] /\ maker' = [maker EXCEPT ![x] = None]
    BY <1>4 DEF RemoveGitconfig, Vanish
  <2>3. req[r].on = x
    OBVIOUS
  <2> HIDE DEF x
  <2> QED BY <1>1, <2>1, <2>2, <2>3, ResourceStep
<1> QED BY <1>2, <1>3, <1>4
-----------------------------------------------------------------------------
(* Makers keep access *)

\* Carries(q), after the step
WillCarry(q) ==
  /\ account'[q.user] # None
  /\ \A x \in Resource :
       exists'[x] = "yes" /\ maker'[x] = q.user => Pending(q, x) \/ Has(q.me, q.user, x)

\* What a step has to leave, when nothing has failed or overlapped.
LEMMA KeepStep ==
  ASSUME IInv, KeepInv, NEW r \in Req, NEW new, Become(r, new),
         past' = {} => /\ past = {} /\ \A q \in Req : q # r => At(q, "idle")
                       /\ MakersKnown' /\ ~new.failed
                       /\ \A x \in Resource : exists'[x] = "yes" =>
                            Has(account'[maker'[x]], maker'[x], x) \/ Pending(new, x)
                       /\ new.pc \in {"update", "ready", "create", "grant"} => WillCarry(new)
  PROVE  KeepInv'
<1> SUFFICES ASSUME past' = {} PROVE KeepInv'
  BY DEF KeepInv
<1>1. \A q \in Req : req'[q] = IF q = r THEN new ELSE req[q]
  BY DEF Become, IInv, TypeOK
<1>2. MakersHave'
  BY <1>1 DEF MakersHave
<1>3. ASSUME NEW q \in Req PROVE (Entered(q)' => Carries(req[q])') /\ ~req'[q].failed
  <2>1. CASE q = r
    BY <1>1, <2>1 DEF Entered, Carries, WillCarry
  <2>2. CASE q # r
    BY <1>1, <2>2 DEF Entered, KeepInv
  <2> QED BY <2>1, <2>2
<1> QED BY <1>2, <1>3 DEF KeepInv

\* Who is under way is alone, while nothing overlaps.
LEMMA Alone ==
  ASSUME IInv, NEW r \in Req, ~At(r, "idle"), past = {}
  PROVE  \A q \in Req : q # r => At(q, "idle")
BY DEF IInv, SoleInv

\* Steps that change but the request, which lets go of nothing it has to grant or revoke
LEMMA KeepQuiet ==
  ASSUME IInv, KeepInv, NEW r \in Req, NEW new, Become(r, new),
         UNCHANGED <<exists, maker, account>>,
         past' = {} => /\ past = {} /\ (AllIdle \/ ~At(r, "idle")) /\ ~new.failed
                       /\ \A x \in Resource : exists[x] = "yes" /\ Pending(req[r], x) => Pending(new, x)
                       /\ new.pc \in {"update", "ready", "create", "grant"} => Carries(new)
  PROVE  KeepInv'
<1> SUFFICES ASSUME past' = {} PROVE KeepInv'
  BY DEF KeepInv
<1>1. past = {} /\ \A q \in Req : q # r => At(q, "idle")
  BY Alone DEF AllIdle
<1>2. MakersKnown' /\ MakersHave
  BY <1>1 DEF KeepInv, MakersKnown
<1>3. \A x \in Resource : exists'[x] = "yes" =>
        Has(account'[maker'[x]], maker'[x], x) \/ Pending(new, x)
  <2> SUFFICES ASSUME NEW x \in Resource, exists[x] = "yes", ~Has(account[maker[x]], maker[x], x)
               PROVE  Pending(new, x)
    OBVIOUS
  <2>1. PICK q \in Req : Pending(req[q], x)
    BY <1>2 DEF MakersHave
  <2>2. q = r
    BY <1>1, <2>1 DEF Pending
  <2> QED BY <2>1, <2>2
<1>4. new.pc \in {"update", "ready", "create", "grant"} => WillCarry(new)
  BY DEF Carries, WillCarry
<1> QED BY <1>1, <1>2, <1>3, <1>4, KeepStep

\* A request that authentication lets in carries what its user has made.
LEMMA EnterKeeps ==
  ASSUME NEW u \in User, NEW a \in Account, NEW x \in Resource, Has(a, u, x)
  PROVE  Has(WithNamespaces(Authenticated(u, a)), u, x)
<1> DEFINE b == Authenticated(u, a)
<1>1. b \in Account /\ b.owned = a.owned /\ (u \notin Grouped => b.admin = a.admin)
  BY AccessAssumption DEF Authenticated, Account
<1> HIDE DEF b
<1>2. WithNamespaces(b).owned = b.owned \cup b.admin /\ WithNamespaces(b).admin = b.admin
  BY <1>1 DEF WithNamespaces, Account
<1> QED BY <1>1, <1>2 DEF Has, b

LEMMA LoginKeeps == ASSUME IInv, KeepInv, NEW r \in Req, NEW u \in User, Login(r, u) PROVE KeepInv'
<1>1. /\ At(r, "idle") /\ UNCHANGED <<exists, maker, account>>
      /\ past' = {} => past = {} /\ AllIdle
  BY DEF Login
<1>2. CASE ~Known(u)
  <2> DEFINE new == [Idle EXCEPT !.user = u, !.pc = "save"]
  <2>1. new.pc = "save" /\ ~new.failed
    BY DEF Idle
  <2>2. Become(r, new)
    BY <1>2 DEF Login
  <2> HIDE DEF new
  <2>3. \A x : ~Pending(req[r], x)
    BY <1>1 DEF Pending
  <2> QED BY <1>1, <2>1, <2>2, <2>3, KeepQuiet
<1>3. CASE Known(u)
  <2> DEFINE me == WithNamespaces(Authenticated(u, account[u]))
             new == [Idle EXCEPT !.user = u, !.me = me,
                                 !.pc = IF me = account[u] THEN "ready" ELSE "update"]
  <2>1. Become(r, new) /\ account[u] \in Account
    BY <1>3 DEF Login, Enter, IInv, TypeOK
  <2> HIDE DEF me
  <2>2. new.pc \in {"ready", "update"} /\ new.user = u /\ new.me = me /\ ~new.failed
    BY DEF Idle
  <2> HIDE DEF new
  <2>3. ASSUME past = {}, AllIdle PROVE Carries(new)
    <3> SUFFICES ASSUME NEW x \in Resource, exists[x] = "yes", maker[x] = u PROVE Has(me, u, x)
      BY <1>3, <2>2 DEF Carries
    <3>1. \A q \in Req : ~Pending(req[q], x)
      BY <2>3 DEF Pending, AllIdle
    <3>2. Has(account[u], u, x)
      BY <2>3, <3>1 DEF KeepInv, MakersHave
    <3> QED BY <2>1, <3>2, EnterKeeps DEF me
  <2>4. \A x : ~Pending(req[r], x)
    BY <1>1 DEF Pending
  <2> QED BY <1>1, <2>1, <2>2, <2>3, <2>4, KeepQuiet
<1> QED BY <1>2, <1>3

\* Steps that end a request, or take it on with what it has, or to a list
LEMMA MovesKeep ==
  ASSUME IInv, KeepInv, NEW r \in Req,
         \/ Leave(r) \/ Fail(r) \/ Revoked(r) \/ RevokeFails(r) \/ WaitMissing(r) \/ ListUsers(r)
         \/ \E x \in Resource : BeginCreate(r, x)
         \/ \E names \in SUBSET Namespace : BeginDeleteNamespaces(r, names)
         \/ \E names \in SUBSET Gitconfig : BeginDeleteGitconfigs(r, names)
  PROVE  KeepInv'
<1>1. req[r] \in Request /\ (past = {} => ~req[r].failed)
  BY DEF IInv, TypeOK, KeepInv
<1>2. ASSUME req[r].pc \in {"ready", "wait"}, UNCHANGED <<exists, maker, account, past>>,
             NEW new, Become(r, new), new.pc \in {"idle", "list"}, ~new.failed
      PROVE  KeepInv'
  <2>1. \A x : ~Pending(req[r], x)
    BY <1>2 DEF Pending
  <2> QED BY <1>2, <2>1, KeepQuiet
<1>a. Idle.pc = "idle" /\ ~Idle.failed
  BY DEF Idle
<1>b. ASSUME req[r].pc \in {"ready", "wait"}, UNCHANGED <<exists, maker, account, past>>,
             NEW todo, Become(r, [Idle EXCEPT !.pc = "list", !.todo = todo])
      PROVE  KeepInv'
  <2> DEFINE next == [Idle EXCEPT !.pc = "list", !.todo = todo]
  <2>1. next.pc = "list" /\ ~next.failed
    BY DEF Idle
  <2>2. Become(r, next)
    BY <1>b
  <2> HIDE DEF next
  <2> QED BY <1>2, <1>b, <2>1, <2>2
<1>3. CASE Leave(r)
  BY <1>2, <1>3, <1>a DEF Leave, End
<1>4. CASE WaitMissing(r)
  <2>1. UNCHANGED <<exists, maker, account, past>> /\ req[r].pc = "wait"
    BY <1>4 DEF WaitMissing
  <2>2. Become(r, Idle) \/ Become(r, [Idle EXCEPT !.pc = "list", !.todo = req[r].todo])
    BY <1>4 DEF WaitMissing, NextOrEnd, End
  <2> QED BY <1>2, <1>a, <1>b, <2>1, <2>2
<1>5. CASE Fail(r) \/ RevokeFails(r)
  <2>1. past' # {}
    BY <1>5 DEF Fail, RevokeFails
  <2> QED BY <2>1 DEF KeepInv
<1>6. CASE Revoked(r)
  <2> DEFINE new == [req[r] EXCEPT !.pc = "remove"]
  <2>1. /\ At(r, "revoke") /\ UNCHANGED <<exists, maker, account, past>>
        /\ req[r].failed \/ Become(r, new)
    BY <1>6 DEF Revoked, Goto
  <2>2. CASE past = {}
    <3>1. Become(r, new) /\ ~new.failed /\ new.pc = "remove" /\ new.on = req[r].on
      BY <1>1, <2>1, <2>2 DEF Request
    <3> HIDE DEF new
    <3>2. \A x : Pending(req[r], x) => Pending(new, x)
      BY <2>1, <3>1 DEF Pending
    <3> QED BY <2>1, <2>2, <3>1, <3>2, KeepQuiet
  <2>3. CASE past # {}
    BY <2>1, <2>3 DEF KeepInv
  <2> QED BY <2>2, <2>3
<1>7. CASE ListUsers(r)
  <2>1. PICK x, has :
          Become(r, [Idle EXCEPT !.pc = "revoke", !.on = x, !.todo = req[r].todo \ {x}, !.rest = has,
                       !.seen = [u \in User |-> IF u \in has THEN account[u] ELSE NoAccess]])
    BY <1>7 DEF ListUsers
  <2> DEFINE next == [Idle EXCEPT !.pc = "revoke", !.on = x, !.todo = req[r].todo \ {x}, !.rest = has,
                         !.seen = [u \in User |-> IF u \in has THEN account[u] ELSE NoAccess]]
  <2>2. PICK new : Become(r, new) /\ new.pc = "revoke" /\ ~new.failed
    <3>1. next.pc = "revoke" /\ ~next.failed
      BY DEF Idle
    <3>2. Become(r, next)
      BY <2>1
    <3> HIDE DEF next
    <3> QED BY <3>1, <3>2
  <2>3. At(r, "list") /\ UNCHANGED <<exists, maker, account, past>>
    BY <1>7 DEF ListUsers
  <2>4. \A x1 : ~Pending(req[r], x1)
    BY <2>3 DEF Pending
  <2> QED BY <2>2, <2>3, <2>4, KeepQuiet
<1>8. ASSUME NEW x \in Resource, BeginCreate(r, x) PROVE KeepInv'
  <2> DEFINE new == [req[r] EXCEPT !.pc = "create", !.on = x]
  <2>1. new.pc = "create" /\ new.me = req[r].me /\ new.user = req[r].user /\ new.failed = req[r].failed
    BY <1>1 DEF Request
  <2>2. Become(r, new) /\ At(r, "ready") /\ UNCHANGED <<exists, maker, account, past>>
    BY <1>8 DEF BeginCreate
  <2> HIDE DEF new
  <2>3. \A y : ~Pending(req[r], y)
    BY <2>2 DEF Pending
  <2>4. past = {} => Carries(req[r])
    BY <2>2 DEF KeepInv, Entered
  <2>5. past = {} => Carries(new)
    BY <2>1, <2>3, <2>4 DEF Carries
  <2> QED BY <1>1, <2>1, <2>2, <2>3, <2>5, KeepQuiet
<1>9. ASSUME NEW names \in SUBSET Namespace, BeginDeleteNamespaces(r, names) PROVE KeepInv'
  BY <1>9, <1>b DEF BeginDeleteNamespaces
<1>10. ASSUME NEW names \in SUBSET Gitconfig, BeginDeleteGitconfigs(r, names) PROVE KeepInv'
  BY <1>10, <1>b DEF BeginDeleteGitconfigs
<1> QED BY <1>3, <1>4, <1>5, <1>6, <1>7, <1>8, <1>9, <1>10

\* What is added is had, and what was had stays so but for what is dropped.
LEMMA AddHas ==
  ASSUME NEW a \in Account, NEW u, NEW x \in Resource
  PROVE  Has(Add(a, x), u, x) /\ \A y : Has(a, u, y) => Has(Add(a, x), u, y)
BY DEF Add, Account, Has

LEMMA DropHas ==
  ASSUME NEW a \in Account, NEW u, NEW x, NEW y, y # x, Has(a, u, y)
  PROVE  Has(Drop(a, x), u, y)
BY DEF Drop, Account, Has

\* The account of u is written, with what she has made and what is not pending.
LEMMA WriteKeeps ==
  ASSUME IInv, KeepInv, NEW r \in Req, NEW new, Become(r, new), ~At(r, "idle"),
         NEW u \in User, NEW a \in Account, account' = [account EXCEPT ![u] = a],
         UNCHANGED <<exists, maker, past>>,
         past = {} =>
           /\ ~new.failed
           /\ \A x \in Resource : exists[x] = "yes" /\ maker[x] = u => Has(a, u, x) \/ Pending(new, x)
           /\ \A x \in Resource : exists[x] = "yes" /\ maker[x] # u /\ Pending(req[r], x)
                => Pending(new, x)
           /\ new.pc \in {"update", "ready", "create", "grant"} =>
                new.user = u /\ WillCarry(new)
  PROVE  KeepInv'
<1> SUFFICES ASSUME past = {} PROVE KeepInv'
  BY DEF KeepInv
<1>1. \A v \in User : account'[v] = IF v = u THEN a ELSE account[v]
  BY DEF IInv, TypeOK
<1>2. \A q \in Req : q # r => At(q, "idle")
  BY Alone
<1>3. MakersKnown /\ MakersHave
  BY DEF KeepInv
<1>4. MakersKnown'
  BY <1>1, <1>3, AccountType DEF MakersKnown
<1>5. ASSUME NEW x \in Resource, exists[x] = "yes"
      PROVE  Has(account'[maker[x]], maker[x], x) \/ Pending(new, x)
  <2>1. CASE maker[x] = u
    BY <1>1, <1>5, <2>1
  <2>2. CASE maker[x] # u
    <3>1. maker[x] \in User /\ account'[maker[x]] = account[maker[x]]
      BY <1>1, <1>3, <1>5, <2>2 DEF MakersKnown
    <3>2. CASE Has(account[maker[x]], maker[x], x)
      BY <3>1, <3>2
    <3>3. CASE ~Has(account[maker[x]], maker[x], x)
      <4>1. PICK q \in Req : Pending(req[q], x)
        BY <1>3, <1>5, <3>3 DEF MakersHave
      <4>2. q = r
        BY <1>2, <4>1 DEF Pending
      <4> QED BY <1>5, <2>2, <4>1, <4>2
    <3> QED BY <3>2, <3>3
  <2> QED BY <2>1, <2>2
<1> QED BY <1>2, <1>4, <1>5, KeepStep

LEMMA SaveKeeps == ASSUME IInv, KeepInv, NEW r \in Req, Save(r) PROVE KeepInv'
<1>1. /\ At(r, "save") /\ UNCHANGED <<exists, maker, past>> /\ req[r].user \in User
      /\ \A x : ~Pending(req[r], x)
  BY DEF Save, IInv, CopyInv, Pending
<1>2. CASE Known(req[r].user)
  <2>1. Become(r, Idle) /\ UNCHANGED account /\ Idle.pc = "idle" /\ ~Idle.failed
    BY <1>2 DEF Save, End, Idle
  <2>2. past' = {} => past = {}
    BY <1>1
  <2> QED BY <1>1, <2>1, <2>2, KeepQuiet
<1>3. CASE ~Known(req[r].user)
  <2> DEFINE u == req[r].user
             a == [admin |-> Groups(u), owned |-> {}]
             me == WithNamespaces(Authenticated(u, a))
             new == [Idle EXCEPT !.user = u, !.me = me, !.pc = IF me = a THEN "ready" ELSE "update"]
  <2>1. a \in Account
    BY <1>1, GroupsType DEF Account
  <2>2. Become(r, new) /\ account' = [account EXCEPT ![u] = a]
    BY <1>3 DEF Save, Enter
  <2> HIDE DEF a, me
  <2>3. new.pc \in {"ready", "update"} /\ new.user = u /\ ~new.failed
    BY DEF Idle
  <2> HIDE DEF new
  <2>4. past = {} => \A x \in Resource : exists[x] = "yes" => maker[x] # u
    BY <1>3 DEF KeepInv, MakersKnown
  <2>5. account'[u] # None
    BY <1>1, <2>1, <2>2, AccountType DEF IInv, TypeOK
  <2>6. past = {} => WillCarry(new)
    BY <1>1, <2>3, <2>4, <2>5 DEF WillCarry
  <2>7. u \in User
    BY <1>1
  <2> HIDE DEF u
  <2> QED BY <1>1, <2>1, <2>2, <2>3, <2>4, <2>6, <2>7, WriteKeeps
<1> QED BY <1>2, <1>3

LEMMA UpdateLoginKeeps == ASSUME IInv, KeepInv, NEW r \in Req, UpdateLogin(r) PROVE KeepInv'
<1> DEFINE new == [req[r] EXCEPT !.pc = "ready"]
           u == req[r].user
<1>1. req[r] \in Request /\ u \in User /\ At(r, "update") /\ (past = {} => ~req[r].failed)
  BY DEF IInv, TypeOK, CopyInv, UpdateLogin, Entered, KeepInv
<1>2. /\ Become(r, new) /\ account' = [account EXCEPT ![u] = req[r].me]
      /\ UNCHANGED <<exists, maker, past>>
  BY DEF UpdateLogin, Write, Goto
<1>3. /\ new.pc = "ready" /\ new.user = u /\ new.me = req[r].me /\ new.failed = req[r].failed
      /\ req[r].me \in Account
  BY <1>1 DEF Request
<1> HIDE DEF new
<1>4. \A x : ~Pending(req[r], x) /\ ~Pending(new, x)
  BY <1>1, <1>3 DEF Pending
<1>5. past = {} => \A x \in Resource : exists[x] = "yes" /\ maker[x] = u => Has(req[r].me, u, x)
  BY <1>1, <1>4 DEF KeepInv, Entered, Carries
<1>6. account'[u] # None
  BY <1>1, <1>2, <1>3, AccountType DEF IInv, TypeOK
<1>7. past = {} => WillCarry(new)
  BY <1>2, <1>3, <1>5, <1>6 DEF WillCarry
<1> HIDE DEF u
<1> QED BY <1>1, <1>2, <1>3, <1>4, <1>5, <1>7, WriteKeeps

LEMMA GrantKeeps == ASSUME IInv, KeepInv, NEW r \in Req, Grant(r) PROVE KeepInv'
<1> DEFINE u == req[r].user
           a == Add(req[r].me, req[r].on)
<1>1. /\ req[r] \in Request /\ u \in User /\ req[r].on \in Resource /\ At(r, "grant")
      /\ req[r].me.admin \subseteq req[r].me.owned /\ req[r].me \in Account
  BY RequestType DEF IInv, TypeOK, CopyInv, Grant, Entered
<1>2. a \in Account
  BY <1>1, AddType
<1>3. Become(r, Idle) /\ account' = [account EXCEPT ![u] = a] /\ UNCHANGED <<exists, maker, past>>
  BY DEF Grant, Write, End
<1>4. past = {} => \A x \in Resource : exists[x] = "yes" /\ maker[x] = u => Has(a, u, x)
  <2> SUFFICES ASSUME past = {}, NEW x \in Resource, exists[x] = "yes", maker[x] = u
               PROVE  Has(a, u, x)
    OBVIOUS
  <2>1. Pending(req[r], x) \/ Has(req[r].me, u, x)
    BY <1>1 DEF KeepInv, Entered, Carries
  <2> QED BY <1>1, <2>1, AddHas DEF Pending
<1>5. past = {} => \A x : Pending(req[r], x) => maker[x] = u
  BY <1>1 DEF IInv, SoleInv, Pending
<1>6. Idle.pc = "idle" /\ ~Idle.failed
  BY DEF Idle
<1> HIDE DEF a, u
<1> QED BY <1>1, <1>2, <1>3, <1>4, <1>5, <1>6, WriteKeeps

LEMMA RevokeKeeps == ASSUME IInv, KeepInv, NEW r \in Req, Revoke(r) PROVE KeepInv'
<1>1. PICK u \in req[r].rest :
        /\ Write(u, Drop(req[r].seen[u], req[r].on))
        /\ Become(r, [req[r] EXCEPT !.rest = @ \ {u}, !.seen[u] = NoAccess])
  BY DEF Revoke
<1> DEFINE a == Drop(req[r].seen[u], req[r].on)
           new == [req[r] EXCEPT !.rest = @ \ {u}, !.seen[u] = NoAccess]
<1>2. /\ req[r] \in Request /\ At(r, "revoke") /\ UNCHANGED <<exists, maker, past>>
      /\ past = {} => ~req[r].failed
  BY DEF IInv, TypeOK, Revoke, KeepInv
<1>3. u \in User /\ req[r].seen[u] \in Account
  BY <1>2, RequestType
<1>4. a \in Account /\ account' = [account EXCEPT ![u] = a] /\ Become(r, new)
  BY <1>1, <1>3, DropType DEF Write
<1>5. new.pc = "revoke" /\ new.on = req[r].on /\ new.failed = req[r].failed
  BY <1>2 DEF Request
<1> HIDE DEF new
<1>6. \A x : Pending(req[r], x) <=> x = req[r].on
  BY <1>2 DEF Pending
<1>7. \A x : Pending(new, x) <=> x = req[r].on
  BY <1>5 DEF Pending
<1>8. ASSUME past = {}, NEW x \in Resource, exists[x] = "yes", maker[x] = u
      PROVE  Has(a, u, x) \/ Pending(new, x)
  <2> SUFFICES ASSUME x # req[r].on PROVE Has(a, u, x)
    BY <1>7
  <2>1. account[u] = req[r].seen[u]
    BY <1>2, <1>3, <1>8 DEF IInv, SoleInv
  <2>2. Has(account[u], u, x)
    <3>1. \A q \in Req : ~Pending(req[q], x)
      BY <1>2, <1>6, <1>8, Alone DEF Pending
    <3> QED BY <1>8, <3>1 DEF KeepInv, MakersHave
  <2> QED BY <1>3, <2>1, <2>2, DropHas
<1> HIDE DEF a
<1> QED BY <1>2, <1>3, <1>4, <1>5, <1>6, <1>7, <1>8, WriteKeeps

\* A resource is made, or goes.
LEMMA ResourceKeeps ==
  ASSUME IInv, KeepInv, NEW r \in Req, NEW new, Become(r, new), ~At(r, "idle"),
         NEW x \in Resource, UNCHANGED <<account, past>>,
         \A y \in Resource \ {x} : exists'[y] = exists[y] /\ maker'[y] = maker[y],
         \A y \in Resource : Pending(req[r], y) => y = x,
         exists'[x] = "yes" => Pending(new, x) /\ maker'[x] \in User /\ (past = {} => Known(maker'[x])),
         past = {} => ~new.failed,
         new.pc \notin {"update", "ready", "create"},
         past = {} /\ new.pc = "grant" => WillCarry(new)
  PROVE  KeepInv'
<1> SUFFICES ASSUME past = {} PROVE KeepInv'
  BY DEF KeepInv
<1>1. \A q \in Req : q # r => At(q, "idle")
  BY Alone
<1>2. MakersKnown'
  BY DEF KeepInv, MakersKnown
<1>3. ASSUME NEW y \in Resource, exists'[y] = "yes"
      PROVE  Has(account'[maker'[y]], maker'[y], y) \/ Pending(new, y)
  <2>1. CASE y = x
    BY <1>3, <2>1
  <2>2. CASE y # x
    <3>1. \A q \in Req : ~Pending(req[q], y)
      BY <1>1, <2>2 DEF Pending
    <3> QED BY <1>3, <2>2, <3>1 DEF KeepInv, MakersHave
  <2> QED BY <2>1, <2>2
<1> QED BY <1>1, <1>2, <1>3, KeepStep

LEMMA CreateKeeps == ASSUME IInv, KeepInv, NEW r \in Req, Create(r) PROVE KeepInv'
<1> DEFINE x == req[r].on
           u == req[r].user
<1>1. /\ req[r] \in Request /\ x \in Resource /\ u \in User /\ At(r, "create")
      /\ UNCHANGED <<account, past>> /\ \A y : ~Pending(req[r], y)
      /\ past = {} => ~req[r].failed /\ Carries(req[r])
  BY DEF IInv, TypeOK, CopyInv, Create, Entered, Pending, KeepInv
<1>2. CASE exists[x] = "no"
  <2> DEFINE new == [req[r] EXCEPT !.pc = "grant"]
  <2>1. /\ new.pc = "grant" /\ new.user = u /\ new.me = req[r].me /\ new.on = x
        /\ new.failed = req[r].failed
    BY <1>1 DEF Request
  <2>2. /\ exists' = [exists EXCEPT ![x] = "yes"] /\ maker' = [maker EXCEPT ![x] = u]
        /\ Become(r, new)
    BY <1>2 DEF Create, Goto
  <2> HIDE DEF new
  <2>3. /\ \A y \in Resource \ {x} : exists'[y] = exists[y] /\ maker'[y] = maker[y]
        /\ maker'[x] = u
    BY <1>1, <2>2 DEF IInv, TypeOK
  <2>4. Pending(new, x)
    BY <2>1 DEF Pending
  <2>5. past = {} => Known(u)
    BY <1>1 DEF Carries
  <2>6. past = {} => WillCarry(new)
    BY <1>1, <2>1, <2>3, <2>4, <2>5 DEF Carries, WillCarry
  <2> HIDE DEF x, u
  <2> QED BY <1>1, <2>1, <2>2, <2>3, <2>4, <2>5, <2>6, ResourceKeeps
<1>3. CASE exists[x] # "no"
  <2>1. Become(r, Idle) /\ UNCHANGED <<exists, maker>> /\ Idle.pc = "idle" /\ ~Idle.failed
    BY <1>3 DEF Create, End, Idle
  <2>2. past' = {} => past = {}
    BY <1>1
  <2> QED BY <1>1, <2>1, <2>2, KeepQuiet
<1> QED BY <1>2, <1>3

LEMMA RemovesKeep ==
  ASSUME IInv, KeepInv, NEW r \in Req, RemoveNamespace(r) \/ RemoveGitconfig(r)
  PROVE  KeepInv'
<1> DEFINE x == req[r].on
<1>1. /\ req[r] \in Request /\ x \in Resource /\ At(r, "remove") /\ UNCHANGED <<account, past>>
      /\ past = {} => ~req[r].failed
  BY DEF IInv, TypeOK, CopyInv, RemoveNamespace, RemoveGitconfig, KeepInv
<1>2. \A y : Pending(req[r], y) => y = x
  BY DEF Pending
<1>3. /\ exists'[x] # "yes"
      /\ \A y \in Resource \ {x} : exists'[y] = exists[y] /\ maker'[y] = maker[y]
  BY <1>1 DEF RemoveNamespace, RemoveGitconfig, Vanish, IInv, TypeOK
<1>4. PICK new : /\ Become(r, new) /\ new.pc \in {"idle", "wait", "list"}
                 /\ past = {} => ~new.failed
  <2> DEFINE next == [Idle EXCEPT !.pc = "list", !.todo = req[r].todo]
             wait == [req[r] EXCEPT !.pc = "wait"]
  <2>1. Idle.pc = "idle" /\ ~Idle.failed /\ next.pc = "list" /\ ~next.failed
    BY DEF Idle
  <2>2. wait.pc = "wait" /\ wait.failed = req[r].failed
    BY <1>1 DEF Request
  <2>3. Become(r, Idle) \/ Become(r, next) \/ Become(r, wait)
    BY DEF RemoveNamespace, RemoveGitconfig, NextOrEnd, End, Goto
  <2> HIDE DEF next, wait
  <2> QED BY <1>1, <2>1, <2>2, <2>3
<1> HIDE DEF x
<1> QED BY <1>1, <1>2, <1>3, <1>4, ResourceKeeps

LEMMA TerminatedKeeps == ASSUME IInv, KeepInv, NEW x \in Namespace, Terminated(x) PROVE KeepInv'
<1>1. /\ exists' = [exists EXCEPT ![x] = "no"] /\ maker' = [maker EXCEPT ![x] = None]
      /\ UNCHANGED <<account, req, past>>
  BY DEF Terminated, Vanish
<1>2. \A y \in Resource : exists'[y] = "yes" => exists[y] = "yes" /\ maker'[y] = maker[y]
  BY <1>1 DEF IInv, TypeOK
<1>3. MakersKnown => MakersKnown'
  BY <1>1, <1>2 DEF MakersKnown
<1>4. MakersHave => MakersHave'
  BY <1>1, <1>2 DEF MakersHave
<1>5. ASSUME NEW r \in Req, Carries(req[r]) PROVE Carries(req[r])'
  BY <1>1, <1>2, <1>5 DEF Carries
<1> QED BY <1>1, <1>3, <1>4, <1>5 DEF KeepInv, Entered

LEMMA NextKeeps == IInv /\ KeepInv /\ [Next]_vars => KeepInv'
<1> SUFFICES ASSUME IInv, KeepInv, [Next]_vars PROVE KeepInv'
  OBVIOUS
<1>1. CASE Next
  BY <1>1, LoginKeeps, SaveKeeps, UpdateLoginKeeps, GrantKeeps, RevokeKeeps, MovesKeep,
     CreateKeeps, RemovesKeep, TerminatedKeeps DEF Next
<1>2. CASE UNCHANGED vars
  BY <1>2 DEF vars, KeepInv, MakersKnown, MakersHave, Carries, Entered
<1> QED BY <1>1, <1>2

-----------------------------------------------------------------------------
(* The theorems *)

LEMMA InitInv == Init => IInv
<1> SUFFICES ASSUME Init PROVE IInv
  OBVIOUS
<1>1. \A r \in Req : req[r].pc = "idle"
  BY IdleType DEF Init
<1>2. NoAccess \in Account /\ NoAccess.admin = {} /\ NoAccess.owned = {}
  BY DEF NoAccess, Account
<1>3. \A u \in User : account[u] = None \/ account[u] = NoAccess
  BY DEF Init
<1>4. TypeOK
  BY <1>2, IdleType DEF Init, TypeOK
<1>5. RolesWithinNamespaces /\ CopyInv
  BY <1>1, <1>2, <1>3 DEF RolesWithinNamespaces, CopyInv, Entered
<1>6. SoleInv
  BY <1>1, <1>2, <1>3 DEF SoleInv, Own, Entered
<1> QED BY <1>4, <1>5, <1>6 DEF IInv

LEMMA NextInv == IInv /\ [Next]_vars => IInv'
<1> SUFFICES ASSUME IInv, [Next]_vars PROVE IInv'
  OBVIOUS
<1>1. CASE Next
  BY <1>1, LoginStep, SaveStep, UpdateLoginStep, GrantStep, RevokeStep, ListUsersStep, MoveSteps,
     CreateStep, RemoveSteps, TerminatedStep DEF Next
<1>2. CASE UNCHANGED vars
  BY <1>2 DEF vars, IInv, TypeOK, RolesWithinNamespaces, CopyInv, SoleInv, Own, Entered
<1> QED BY <1>1, <1>2

\* Every reachable state is well typed.
THEOREM AccessTypes == Spec => []TypeOK
<1>1. IInv => TypeOK
  BY DEF IInv
<1> QED BY <1>1, InitInv, NextInv, PTL DEF Spec

\* Whatever overlaps, fails or is written back from stale copies: the roles in an
\* account lie within the namespaces in it, or come from groups.
THEOREM RolesWithin == Spec => []RolesWithinNamespaces
<1>1. IInv => RolesWithinNamespaces
  BY DEF IInv
<1> QED BY <1>1, InitInv, NextInv, PTL DEF Spec

\* While requests do not overlap, nobody lists a resource of somebody else, or one
\* that is gone, however many of them failed halfway.
THEOREM NothingForeign == Spec => []NoForeignAccess
<1>1. IInv => NoForeignAccess
  BY DEF IInv, SoleInv, Own, NoForeignAccess
<1> QED BY <1>1, InitInv, NextInv, PTL DEF Spec

\* While requests neither overlap nor fail, who has made a resource keeps access to it
\* until it is deleted: through the logins that replace her roles by those of her groups,
\* through what else she makes, and through the deletions that rewrite her account.
THEOREM MakersKeepAccess == Spec => []OwnerHasAccess
<1>1. Init => KeepInv
  <2> SUFFICES ASSUME Init PROVE KeepInv
    OBVIOUS
  <2>1. \A r \in Req : req[r].pc = "idle" /\ ~req[r].failed
    BY DEF Init, Idle
  <2>2. \A x \in Resource : exists[x] # "yes"
    BY DEF Init
  <2> QED BY <2>1, <2>2 DEF KeepInv, MakersKnown, MakersHave, Entered
<1>2. KeepInv => OwnerHasAccess
  BY DEF KeepInv, MakersKnown, MakersHave, OwnerHasAccess, AllIdle, Has, Pending
<1> QED BY <1>1, <1>2, InitInv, NextInv, NextKeeps, PTL DEF Spec
=============================================================================
