------------------------------- MODULE Access -------------------------------
(***************************************************************************)
(* Who may use what: the accounts of the users, and the namespaces and git *)
(* configurations they create.  An account is a secret that lists what its *)
(* user has created, and her roles; the role of an administrator is hers   *)
(* in every namespace she creates.  The resources are elsewhere, so that   *)
(* each creation and deletion is several calls, and an account is always   *)
(* written as a whole, from the copy the request has read.                 *)
(*                                                                         *)
(* One action is one access of a request to kubernetes.                    *)
(*                                                                         *)
(* Abstractions.  The permission of a role for an endpoint is              *)
(* configuration: a request that is refused for it changes nothing.  Of    *)
(* the roles only that of an administrator is kept, global (Global) or of  *)
(* a namespace.  The applications, services and configurations deleted     *)
(* with a namespace are elsewhere; here they may make the deletion fail.   *)
(* A user has one secret.                                                  *)
(***************************************************************************)
EXTENDS Naturals

CONSTANTS
  Req,       \* slots for requests (bound)
  User,
  Global,    \* the users with the role of an administrator everywhere
  Grouped,   \* those whose identity provider puts them into groups with roles
  Group,     \* the namespaces of which these roles make them administrators
  New,       \* those without an account at first
  Namespace,
  Gitconfig,
  None,
  Faults     \* whether calls fail and requests stop halfway

Resource == Namespace \cup Gitconfig

ASSUME AccessAssumption ==
  /\ Global \subseteq User /\ Grouped \subseteq User /\ New \subseteq User
  /\ Group \in [Grouped -> SUBSET Namespace]
  /\ None \notin User \cup Resource
  /\ Namespace \cap Gitconfig = {}
  /\ Faults \in BOOLEAN

VARIABLES
  exists,  \* the resources
  maker,   \* history: who made the resource there is
  account, \* the secrets of the users
  req,
  past     \* history: what has happened that may spoil the order

vars == <<exists, maker, account, req, past>>
-----------------------------------------------------------------------------
(* Data *)

\* admin: the namespaced roles; owned: the namespaces and gitconfigs listed
Account == [admin : SUBSET Namespace, owned : SUBSET Resource]
NoAccess == [admin |-> {}, owned |-> {}]
ASSUME NoneAssumption == None \notin Account

PCs == {"idle", "save", "update", "ready", "create", "grant", "list", "revoke", "remove", "wait"}

\* me: the account as authentication left it; on: the resource worked on; todo:
\* those yet to delete; seen: the accounts as listed; rest: those yet to write.
Request == [pc : PCs, user : User \cup {None}, me : Account, on : Resource \cup {None},
            todo : SUBSET Resource, seen : [User -> Account], rest : SUBSET User,
            failed : BOOLEAN]
Idle == [pc |-> "idle", user |-> None, me |-> NoAccess, on |-> None, todo |-> {},
         seen |-> [u \in User |-> NoAccess], rest |-> {}, failed |-> FALSE]

At(r, pc) == req[r].pc = pc
Become(r, new) == req' = [req EXCEPT ![r] = new]
Goto(r, pc) == Become(r, [req[r] EXCEPT !.pc = pc])
End(r) == Become(r, Idle)
AllIdle == \A q \in Req : At(q, "idle")

Known(u) == account[u] # None
Groups(u) == IF u \in Grouped THEN Group[u] ELSE {}
\* The namespaces of the roles belong to those of the user.
WithNamespaces(a) == [a EXCEPT !.owned = @ \cup a.admin]
\* Roles of groups replace those of the account.
Authenticated(u, a) == IF u \in Grouped THEN [a EXCEPT !.admin = Group[u]] ELSE a

\* Mutants of Add: the namespace is left to the next login; a role for a gitconfig
AddRoleOnly(a, x) == [a EXCEPT !.admin = @ \cup ({x} \cap Namespace)]
AddRoleAlways(a, x) == [admin |-> a.admin \cup {x}, owned |-> a.owned \cup {x}]
\* AddNamespace and the role of an administrator, AddGitconfig
Add(a, x) == [admin |-> a.admin \cup ({x} \cap Namespace), owned |-> a.owned \cup {x}]
\* Mutant of Drop: the roles stay
DropNameOnly(a, x) == [a EXCEPT !.owned = @ \ {x}]
\* RemoveNamespace, RemoveGitconfig
Drop(a, x) == [admin |-> a.admin \ {x}, owned |-> a.owned \ {x}]
-----------------------------------------------------------------------------
Init ==
  /\ exists = [x \in Resource |-> "no"]
  /\ maker = [x \in Resource |-> None]
  /\ account = [u \in User |-> IF u \in New THEN None ELSE NoAccess]
  /\ req = [r \in Req |-> Idle]
  /\ past = {}

\* What follows authentication: the request, once the account needs no update.
Enter(r, u, a) ==
  LET me == WithNamespaces(Authenticated(u, a))
  IN Become(r, [Idle EXCEPT !.user = u, !.me = me,
                            !.pc = IF me = a THEN "ready" ELSE "update"])

\* A request arrives; its user may be unknown, if she comes from a provider.
Login(r, u) ==
  /\ At(r, "idle")
  /\ IF Known(u) THEN Enter(r, u, account[u])
     ELSE Become(r, [Idle EXCEPT !.user = u, !.pc = "save"])
  /\ past' = IF AllIdle THEN past ELSE past \cup {"overlap"}
  /\ UNCHANGED <<exists, maker, account>>

\* The account of a new user is created, with the roles of her groups.
Save(r) ==
  /\ At(r, "save")
  /\ LET u == req[r].user
         a == [admin |-> Groups(u), owned |-> {}]
     IN IF Known(u) THEN End(r) /\ UNCHANGED account
        ELSE Enter(r, u, a) /\ account' = [account EXCEPT ![u] = a]
  /\ UNCHANGED <<exists, maker, past>>

\* UpdateUser reads the secret anew, but writes the roles and lists of the copy.
Write(u, a) == account' = [account EXCEPT ![u] = a]

UpdateLogin(r) ==
  /\ At(r, "update")
  /\ Write(req[r].user, req[r].me) /\ Goto(r, "ready")
  /\ UNCHANGED <<exists, maker, past>>

BeginCreate(r, x) ==
  /\ At(r, "ready") /\ exists[x] = "no"
  /\ Become(r, [req[r] EXCEPT !.pc = "create", !.on = x])
  /\ UNCHANGED <<exists, maker, account, past>>

\* The namespace, or the secret of the git configuration
Create(r) ==
  /\ At(r, "create")
  /\ LET x == req[r].on
     IN IF exists[x] = "no"
        THEN /\ exists' = [exists EXCEPT ![x] = "yes"]
             /\ maker' = [maker EXCEPT ![x] = req[r].user]
             /\ Goto(r, "grant")
        ELSE End(r) /\ UNCHANGED <<exists, maker>>
  /\ UNCHANGED <<account, past>>

Grant(r) ==
  /\ At(r, "grant")
  /\ Write(req[r].user, Add(req[r].me, req[r].on)) /\ End(r)
  /\ UNCHANGED <<exists, maker, past>>

MayDelete(r, x) == req[r].user \in Global \/ x \in req[r].me.owned

\* Names that do not exist are let through, but that in the path is checked.
BeginDeleteNamespaces(r, names) ==
  /\ At(r, "ready")
  /\ \E x \in names : exists[x] # "no"
  /\ \A x \in names : MayDelete(r, x)
  /\ Become(r, [Idle EXCEPT !.pc = "list", !.todo = names])
  /\ UNCHANGED <<exists, maker, account, past>>

\* Git configurations that do not exist are skipped.
BeginDeleteGitconfigs(r, names) ==
  /\ At(r, "ready")
  /\ LET known == {x \in names : exists[x] # "no"}
     IN /\ known # {}
        /\ \A x \in known : MayDelete(r, x)
        /\ Become(r, [Idle EXCEPT !.pc = "list", !.todo = known])
  /\ UNCHANGED <<exists, maker, account, past>>

\* GetUsers, for the next resource to delete
ListUsers(r) ==
  /\ At(r, "list")
  /\ \E x \in req[r].todo :
       LET has == {u \in User : Known(u) /\ x \in account[u].admin \cup account[u].owned}
       IN Become(r, [Idle EXCEPT !.pc = "revoke", !.on = x, !.todo = req[r].todo \ {x}, !.rest = has,
                                 !.seen = [u \in User |-> IF u \in has THEN account[u] ELSE NoAccess]])
  /\ UNCHANGED <<exists, maker, account, past>>

Revoke(r) ==
  /\ At(r, "revoke")
  /\ \E u \in req[r].rest :
       /\ Write(u, Drop(req[r].seen[u], req[r].on))
       /\ Become(r, [req[r] EXCEPT !.rest = @ \ {u}, !.seen[u] = NoAccess])
  /\ UNCHANGED <<exists, maker, past>>

\* An account that cannot be written is noted, and the others are still tried.
RevokeFails(r) ==
  /\ At(r, "revoke") /\ Faults
  /\ \E u \in req[r].rest : Become(r, [req[r] EXCEPT !.rest = @ \ {u}, !.seen[u] = NoAccess,
                                                      !.failed = TRUE])
  /\ past' = past \cup {"fault"}
  /\ UNCHANGED <<exists, maker, account>>

\* Mutant of Revoked: goes on, although an account could not be written
RevokedAnyway(r) ==
  /\ At(r, "revoke") /\ req[r].rest = {}
  /\ Goto(r, "remove")
  /\ UNCHANGED <<exists, maker, account, past>>

\* Only when every account is written the resource is deleted.
Revoked(r) ==
  /\ At(r, "revoke") /\ req[r].rest = {}
  /\ IF req[r].failed THEN End(r) ELSE Goto(r, "remove")
  /\ UNCHANGED <<exists, maker, account, past>>

NextOrEnd(r) ==
  IF req[r].todo = {} THEN End(r)
  ELSE Become(r, [Idle EXCEPT !.pc = "list", !.todo = req[r].todo])

\* A resource is gone, and its name is free.
Vanish(x) ==
  /\ exists' = [exists EXCEPT ![x] = "no"]
  /\ maker' = [maker EXCEPT ![x] = None]

\* A namespace takes its time to go, and the request waits for it.
RemoveNamespace(r) ==
  /\ At(r, "remove") /\ req[r].on \in Namespace
  /\ IF exists[req[r].on] = "no" THEN End(r) /\ UNCHANGED exists
     ELSE /\ exists' = [exists EXCEPT ![req[r].on] = "going"]
          /\ Goto(r, "wait")
  /\ UNCHANGED <<maker, account, past>>

RemoveGitconfig(r) ==
  /\ At(r, "remove") /\ req[r].on \in Gitconfig
  /\ IF exists[req[r].on] = "no" THEN End(r) /\ UNCHANGED <<exists, maker>>
     ELSE Vanish(req[r].on) /\ NextOrEnd(r)
  /\ UNCHANGED <<account, past>>

WaitMissing(r) ==
  /\ At(r, "wait") /\ exists[req[r].on] = "no"
  /\ NextOrEnd(r)
  /\ UNCHANGED <<exists, maker, account, past>>

\* The namespace controller of kubernetes
Terminated(x) ==
  /\ exists[x] = "going"
  /\ Vanish(x)
  /\ UNCHANGED <<account, req, past>>

\* A request that does none of this
Leave(r) == At(r, "ready") /\ End(r) /\ UNCHANGED <<exists, maker, account, past>>

\* A call fails, a wait times out, or the server stops.
Fail(r) ==
  /\ Faults /\ req[r].pc \notin {"idle", "ready"}
  /\ End(r) /\ past' = past \cup {"fault"}
  /\ UNCHANGED <<exists, maker, account>>

Next ==
  \/ \E r \in Req :
       \/ \E u \in User : Login(r, u)
       \/ Save(r) \/ UpdateLogin(r) \/ Leave(r)
       \/ \E x \in Resource : BeginCreate(r, x)
       \/ Create(r) \/ Grant(r)
       \/ \E names \in SUBSET Namespace : BeginDeleteNamespaces(r, names)
       \/ \E names \in SUBSET Gitconfig : BeginDeleteGitconfigs(r, names)
       \/ ListUsers(r) \/ Revoke(r) \/ RevokeFails(r) \/ Revoked(r)
       \/ RemoveNamespace(r) \/ RemoveGitconfig(r) \/ WaitMissing(r)
       \/ Fail(r)
  \/ \E x \in Namespace : Terminated(x)

Spec == Init /\ [][Next]_vars
-----------------------------------------------------------------------------
(* Properties *)

\* An account or a request holds nothing outside of its range; a resource that
\* exists has been made by a user (the accounts and handlers as Go's types).
TypeOK ==
  /\ exists \in [Resource -> {"no", "yes", "going"}]
  /\ maker \in [Resource -> User \cup {None}]
  /\ account \in [User -> Account \cup {None}]
  /\ req \in [Req -> Request]
  /\ past \subseteq {"overlap", "fault"}

\* What her roles let a user do in a namespace the middleware lets her do: with the
\* role of its administrator, the namespace is among hers (or comes from her groups
\* with the next login).  IsAllowed reads the one list, NamespaceAuthorization the
\* other, and stale copies of both are written back all the time.
RolesWithinNamespaces ==
  \A u \in User : Known(u) => account[u].admin \subseteq account[u].owned \cup Groups(u)

\* While requests do not overlap, and whatever fails: a user has access only to what
\* she has made herself and still exists, so that who takes the name of a namespace
\* that was deleted does not share it (RemoveNamespaceFromUsers before Delete).
NoForeignAccess ==
  "overlap" \notin past =>
    \A u \in User : Known(u) => \A x \in account[u].owned \ Groups(u) :
      exists[x] # "no" /\ maker[x] = u

\* While requests do not overlap and nothing fails: who has made a resource keeps
\* access to it until it is deleted, through logins that replace her roles and
\* through the deletion of others.
OwnerHasAccess ==
  past = {} /\ AllIdle =>
    \A x \in Resource : exists[x] = "yes" =>
      /\ Known(maker[x]) /\ x \in account[maker[x]].owned
      /\ x \in Namespace /\ maker[x] \notin Grouped => x \in account[maker[x]].admin
=============================================================================
