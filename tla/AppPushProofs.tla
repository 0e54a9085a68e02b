---------------------------- MODULE AppPushProofs ----------------------------
(***************************************************************************)
(* Proofs about AppPush, for any number of commands, applications, routes, *)
(* attempts and restarts.                                                  *)
(*                                                                         *)
(* Local says how the client, the thread of the server and the status of   *)
(* one command belong together; no step of another command disturbs it.    *)
(* CopyInv says that a copy of a CR that is not stale is the CR.           *)
(***************************************************************************)
EXTENDS AppPush, TLAPS

Handling == {"idle", "check", "create", "look", "save"}
Pushing == {"check", "create", "begin", "staging", "job", "patch", "await", "get", "image",
            "reget", "validate", "origin"}

Local(c, k, t, s, rs) ==
  /\ k.pc = "new" => k.wish = NoWish /\ t.pc = "idle" /\ s = "none"
  /\ k.pc # "new" => k.wish.op \in {"push", "update", "delete"} /\ k.wish.app \in App
  /\ k.wish.sources => k.wish.op = "push"
  /\ k.pc \in {"create", "update", "start", "poll"} => k.wish.op = "push"
  /\ k.pc \in {"create", "update"} => t.pc \in Handling
  /\ k.pc = "wait" => k.wish.op # "push"
  /\ t.pc \in Pushing => k.wish.op = "push"
  /\ t.pc \in {"remove", "delcr"} => k.wish.op # "push"
  /\ s \in Unfinished <=> k.wish.op = "push" /\ t.pc \notin Handling
  /\ k.wish.sources =>
       /\ t.pc = "helm" => t.stage = c
       /\ t.pc \in {"list", "unstage", "origin"} \/ s = "succeeded" \/ k.pc = "ok"
            => c \in rs[k.wish.app]

LocalInv == \A c \in Cmd : Local(c, cli[c], srv[c], table[c], ran)
CopyInv == \A c \in Cmd : At(c, "image") /\ c \notin stale => srv[c].copy = Of(c)
IInv == TypeOK /\ LocalInv /\ CopyInv

USE DEF At, Wants
-----------------------------------------------------------------------------
(* Types *)

LEMMA Names ==
  /\ \A pc \in {"idle", "check", "create", "look", "save", "begin", "staging", "job", "patch",
                "await", "get", "image", "reget", "validate", "lookup", "helm", "list",
                "unstage", "origin", "remove", "delcr"} : pc \in PCs
  /\ \A s \in {"none", "pending", "staging", "deploying", "succeeded", "failed"} : s \in Status
  /\ Unfinished = {"pending", "staging", "deploying"}
BY DEF PCs, Status, Unfinished

LEMMA IdleType == Idle \in Thread /\ Idle.pc = "idle" /\ NoCR \in CR /\ NoCR.routes = {}
BY Names DEF Idle, Thread, NoCR, CR, Build

\* A thread that has got to pc, and what it has otherwise kept of Idle.
LEMMA AtType ==
  ASSUME NEW t \in Thread, NEW pc \in PCs
  PROVE  [t EXCEPT !.pc = pc] \in Thread /\ [t EXCEPT !.pc = pc].pc = pc
BY DEF Thread

\* A client that has got to pc.
LEMMA ClientType ==
  ASSUME NEW k \in Client, NEW pc \in {"create", "update", "wait", "start", "poll", "ok", "failed"}
  PROVE  /\ [k EXCEPT !.pc = pc] \in Client
         /\ [k EXCEPT !.pc = pc].pc = pc /\ [k EXCEPT !.pc = pc].wish = k.wish
BY DEF Client

LEMMA Parts ==
  ASSUME TypeOK, NEW c \in Cmd
  PROVE  /\ srv[c] \in Thread /\ cli[c] \in Client /\ table[c] \in Status
         /\ srv[c].pc \in PCs /\ srv[c].copy \in CR /\ srv[c].routes \subseteq Route
         /\ srv[c].jobs \subseteq Cmd /\ srv[c].stage \in Build
         /\ cli[c].wish \in Wish /\ cli[c].wish.routes \subseteq Route
BY DEF TypeOK, Thread, Client, Wish

LEMMA AppParts ==
  ASSUME TypeOK, NEW a \in App
  PROVE  /\ app[a] \in CR /\ app[a].routes \subseteq Route /\ app[a].stage \in Build
         /\ app[a].image \in BOOLEAN /\ app[a].exists \in BOOLEAN
BY DEF TypeOK, CR
-----------------------------------------------------------------------------
(* The steps of a command *)

LEMMA LocalGrows ==
  ASSUME NEW c, NEW k, NEW t, NEW s, NEW rs, NEW rs1, Local(c, k, t, s, rs),
         \A a \in App : rs[a] \subseteq rs1[a]
  PROVE  Local(c, k, t, s, rs1)
BY DEF Local, NoWish

\* What a step of the command c asks for, to keep the invariant.
LEMMA CommandStep ==
  ASSUME IInv, NEW c \in Cmd, NEW t \in Thread, NEW k \in Client, NEW s \in Status,
         srv' = [srv EXCEPT ![c] = t], cli' = [cli EXCEPT ![c] = k],
         table' = [table EXCEPT ![c] = s],
         Local(c, k, t, s, ran'),
         app' \in [App -> CR], stale' \subseteq Cmd,
         release' \in [App -> Release], job' \in [Cmd -> JobState],
         ran' \in [App -> SUBSET Build], restarts' = restarts,
         \A a \in App : ran[a] \subseteq ran'[a],
         \A d \in Cmd \ {c} : d \in stale => d \in stale',
         \A d \in Cmd \ {c} : At(d, "image") => Of(d)' = Of(d) \/ d \in stale',
         t.pc = "image" /\ c \notin stale' => t.copy = app'[k.wish.app]
  PROVE  IInv'
<1>1. \A d \in Cmd : /\ srv'[d] = IF d = c THEN t ELSE srv[d]
                     /\ cli'[d] = IF d = c THEN k ELSE cli[d]
                     /\ table'[d] = IF d = c THEN s ELSE table[d]
  BY DEF IInv, TypeOK
<1>2. TypeOK'
  BY DEF IInv, TypeOK
<1>3. LocalInv'
  <2> SUFFICES ASSUME NEW d \in Cmd PROVE Local(d, cli'[d], srv'[d], table'[d], ran')
    BY DEF LocalInv
  <2>1. CASE d = c
    BY <1>1, <2>1
  <2>2. CASE d # c
    <3>1. Local(d, cli[d], srv[d], table[d], ran)
      BY DEF IInv, LocalInv
    <3>2. Local(d, cli[d], srv[d], table[d], ran')
      BY <3>1, LocalGrows
    <3> QED BY <1>1, <2>2, <3>2
  <2> QED BY <2>1, <2>2
<1>4. CopyInv'
  BY <1>1 DEF IInv, CopyInv, Of
<1> QED BY <1>2, <1>3, <1>4 DEF IInv

\* Steps in which only the thread of the server goes on.
LEMMA ThreadStep ==
  ASSUME IInv, NEW c \in Cmd, NEW t \in Thread, Become(c, t),
         UNCHANGED <<app, cli, table, restarts>>, stale' \in {stale, stale \ {c}},
         release' \in [App -> Release], job' \in [Cmd -> JobState],
         ran' \in [App -> SUBSET Build], \A a \in App : ran[a] \subseteq ran'[a],
         Local(c, cli[c], t, table[c], ran'),
         t.pc = "image" => t.copy = Of(c)
  PROVE  IInv'
<1>1. /\ srv' = [srv EXCEPT ![c] = t] /\ cli' = [cli EXCEPT ![c] = cli[c]]
      /\ table' = [table EXCEPT ![c] = table[c]] /\ app' \in [App -> CR] /\ stale' \subseteq Cmd
      /\ cli[c] \in Client /\ table[c] \in Status
  BY DEF IInv, TypeOK, Become
<1>2. \A d \in Cmd \ {c} : (d \in stale => d \in stale') /\ Of(d)' = Of(d)
  BY <1>1 DEF Of, IInv, TypeOK
<1>3. t.pc = "image" => t.copy = app'[cli[c].wish.app]
  BY DEF Of
<1> QED BY <1>1, <1>2, <1>3, CommandStep

\* A write of the CR of c's application does what CommandStep asks of it.
LEMMA WriteStep ==
  ASSUME IInv, NEW c \in Cmd, Wants(c).app \in App, NEW new \in CR, WriteCR(Wants(c).app, new),
         UNCHANGED cli \/ \E k : cli' = [cli EXCEPT ![c] = k]
  PROVE  /\ app' \in [App -> CR] /\ stale' \subseteq Cmd
         /\ \A d \in Cmd \ {c} : d \in stale => d \in stale'
         /\ \A d \in Cmd \ {c} : At(d, "image") => Of(d)' = Of(d) \/ d \in stale'
<1>1. app' \in [App -> CR] /\ stale' \subseteq Cmd
  BY DEF WriteCR, IInv, TypeOK
<1>2. \A d \in Cmd \ {c} : cli'[d] = cli[d]
  BY DEF IInv, TypeOK
<1>3. ASSUME NEW d \in Cmd \ {c}, At(d, "image") PROVE Of(d)' = Of(d) \/ d \in stale'
  BY <1>2, <1>3 DEF WriteCR, Of, IInv, TypeOK
<1> QED BY <1>1, <1>3 DEF WriteCR

\* A thread ends: with an answer, if it is a handler ...
LEMMA AnswerLocal ==
  ASSUME IInv, NEW c \in Cmd, NEW pc \in {"start", "ok", "failed"}, Answer(c, pc),
         ~Background(c), cli[c].pc # "new",
         pc = "start" => Wants(c).op = "push", pc = "ok" => Wants(c).op # "push"
  PROVE  \E k \in Client : /\ cli' = [cli EXCEPT ![c] = k]
                           /\ srv' = [srv EXCEPT ![c] = Idle]
                           /\ table' = [table EXCEPT ![c] = table[c]]
                           /\ k.wish = Wants(c)
                           /\ Local(c, k, Idle, table[c], ran)
<1>1. Local(c, cli[c], srv[c], table[c], ran) /\ cli[c] \in Client
  BY DEF IInv, LocalInv, TypeOK
<1>2. srv' = [srv EXCEPT ![c] = Idle] /\ table' = [table EXCEPT ![c] = table[c]]
  BY DEF Answer, Become, IInv, TypeOK
<1>3. table[c] \notin Unfinished
  BY <1>1 DEF Local, Background, Handling
<1>4. CASE InFlight(c)
  <2> DEFINE k == [cli[c] EXCEPT !.pc = pc]
  <2>1. k \in Client /\ k.pc = pc /\ k.wish = cli[c].wish
    BY <1>1 DEF Client
  <2>2. cli' = [cli EXCEPT ![c] = k]
    BY <1>4 DEF Answer
  <2> HIDE DEF k
  <2>3. Local(c, k, Idle, table[c], ran)
    BY <1>1, <1>3, <2>1, IdleType DEF Local, Handling, Pushing
  <2> QED BY <1>2, <2>1, <2>2, <2>3
<1>5. CASE ~InFlight(c)
  <2>1. cli' = [cli EXCEPT ![c] = cli[c]]
    BY <1>5 DEF Answer, IInv, TypeOK
  <2>2. Local(c, cli[c], Idle, table[c], ran)
    BY <1>1, <1>3, <1>5, IdleType DEF Local, Handling, Pushing, InFlight
  <2> QED BY <1>1, <1>2, <2>1, <2>2
<1> QED BY <1>4, <1>5

\* ... or with a status, if it is a background deployment.
LEMMA SettleLocal ==
  ASSUME IInv, NEW c \in Cmd, NEW s \in {"succeeded", "failed"}, Settle(c, s), cli[c].pc # "new",
         Background(c), s = "succeeded" /\ Wants(c).sources => c \in ran[Wants(c).app]
  PROVE  /\ srv' = [srv EXCEPT ![c] = Idle] /\ cli' = [cli EXCEPT ![c] = cli[c]]
         /\ table' = [table EXCEPT ![c] = s] /\ s \in Status
         /\ Local(c, cli[c], Idle, s, ran)
<1>1. Local(c, cli[c], srv[c], table[c], ran)
  BY DEF IInv, LocalInv
<1>2. srv' = [srv EXCEPT ![c] = Idle] /\ cli' = [cli EXCEPT ![c] = cli[c]]
      /\ table' = [table EXCEPT ![c] = s]
  BY DEF Settle, Become, IInv, TypeOK
<1>3. Local(c, cli[c], Idle, s, ran)
  BY <1>1, IdleType, Names DEF Local, Handling, Pushing, Background
<1> QED BY <1>2, <1>3, Names

\* An error ends the thread, whatever it was doing.
LEMMA RefuseStep ==
  ASSUME IInv, NEW c \in Cmd, ~At(c, "idle"), Refuse(c),
         UNCHANGED <<app, release, ran, restarts>>, job' \in [Cmd -> JobState],
         stale' \in {stale, stale \ {c}}
  PROVE  IInv'
<1>1. /\ cli[c].pc # "new" /\ cli[c] \in Client /\ table[c] \in Status
      /\ app' \in [App -> CR] /\ release' \in [App -> Release] /\ ran' \in [App -> SUBSET Build]
      /\ stale' \subseteq Cmd /\ \A d \in Cmd \ {c} : d \in stale => d \in stale'
  BY DEF IInv, LocalInv, Local, TypeOK
<1>2. CASE Background(c)
  <2>1. Settle(c, "failed")
    BY <1>2 DEF Refuse
  <2>2. /\ srv' = [srv EXCEPT ![c] = Idle] /\ cli' = [cli EXCEPT ![c] = cli[c]]
        /\ table' = [table EXCEPT ![c] = "failed"] /\ "failed" \in Status
        /\ Local(c, cli[c], Idle, "failed", ran)
    BY <1>1, <1>2, <2>1, SettleLocal
  <2>3. \A d \in Cmd \ {c} : Of(d)' = Of(d)
    BY <2>2 DEF Of, IInv, TypeOK
  <2> QED BY <1>1, <2>2, <2>3, IdleType, CommandStep
<1>3. CASE ~Background(c)
  <2>1. Answer(c, "failed")
    BY <1>3 DEF Refuse
  <2>2. PICK k \in Client : /\ cli' = [cli EXCEPT ![c] = k]
                            /\ srv' = [srv EXCEPT ![c] = Idle]
                            /\ table' = [table EXCEPT ![c] = table[c]]
                            /\ Local(c, k, Idle, table[c], ran)
    BY <1>1, <1>3, <2>1, AnswerLocal
  <2>3. \A d \in Cmd \ {c} : Of(d)' = Of(d)
    BY <2>2 DEF Of, IInv, TypeOK
  <2> QED BY <1>1, <2>2, <2>3, IdleType, CommandStep
<1> QED BY <1>2, <1>3

\* An answer of a handler, with or without a write of the CR.
LEMMA AnswerStep ==
  ASSUME IInv, NEW c \in Cmd, NEW pc \in {"start", "ok", "failed"}, Answer(c, pc),
         ~Background(c), ~At(c, "idle"),
         pc = "start" => Wants(c).op = "push", pc = "ok" => Wants(c).op # "push",
         UNCHANGED <<restarts>>,
         UNCHANGED <<app, stale>> \/ \E new \in CR : WriteCR(Wants(c).app, new),
         release' \in [App -> Release], job' \in [Cmd -> JobState],
         ran' \in [App -> SUBSET Build], \A a \in App : ran[a] \subseteq ran'[a]
  PROVE  IInv'
<1>1. cli[c].pc # "new" /\ Wants(c).app \in App /\ table[c] \in Status
  BY DEF IInv, LocalInv, Local, TypeOK
<1>2. PICK k \in Client : /\ cli' = [cli EXCEPT ![c] = k]
                          /\ srv' = [srv EXCEPT ![c] = Idle]
                          /\ table' = [table EXCEPT ![c] = table[c]]
                          /\ k.wish = Wants(c)
                          /\ Local(c, k, Idle, table[c], ran)
  BY <1>1, AnswerLocal
<1>3. Local(c, k, Idle, table[c], ran')
  BY <1>2, LocalGrows
<1>4. /\ app' \in [App -> CR] /\ stale' \subseteq Cmd
      /\ \A d \in Cmd \ {c} : d \in stale => d \in stale'
      /\ \A d \in Cmd \ {c} : At(d, "image") => Of(d)' = Of(d) \/ d \in stale'
  <2>1. CASE UNCHANGED <<app, stale>>
    BY <1>2, <2>1 DEF Of, IInv, TypeOK
  <2>2. CASE \E new \in CR : WriteCR(Wants(c).app, new)
    BY <1>1, <1>2, <2>2, WriteStep
  <2> QED BY <2>1, <2>2
<1> QED BY <1>1, <1>2, <1>3, <1>4, IdleType, CommandStep

\* A thread that writes the CR and goes on.
LEMMA WriteThreadStep ==
  ASSUME IInv, NEW c \in Cmd, NEW new \in CR, WriteCR(Wants(c).app, new),
         NEW t \in Thread, Become(c, t), ~At(c, "idle"), t.pc # "image",
         UNCHANGED <<cli, table, release, job, ran, restarts>>,
         Local(c, cli[c], t, table[c], ran)
  PROVE  IInv'
<1>1. Wants(c).app \in App /\ cli[c] \in Client /\ table[c] \in Status
  BY DEF IInv, LocalInv, Local, TypeOK
<1>2. /\ srv' = [srv EXCEPT ![c] = t] /\ cli' = [cli EXCEPT ![c] = cli[c]]
      /\ table' = [table EXCEPT ![c] = table[c]]
      /\ release' \in [App -> Release] /\ job' \in [Cmd -> JobState]
      /\ ran' \in [App -> SUBSET Build] /\ \A a \in App : ran[a] \subseteq ran'[a]
  BY DEF Become, IInv, TypeOK
<1>3. /\ app' \in [App -> CR] /\ stale' \subseteq Cmd
      /\ \A d \in Cmd \ {c} : d \in stale => d \in stale'
      /\ \A d \in Cmd \ {c} : At(d, "image") => Of(d)' = Of(d) \/ d \in stale'
  BY <1>1, WriteStep
<1> QED BY <1>1, <1>2, <1>3, CommandStep
-----------------------------------------------------------------------------
(* The client *)

LEMMA InvokeStep == ASSUME IInv, NEW c \in Cmd, NEW w \in Wishes, Invoke(c, w) PROVE IInv'
<1> DEFINE k == [pc |-> First(w.op)[1], wish |-> w]
           t == [Idle EXCEPT !.pc = First(w.op)[2]]
<1>1. /\ w \in Wish /\ w.op \in {"push", "update", "delete"} /\ w.app \in App
      /\ (w.sources => w.op = "push")
  BY ConstantsAssumption DEF Wishes, Invoke
<1>2. /\ cli[c].pc = "new" /\ table[c] \in Status
      /\ Local(c, cli[c], srv[c], table[c], ran)
  BY DEF Invoke, IInv, LocalInv, TypeOK
<1>3. \/ w.op = "push" /\ First(w.op) = <<"create", "check">>
      \/ w.op = "update" /\ First(w.op) = <<"wait", "look">>
      \/ w.op = "delete" /\ First(w.op) = <<"wait", "remove">>
  BY <1>1 DEF First
<1>4. /\ k \in Client /\ k.wish = w /\ k.pc = First(w.op)[1]
      /\ k.pc \in {"create", "wait"} /\ (k.pc = "create" <=> w.op = "push")
  BY <1>1, <1>3 DEF Client
<1>5. t \in Thread /\ t.pc = First(w.op)[2] /\ t.pc \in {"check", "look", "remove"}
      /\ (t.pc = "check" <=> w.op = "push")
  BY <1>3, Names, IdleType DEF Thread
<1>6. Local(c, k, t, table[c], ran)
  BY <1>1, <1>2, <1>4, <1>5, Names DEF Local, Handling, Pushing
<1>7. srv' = [srv EXCEPT ![c] = t] /\ cli' = [cli EXCEPT ![c] = k]
      /\ table' = [table EXCEPT ![c] = table[c]]
  BY DEF Invoke, Become, IInv, TypeOK
<1> HIDE DEF k, t
<1>8. \A d \in Cmd \ {c} : Of(d)' = Of(d)
  BY <1>7 DEF Of, Invoke, IInv, TypeOK
<1>9. UNCHANGED <<app, release, job, stale, ran, restarts>>
  BY DEF Invoke
<1>10. /\ app' \in [App -> CR] /\ stale' \subseteq Cmd
       /\ release' \in [App -> Release] /\ job' \in [Cmd -> JobState]
       /\ ran' \in [App -> SUBSET Build]
  BY <1>9 DEF IInv, TypeOK
<1>11. t.pc # "image"
  BY <1>5
<1> QED BY <1>2, <1>4, <1>5, <1>6, <1>7, <1>8, <1>9, <1>10, <1>11, CommandStep

LEMMA StartStep == ASSUME IInv, NEW c \in Cmd, StartDeployment(c) PROVE IInv'
<1> DEFINE k == [cli[c] EXCEPT !.pc = "poll"]
           t == [srv[c] EXCEPT !.pc = "begin"]
<1>1. /\ cli[c].pc = "start" /\ cli[c] \in Client /\ srv[c] \in Thread
      /\ Local(c, cli[c], srv[c], table[c], ran)
  BY DEF StartDeployment, IInv, LocalInv, TypeOK
<1>2. k \in Client /\ k.pc = "poll" /\ k.wish = cli[c].wish
  BY <1>1, ClientType
<1>3. t \in Thread /\ t.pc = "begin"
  BY <1>1, Names DEF Thread
<1>4. srv' = [srv EXCEPT ![c] = t] /\ cli' = [cli EXCEPT ![c] = k]
      /\ table' = [table EXCEPT ![c] = "pending"]
  BY DEF StartDeployment, Goto, Become
<1> HIDE DEF k, t
<1>5. Local(c, k, t, "pending", ran)
  BY <1>1, <1>2, <1>3, Names DEF Local, Handling, Pushing
<1>6. \A d \in Cmd \ {c} : Of(d)' = Of(d)
  BY <1>4 DEF Of, StartDeployment, IInv, TypeOK
<1>7. UNCHANGED <<app, release, job, stale, ran, restarts>>
  BY DEF StartDeployment
<1>8. /\ app' \in [App -> CR] /\ stale' \subseteq Cmd
      /\ release' \in [App -> Release] /\ job' \in [Cmd -> JobState]
      /\ ran' \in [App -> SUBSET Build]
  BY <1>7 DEF IInv, TypeOK
<1>9. t.pc # "image" /\ "pending" \in Status
  BY <1>3, Names
<1> QED BY <1>2, <1>3, <1>4, <1>5, <1>6, <1>7, <1>8, <1>9, CommandStep

\* Steps in which only the client goes on.
LEMMA ClientStep ==
  ASSUME IInv, NEW c \in Cmd, NEW k \in Client, cli' = [cli EXCEPT ![c] = k],
         k.wish = Wants(c), Local(c, k, srv[c], table[c], ran),
         UNCHANGED <<app, release, job, table, srv, stale, ran, restarts>>
  PROVE  IInv'
<1>1. \A d \in Cmd : /\ cli'[d] = IF d = c THEN k ELSE cli[d]
                     /\ Of(d)' = Of(d)
  BY DEF IInv, TypeOK, Of
<1>2. TypeOK'
  BY DEF IInv, TypeOK
<1>3. LocalInv'
  BY <1>1 DEF IInv, LocalInv
<1>4. CopyInv'
  BY <1>1 DEF IInv, CopyInv
<1> QED BY <1>2, <1>3, <1>4 DEF IInv

LEMMA PollStep == ASSUME IInv, NEW c \in Cmd, Poll(c) PROVE IInv'
<1> DEFINE pc == IF table[c] = "succeeded" THEN "ok" ELSE "failed"
           k == [cli[c] EXCEPT !.pc = pc]
<1>1. /\ cli[c].pc = "poll" /\ cli[c] \in Client /\ srv[c] \in Thread /\ table[c] \in Status
      /\ Local(c, cli[c], srv[c], table[c], ran)
  BY DEF Poll, IInv, LocalInv, TypeOK
<1>2. k \in Client /\ k.pc = pc /\ k.wish = cli[c].wish
  BY <1>1 DEF Client
<1> HIDE DEF k
<1>3. cli' = [cli EXCEPT ![c] = k]
  BY DEF Poll, k
<1>4. Local(c, k, srv[c], table[c], ran)
  BY <1>1, <1>2 DEF Local
<1> QED BY <1>2, <1>3, <1>4, ClientStep DEF Poll

LEMMA GiveUpStep == ASSUME IInv, NEW c \in Cmd, GiveUp(c) PROVE IInv'
<1> DEFINE k == [cli[c] EXCEPT !.pc = "failed"]
<1>1. /\ cli[c].pc # "new" /\ cli[c] \in Client /\ srv[c] \in Thread /\ table[c] \in Status
      /\ Local(c, cli[c], srv[c], table[c], ran)
  BY DEF GiveUp, IInv, LocalInv, TypeOK
<1>2. k \in Client /\ k.pc = "failed" /\ k.wish = cli[c].wish
  BY <1>1, ClientType
<1>3. cli' = [cli EXCEPT ![c] = k] /\ table' = [table EXCEPT ![c] = table[c]]
  BY DEF GiveUp, IInv, TypeOK
<1> HIDE DEF k
<1>4. \A d \in Cmd : Of(d)' = Of(d)
  BY <1>2, <1>3 DEF Of, GiveUp, IInv, TypeOK
<1>5. CASE UNCHANGED <<srv, stale>>
  <2>1. Local(c, k, srv[c], table[c], ran)
    BY <1>1, <1>2 DEF Local
  <2> QED BY <1>2, <1>3, <1>5, <2>1, ClientStep DEF GiveUp
<1>6. CASE InFlight(c) /\ Become(c, Idle) /\ stale' = stale \ {c}
  <2>1. Local(c, k, Idle, table[c], ran)
    BY <1>1, <1>2, <1>6, IdleType DEF Local, InFlight, Handling, Pushing
  <2>2. srv' = [srv EXCEPT ![c] = Idle]
    BY <1>6 DEF Become
  <2> QED BY <1>1, <1>2, <1>3, <1>4, <1>6, <2>1, <2>2, IdleType, CommandStep
             DEF GiveUp, IInv, TypeOK
<1> QED BY <1>5, <1>6 DEF GiveUp
-----------------------------------------------------------------------------
(* The handlers *)

LEMMA Serving ==
  ASSUME IInv, NEW c \in Cmd, ~At(c, "idle")
  PROVE  /\ Local(c, cli[c], srv[c], table[c], ran)
         /\ cli[c].pc # "new" /\ Wants(c).app \in App /\ Wants(c).op \in {"push", "update", "delete"}
BY DEF IInv, LocalInv, Local

\* What a thread that goes on must keep.
LEMMA LocalMoves ==
  ASSUME NEW c, NEW k, NEW t, NEW t1, NEW s, NEW rs, Local(c, k, t, s, rs), t.pc # "idle",
         k.wish.op = "push" => (t1.pc \in Handling <=> t.pc \in Handling), k.pc # "new",
         t1.pc \in Pushing => k.wish.op = "push",
         t1.pc \in {"remove", "delcr"} => k.wish.op # "push",
         k.wish.sources /\ t1.pc = "helm" => t1.stage = c,
         k.wish.sources /\ t1.pc \in {"list", "unstage", "origin"} => c \in rs[k.wish.app]
  PROVE  Local(c, k, t1, s, rs)
BY DEF Local

LEMMA CheckCreateStep == ASSUME IInv, NEW c \in Cmd, CheckCreate(c) PROVE IInv'
<1>1. /\ At(c, "check") /\ ~At(c, "idle") /\ ~Background(c)
      /\ srv[c] \in Thread /\ cli[c] \in Client /\ table[c] \in Status
  BY DEF CheckCreate, Background, IInv, TypeOK
<1>2. Local(c, cli[c], srv[c], table[c], ran) /\ Wants(c).op = "push" /\ cli[c].pc # "new"
  BY <1>1, Serving DEF Local, Pushing
<1>3. CASE Of(c).exists /\ InFlight(c)
  <2> DEFINE k == [cli[c] EXCEPT !.pc = "update"]
             t == [Idle EXCEPT !.pc = "look"]
  <2>1. k \in Client /\ k.pc = "update" /\ k.wish = cli[c].wish
    BY <1>1, ClientType
  <2>2. t \in Thread /\ t.pc = "look"
    BY Names, IdleType DEF Thread
  <2>3. /\ srv' = [srv EXCEPT ![c] = t] /\ cli' = [cli EXCEPT ![c] = k]
        /\ table' = [table EXCEPT ![c] = table[c]]
    BY <1>3 DEF CheckCreate, Become, IInv, TypeOK
  <2> HIDE DEF k, t
  <2>4. Local(c, k, t, table[c], ran)
    BY <1>1, <1>2, <2>1, <2>2 DEF Local, Handling, Pushing
  <2>5. \A d \in Cmd \ {c} : Of(d)' = Of(d)
    BY <2>3 DEF Of, CheckCreate, IInv, TypeOK
  <2> QED BY <1>1, <2>1, <2>2, <2>3, <2>4, <2>5, CommandStep DEF CheckCreate, IInv, TypeOK
<1>4. CASE Of(c).exists /\ ~InFlight(c)
  <2>1. Local(c, cli[c], Idle, table[c], ran)
    BY <1>1, <1>2, <1>4, IdleType DEF Local, Handling, Pushing, InFlight
  <2>2. Become(c, Idle) /\ UNCHANGED <<app, release, job, table, cli, stale, ran, restarts>>
    BY <1>4 DEF CheckCreate
  <2> QED BY <2>1, <2>2, IdleType, ThreadStep DEF IInv, TypeOK
<1>5. CASE ~Of(c).exists /\ RoutesFree(Wants(c).app, Wants(c).routes)
  <2> DEFINE t == [srv[c] EXCEPT !.pc = "create"]
  <2>1. t \in Thread /\ t.pc = "create"
    BY <1>1, Names DEF Thread
  <2>2. Become(c, t) /\ UNCHANGED <<app, release, job, table, cli, stale, ran, restarts>>
    BY <1>5 DEF CheckCreate, Goto
  <2> HIDE DEF t
  <2>3. Local(c, cli[c], t, table[c], ran)
    BY <1>1, <1>2, <2>1, LocalMoves DEF Handling
  <2> QED BY <2>1, <2>2, <2>3, ThreadStep DEF IInv, TypeOK
<1>6. CASE ~Of(c).exists /\ ~RoutesFree(Wants(c).app, Wants(c).routes)
  BY <1>1, <1>6, RefuseStep DEF CheckCreate, IInv, TypeOK
<1> QED BY <1>3, <1>4, <1>5, <1>6

LEMMA CreateAppStep == ASSUME IInv, NEW c \in Cmd, CreateApp(c) PROVE IInv'
<1>1. At(c, "create") /\ ~At(c, "idle") /\ ~Background(c)
  BY DEF CreateApp, Background
<1>2. Wants(c).op = "push" /\ Wants(c).routes \subseteq Route
  BY <1>1, Serving, Parts DEF Local, Pushing, IInv
<1>3. CASE Of(c).exists
  BY <1>1, <1>3, RefuseStep DEF CreateApp, IInv, TypeOK
<1>4. CASE ~Of(c).exists
  <2> DEFINE new == [NoCR EXCEPT !.exists = TRUE, !.routes = Wants(c).routes]
  <2>1. new \in CR
    BY <1>2, IdleType DEF CR
  <2>2. WriteCR(Wants(c).app, new) /\ Answer(c, "start")
    BY <1>4 DEF CreateApp
  <2> HIDE DEF new
  <2> QED BY <1>1, <1>2, <2>1, <2>2, AnswerStep DEF CreateApp, IInv, TypeOK
<1> QED BY <1>3, <1>4

LEMMA LookUpdateStep == ASSUME IInv, NEW c \in Cmd, LookUpdate(c) PROVE IInv'
<1>1. At(c, "look") /\ ~At(c, "idle") /\ srv[c] \in Thread
  BY DEF LookUpdate, IInv, TypeOK
<1>2. Local(c, cli[c], srv[c], table[c], ran) /\ cli[c].pc # "new" /\ Wants(c).app \in App
  BY <1>1, Serving
<1>3. CASE Of(c).exists
  <2> DEFINE t == [srv[c] EXCEPT !.pc = "save",
                                 !.running = release[Wants(c).app].exists /\ Of(c).image]
  <2>0. release[Wants(c).app].exists \in BOOLEAN /\ Of(c).image \in BOOLEAN
    BY <1>2 DEF IInv, TypeOK, Release, CR, Of
  <2>1. t \in Thread /\ t.pc = "save"
    BY <1>1, <2>0, Names DEF Thread
  <2>2. Become(c, t) /\ UNCHANGED <<app, release, job, table, cli, stale, ran, restarts>>
    BY <1>3 DEF LookUpdate
  <2> HIDE DEF t
  <2>3. Local(c, cli[c], t, table[c], ran)
    BY <1>1, <1>2, <2>1, LocalMoves DEF Handling, Pushing
  <2> QED BY <2>1, <2>2, <2>3, ThreadStep DEF IInv, TypeOK
<1>4. CASE ~Of(c).exists
  BY <1>1, <1>4, RefuseStep DEF LookUpdate, IInv, TypeOK
<1> QED BY <1>3, <1>4

LEMMA SaveRoutesStep == ASSUME IInv, NEW c \in Cmd, SaveRoutes(c) PROVE IInv'
<1> DEFINE new == [Of(c) EXCEPT !.routes = Wants(c).routes]
<1>1. At(c, "save") /\ ~At(c, "idle") /\ ~Background(c) /\ srv[c] \in Thread
  BY DEF SaveRoutes, Background, IInv, TypeOK
<1>2. Local(c, cli[c], srv[c], table[c], ran) /\ cli[c].pc # "new" /\ Wants(c).app \in App
  BY <1>1, Serving
<1>3. new \in CR
  <2>1. Of(c) \in CR /\ Wants(c).routes \in SUBSET Route
    BY <1>2, Parts DEF IInv, TypeOK, Of
  <2> QED BY <2>1 DEF CR
<1> HIDE DEF new
<1>4. CASE ~Of(c).exists
  BY <1>1, <1>4, RefuseStep DEF SaveRoutes, IInv, TypeOK
<1>5. CASE Of(c).exists /\ Wants(c).op = "push"
  <2>1. WriteCR(Wants(c).app, new) /\ Answer(c, "start")
    BY <1>5 DEF SaveRoutes, new
  <2> QED BY <1>1, <1>3, <1>5, <2>1, AnswerStep DEF SaveRoutes, IInv, TypeOK
<1>6. CASE Of(c).exists /\ Wants(c).op # "push" /\ srv[c].running
  <2> DEFINE t == [srv[c] EXCEPT !.pc = "lookup"]
  <2>1. t \in Thread /\ t.pc = "lookup"
    BY <1>1, Names DEF Thread
  <2>2. WriteCR(Wants(c).app, new) /\ Become(c, t) /\ UNCHANGED <<cli, table, release, job, ran, restarts>>
    BY <1>6 DEF SaveRoutes, Goto, new
  <2> HIDE DEF t
  <2>3. Local(c, cli[c], t, table[c], ran)
    BY <1>1, <1>2, <1>6, <2>1, LocalMoves DEF Handling, Pushing
  <2> QED BY <1>1, <1>3, <2>1, <2>2, <2>3, WriteThreadStep
<1>7. CASE Of(c).exists /\ Wants(c).op # "push" /\ ~srv[c].running
  <2>1. WriteCR(Wants(c).app, new) /\ Answer(c, "ok")
    BY <1>7 DEF SaveRoutes, new
  <2> QED BY <1>1, <1>3, <1>7, <2>1, AnswerStep DEF SaveRoutes, IInv, TypeOK
<1> QED BY <1>4, <1>5, <1>6, <1>7

LEMMA RemoveReleaseStep == ASSUME IInv, NEW c \in Cmd, RemoveRelease(c) PROVE IInv'
<1> DEFINE t == [srv[c] EXCEPT !.pc = "delcr"]
<1>1. At(c, "remove") /\ ~At(c, "idle") /\ srv[c] \in Thread
  BY DEF RemoveRelease, IInv, TypeOK
<1>2. Local(c, cli[c], srv[c], table[c], ran) /\ cli[c].pc # "new"
  BY <1>1, Serving
<1>3. t \in Thread /\ t.pc = "delcr"
  BY <1>1, Names DEF Thread
<1>4. Become(c, t) /\ release' \in [App -> Release]
  BY DEF RemoveRelease, Goto, NoRelease, Release, IInv, TypeOK
<1> HIDE DEF t
<1>5. Local(c, cli[c], t, table[c], ran)
  BY <1>1, <1>2, <1>3, LocalMoves DEF Handling, Pushing, Local
<1> QED BY <1>3, <1>4, <1>5, ThreadStep DEF RemoveRelease, IInv, TypeOK

LEMMA DeleteCRStep == ASSUME IInv, NEW c \in Cmd, DeleteCR(c) PROVE IInv'
<1> DEFINE t == [srv[c] EXCEPT !.pc = "list"]
<1>1. At(c, "delcr") /\ ~At(c, "idle") /\ srv[c] \in Thread
  BY DEF DeleteCR, IInv, TypeOK
<1>2. Local(c, cli[c], srv[c], table[c], ran) /\ cli[c].pc # "new"
  BY <1>1, Serving
<1>3. CASE Of(c).exists
  <2>1. t \in Thread /\ t.pc = "list"
    BY <1>1, Names DEF Thread
  <2>2. /\ WriteCR(Wants(c).app, NoCR) /\ Become(c, t)
        /\ UNCHANGED <<cli, table, release, job, ran, restarts>>
    BY <1>3 DEF DeleteCR, Goto
  <2> HIDE DEF t
  <2>3. Local(c, cli[c], t, table[c], ran)
    BY <1>1, <1>2, <2>1, LocalMoves DEF Handling, Pushing, Local
  <2> QED BY <1>1, <2>1, <2>2, <2>3, IdleType, WriteThreadStep
<1>4. CASE ~Of(c).exists
  BY <1>1, <1>4, RefuseStep DEF DeleteCR, IInv, TypeOK
<1> QED BY <1>3, <1>4
-----------------------------------------------------------------------------
(* The background deployment: staging *)

\* A step of a background deployment that changes its status.
LEMMA StatusStep ==
  ASSUME IInv, NEW c \in Cmd, NEW pc \in PCs, Goto(c, pc), NEW s \in Unfinished,
         table' = [table EXCEPT ![c] = s], Background(c),
         pc \in {"staging", "get"}, srv[c].pc \in {"begin", "await"},
         UNCHANGED <<app, release, job, cli, stale, ran, restarts>>
  PROVE  IInv'
<1> DEFINE t == [srv[c] EXCEPT !.pc = pc]
<1>1. /\ Local(c, cli[c], srv[c], table[c], ran) /\ cli[c] \in Client /\ srv[c] \in Thread
      /\ ~At(c, "idle")
  BY DEF IInv, LocalInv, TypeOK
<1>2. t \in Thread /\ t.pc = pc
  BY <1>1, AtType
<1>3. srv' = [srv EXCEPT ![c] = t] /\ cli' = [cli EXCEPT ![c] = cli[c]]
  BY DEF Goto, Become, IInv, TypeOK
<1> HIDE DEF t
<1>4. Local(c, cli[c], t, s, ran)
  BY <1>1, <1>2, Names DEF Local, Handling, Pushing, Background
<1>5. \A d \in Cmd \ {c} : Of(d)' = Of(d)
  BY DEF Of
<1> QED BY <1>1, <1>2, <1>3, <1>4, <1>5, Names, CommandStep DEF IInv, TypeOK

\* A step of a background deployment to a place without obligations.
LEMMA GoOnStep ==
  ASSUME IInv, NEW c \in Cmd, NEW t \in Thread, Become(c, t), Background(c),
         t.pc \in {"job", "patch", "await", "reget", "image", "validate", "lookup"},
         UNCHANGED <<app, release, table, cli, ran, restarts>>, stale' \in {stale, stale \ {c}},
         job' \in [Cmd -> JobState], t.pc = "image" => t.copy = Of(c)
  PROVE  IInv'
<1>1. Local(c, cli[c], srv[c], table[c], ran) /\ cli[c].pc # "new" /\ ~At(c, "idle")
  BY Serving DEF Background
<1>2. Local(c, cli[c], t, table[c], ran)
  BY <1>1, LocalMoves DEF Handling, Pushing, Background
<1> QED BY <1>2, ThreadStep DEF IInv, TypeOK

LEMMA BeginRunStep == ASSUME IInv, NEW c \in Cmd, BeginRun(c) PROVE IInv'
<1>1. Background(c) /\ srv[c].pc = "begin"
  BY Serving DEF BeginRun, Background, Local, Pushing
<1>2. CASE Wants(c).sources
  BY <1>1, <1>2, Names, StatusStep DEF BeginRun
<1>3. CASE ~Wants(c).sources
  BY <1>1, <1>3, Names, StatusStep DEF BeginRun
<1> QED BY <1>2, <1>3

LEMMA CheckStagingStep == ASSUME IInv, NEW c \in Cmd, CheckStaging(c) PROVE IInv'
<1>1. Background(c) /\ srv[c] \in Thread /\ srv[c].pc = "staging"
  BY Serving DEF CheckStaging, Background, Local, Pushing, IInv, TypeOK
<1>2. CASE Goto(c, "job") /\ UNCHANGED <<cli, table>>
  <2>1. [srv[c] EXCEPT !.pc = "job"] \in Thread /\ [srv[c] EXCEPT !.pc = "job"].pc = "job"
    BY <1>1, Names DEF Thread
  <2> QED BY <1>1, <1>2, <2>1, GoOnStep DEF CheckStaging, Goto, IInv, TypeOK
<1>3. CASE Refuse(c)
  BY <1>1, <1>3, RefuseStep DEF CheckStaging, IInv, TypeOK
<1> QED BY <1>2, <1>3 DEF CheckStaging

LEMMA CreateJobStep == ASSUME IInv, NEW c \in Cmd, CreateJob(c) PROVE IInv'
<1>1. Background(c) /\ srv[c] \in Thread
  BY Serving DEF CreateJob, Background, Local, Pushing, IInv, TypeOK
<1>2. [srv[c] EXCEPT !.pc = "patch"] \in Thread /\ [srv[c] EXCEPT !.pc = "patch"].pc = "patch"
  BY <1>1, Names DEF Thread
<1>3. job' \in [Cmd -> JobState]
  BY DEF CreateJob, JobState, IInv, TypeOK
<1> QED BY <1>1, <1>2, <1>3, GoOnStep DEF CreateJob, Goto

LEMMA PatchAppStep == ASSUME IInv, NEW c \in Cmd, PatchApp(c) PROVE IInv'
<1> DEFINE t == [srv[c] EXCEPT !.pc = "await"]
           new == [Of(c) EXCEPT !.stage = c]
<1>1. At(c, "patch") /\ ~At(c, "idle") /\ srv[c] \in Thread
  BY DEF PatchApp, IInv, TypeOK
<1>2. Local(c, cli[c], srv[c], table[c], ran) /\ cli[c].pc # "new" /\ Wants(c).app \in App
  BY <1>1, Serving
<1>3. CASE Of(c).exists
  <2>1. t \in Thread /\ t.pc = "await"
    BY <1>1, Names DEF Thread
  <2>2. Of(c) \in CR /\ c \in Build
    BY <1>2 DEF IInv, TypeOK, Of, Build
  <2>3. new \in CR
    BY <2>2 DEF CR
  <2>4. /\ WriteCR(Wants(c).app, new) /\ Become(c, t)
        /\ UNCHANGED <<cli, table, release, job, ran, restarts>>
    BY <1>3 DEF PatchApp, Goto
  <2> HIDE DEF t, new
  <2>5. Local(c, cli[c], t, table[c], ran)
    BY <1>1, <1>2, <2>1, LocalMoves DEF Handling, Pushing, Local
  <2> QED BY <1>1, <2>1, <2>3, <2>4, <2>5, WriteThreadStep
<1>4. CASE ~Of(c).exists
  BY <1>1, <1>4, RefuseStep DEF PatchApp, IInv, TypeOK
<1> QED BY <1>3, <1>4

LEMMA AwaitJobStep == ASSUME IInv, NEW c \in Cmd, AwaitJob(c) PROVE IInv'
<1>1. Background(c) /\ srv[c].pc = "await"
  BY Serving DEF AwaitJob, Background, Local, Pushing
<1>2. CASE job[c] = "complete"
  BY <1>1, <1>2, Names, StatusStep DEF AwaitJob
<1>3. CASE job[c] # "complete"
  BY <1>1, <1>3, RefuseStep DEF AwaitJob, IInv, TypeOK
<1> QED BY <1>2, <1>3
-----------------------------------------------------------------------------
(* The background deployment: deployment *)

LEMMA FetchAppStep == ASSUME IInv, NEW c \in Cmd, FetchApp(c) PROVE IInv'
<1> DEFINE t == [srv[c] EXCEPT !.pc = "image", !.copy = Of(c), !.tries = 1, !.routes = Of(c).routes]
<1>1. At(c, "get") /\ Background(c) /\ srv[c] \in Thread /\ Wants(c).app \in App
  BY Serving DEF FetchApp, Background, Local, Pushing, IInv, TypeOK
<1>2. Of(c) \in CR /\ Of(c).routes \in SUBSET Route
  BY <1>1, AppParts DEF IInv, Of
<1>3. CASE Of(c).exists
  <2>1. t \in Thread /\ t.pc = "image" /\ t.copy = Of(c)
    BY <1>1, <1>2, Names DEF Thread
  <2>2. Become(c, t) /\ UNCHANGED <<cli, table>>
    BY <1>3 DEF FetchApp
  <2> HIDE DEF t
  <2> QED BY <1>1, <2>1, <2>2, GoOnStep DEF FetchApp, IInv, TypeOK
<1>4. CASE ~Of(c).exists
  BY <1>1, <1>4, RefuseStep DEF FetchApp, IInv, TypeOK
<1> QED BY <1>3, <1>4

LEMMA UpdateImageURLStep == ASSUME IInv, NEW c \in Cmd, UpdateImageURL(c) PROVE IInv'
<1>1. At(c, "image") /\ ~At(c, "idle") /\ Background(c) /\ srv[c] \in Thread /\ Wants(c).app \in App
  BY Serving DEF UpdateImageURL, Background, Local, Pushing, IInv, TypeOK
<1>2. Local(c, cli[c], srv[c], table[c], ran) /\ cli[c].pc # "new" /\ cli[c] \in Client /\ table[c] \in Status
  BY <1>1, Serving DEF IInv, TypeOK
<1>3. CASE /\ Of(c).exists /\ c \notin stale
           /\ app' = [app EXCEPT ![Wants(c).app] = [srv[c].copy EXCEPT !.image = TRUE]]
           /\ stale' = stale \cup {d \in Cmd \ {c} : At(d, "image") /\ Wants(d).app = Wants(c).app}
           /\ Become(c, [srv[c] EXCEPT !.pc = "validate", !.copy = NoCR, !.tries = 0])
           /\ UNCHANGED <<cli, table>>
  <2> DEFINE t == [srv[c] EXCEPT !.pc = "validate", !.copy = NoCR, !.tries = 0]
             new == [srv[c].copy EXCEPT !.image = TRUE]
  <2>1. t \in Thread /\ t.pc = "validate"
    BY <1>1, Names, IdleType DEF Thread
  <2>2. srv[c].copy \in CR
    BY <1>1 DEF Thread
  <2>3. new \in CR
    BY <2>2 DEF CR
  <2> HIDE DEF t, new
  <2>4. Local(c, cli[c], t, table[c], ran)
    BY <1>1, <1>2, <2>1, LocalMoves DEF Handling, Pushing, Local
  <2>5. /\ srv' = [srv EXCEPT ![c] = t] /\ cli' = [cli EXCEPT ![c] = cli[c]]
        /\ table' = [table EXCEPT ![c] = table[c]]
    BY <1>3 DEF Become, t, IInv, TypeOK
  <2>6. app' = [app EXCEPT ![Wants(c).app] = new] /\ app' \in [App -> CR] /\ stale' \subseteq Cmd
    BY <1>3, <2>3 DEF new, IInv, TypeOK
  <2>7. ASSUME NEW d \in Cmd \ {c}, At(d, "image") PROVE Of(d)' = Of(d) \/ d \in stale'
    BY <1>3, <2>6, <2>7 DEF Of, IInv, TypeOK
  <2>8. \A d \in Cmd \ {c} : d \in stale => d \in stale'
    BY <1>3
  <2> QED BY <1>2, <2>1, <2>4, <2>5, <2>6, <2>7, <2>8, CommandStep DEF UpdateImageURL, IInv, TypeOK
<1>4. CASE /\ Become(c, [srv[c] EXCEPT !.pc = "reget", !.copy = NoCR])
           /\ stale' = stale \ {c} /\ UNCHANGED <<app, cli, table>>
  <2> DEFINE t == [srv[c] EXCEPT !.pc = "reget", !.copy = NoCR]
  <2>1. t \in Thread /\ t.pc = "reget"
    BY <1>1, Names, IdleType DEF Thread
  <2>2. Become(c, t)
    BY <1>4
  <2> HIDE DEF t
  <2> QED BY <1>1, <1>4, <2>1, <2>2, GoOnStep DEF UpdateImageURL, IInv, TypeOK
<1>5. CASE Refuse(c) /\ stale' = stale \ {c} /\ UNCHANGED app
  BY <1>1, <1>5, RefuseStep DEF UpdateImageURL, IInv, TypeOK
<1> QED BY <1>3, <1>4, <1>5 DEF UpdateImageURL

LEMMA RefetchAppStep == ASSUME IInv, NEW c \in Cmd, RefetchApp(c) PROVE IInv'
<1> DEFINE t == [srv[c] EXCEPT !.pc = "image", !.copy = Of(c), !.tries = @ + 1]
<1>1. At(c, "reget") /\ Background(c) /\ srv[c] \in Thread /\ Wants(c).app \in App
  BY Serving DEF RefetchApp, Background, Local, Pushing, IInv, TypeOK
<1>2. Of(c) \in CR
  BY <1>1, AppParts DEF IInv, Of
<1>3. CASE Of(c).exists
  <2>0. srv[c].tries \in Nat /\ srv[c].tries + 1 \in Nat
    BY <1>1 DEF Thread
  <2>1. t \in Thread /\ t.pc = "image" /\ t.copy = Of(c)
    BY <1>1, <1>2, <2>0, Names DEF Thread
  <2>2. Become(c, t) /\ UNCHANGED <<cli, table>>
    BY <1>3 DEF RefetchApp
  <2> HIDE DEF t
  <2> QED BY <1>1, <2>1, <2>2, GoOnStep DEF RefetchApp, IInv, TypeOK
<1>4. CASE ~Of(c).exists
  BY <1>1, <1>4, RefuseStep DEF RefetchApp, IInv, TypeOK
<1> QED BY <1>3, <1>4

LEMMA ValidateRoutesStep == ASSUME IInv, NEW c \in Cmd, ValidateRoutes(c) PROVE IInv'
<1> DEFINE t == [srv[c] EXCEPT !.pc = "lookup", !.routes = {}]
<1>1. At(c, "validate") /\ Background(c) /\ srv[c] \in Thread
  BY Serving DEF ValidateRoutes, Background, Local, Pushing, IInv, TypeOK
<1>2. CASE RoutesFree(Wants(c).app, srv[c].routes)
  <2>1. t \in Thread /\ t.pc = "lookup"
    BY <1>1, Names DEF Thread
  <2>2. Become(c, t) /\ UNCHANGED <<cli, table>>
    BY <1>2 DEF ValidateRoutes
  <2> HIDE DEF t
  <2> QED BY <1>1, <2>1, <2>2, GoOnStep DEF ValidateRoutes, IInv, TypeOK
<1>3. CASE ~RoutesFree(Wants(c).app, srv[c].routes)
  BY <1>1, <1>3, RefuseStep DEF ValidateRoutes, IInv, TypeOK
<1> QED BY <1>2, <1>3

LEMMA LookupAppStep == ASSUME IInv, NEW c \in Cmd, LookupApp(c) PROVE IInv'
<1> DEFINE found == Of(c).exists /\ Expected(c) \in {None, Of(c).stage} /\ Of(c).image
           t == [srv[c] EXCEPT !.pc = "helm", !.running = FALSE, !.stage = Of(c).stage,
                               !.routes = Of(c).routes]
<1>1. At(c, "lookup") /\ ~At(c, "idle") /\ srv[c] \in Thread
  BY DEF LookupApp, IInv, TypeOK
<1>2. Local(c, cli[c], srv[c], table[c], ran) /\ cli[c].pc # "new" /\ Wants(c).app \in App
  BY <1>1, Serving
<1>3. Of(c).stage \in Build /\ Of(c).routes \in SUBSET Route
  BY <1>2, AppParts DEF IInv, Of
<1>4. CASE found
  <2>1. t \in Thread /\ t.pc = "helm" /\ t.stage = Of(c).stage
    BY <1>1, <1>3, Names DEF Thread
  <2>2. Become(c, t) /\ UNCHANGED <<cli, table>>
    BY <1>4 DEF LookupApp
  <2>3. Wants(c).sources => t.stage = c
    BY <1>2, <1>4, <2>1, ConstantsAssumption DEF Local, Expected
  <2> HIDE DEF t
  <2>4. Local(c, cli[c], t, table[c], ran)
    BY <1>1, <1>2, <2>1, <2>3, LocalMoves DEF Handling, Pushing
  <2> QED BY <2>1, <2>2, <2>4, ThreadStep DEF LookupApp, IInv, TypeOK
<1>5. CASE ~found
  BY <1>1, <1>5, RefuseStep DEF LookupApp, IInv, TypeOK
<1> QED BY <1>4, <1>5

\* The end of a deployment, with what the release has run by then.
LEMMA AfterDeployStep ==
  ASSUME IInv, NEW c \in Cmd, AfterDeploy(c), srv[c].pc \in {"helm", "unstage"},
         UNCHANGED <<app, stale, restarts>>,
         release' \in [App -> Release], job' \in [Cmd -> JobState],
         ran' \in [App -> SUBSET Build], \A a \in App : ran[a] \subseteq ran'[a],
         Wants(c).sources => c \in ran'[Wants(c).app]
  PROVE  IInv'
<1>1. /\ Local(c, cli[c], srv[c], table[c], ran) /\ cli[c].pc # "new" /\ ~At(c, "idle")
      /\ Wants(c).op \in {"push", "update", "delete"}
  BY Serving
<1>2. CASE Background(c)
  <2> DEFINE t == [Idle EXCEPT !.pc = "origin"]
  <2>1. t \in Thread /\ t.pc = "origin"
    BY Names, IdleType DEF Thread
  <2>2. Become(c, t) /\ UNCHANGED <<cli, table>>
    BY <1>2 DEF AfterDeploy
  <2> HIDE DEF t
  <2>3. Local(c, cli[c], srv[c], table[c], ran')
    BY <1>1, LocalGrows
  <2>4. Local(c, cli[c], t, table[c], ran')
    BY <1>1, <1>2, <2>1, <2>3, LocalMoves DEF Handling, Pushing, Background
  <2> QED BY <2>1, <2>2, <2>4, ThreadStep
<1>3. CASE ~Background(c)
  <2>1. Answer(c, "ok") /\ Wants(c).op # "push"
    BY <1>3 DEF AfterDeploy, Background
  <2> QED BY <1>1, <1>3, <2>1, AnswerStep
<1> QED BY <1>2, <1>3

LEMMA HelmDeployStep == ASSUME IInv, NEW c \in Cmd, HelmDeploy(c) PROVE IInv'
<1>1. At(c, "helm") /\ ~At(c, "idle") /\ srv[c] \in Thread
  BY DEF HelmDeploy, IInv, TypeOK
<1>2. /\ Local(c, cli[c], srv[c], table[c], ran) /\ cli[c].pc # "new" /\ Wants(c).app \in App
      /\ Wants(c).sources => srv[c].stage = c
  BY <1>1, Serving DEF Local
<1>3. release' \in [App -> Release]
  BY <1>1 DEF HelmDeploy, Release, Thread, IInv, TypeOK
<1>4. /\ ran' \in [App -> SUBSET Build] /\ \A a \in App : ran[a] \subseteq ran'[a]
      /\ Wants(c).sources => c \in ran'[Wants(c).app]
  BY <1>1, <1>2 DEF HelmDeploy, Thread, IInv, TypeOK
<1>5. CASE srv[c].stage = None
  BY <1>1, <1>3, <1>4, <1>5, AfterDeployStep DEF HelmDeploy, IInv, TypeOK
<1>6. CASE srv[c].stage # None
  <2> DEFINE t == [Idle EXCEPT !.pc = "list", !.stage = srv[c].stage]
  <2>1. t \in Thread /\ t.pc = "list"
    BY <1>1, Names, IdleType DEF Thread
  <2>2. Become(c, t) /\ UNCHANGED <<cli, table>>
    BY <1>6 DEF HelmDeploy
  <2> HIDE DEF t
  <2>3. Local(c, cli[c], srv[c], table[c], ran')
    BY <1>2, <1>4, LocalGrows
  <2>4. Local(c, cli[c], t, table[c], ran')
    BY <1>1, <1>2, <1>4, <2>1, <2>3, LocalMoves DEF Handling, Pushing
  <2> QED BY <1>3, <1>4, <2>1, <2>2, <2>4, ThreadStep DEF HelmDeploy, IInv, TypeOK
<1> QED BY <1>5, <1>6

LEMMA ListJobsStep == ASSUME IInv, NEW c \in Cmd, ListJobs(c) PROVE IInv'
<1> DEFINE t == [Idle EXCEPT !.pc = "unstage", !.jobs = Listed(Wants(c).app) \ {srv[c].stage}]
<1>1. At(c, "list") /\ ~At(c, "idle")
  BY DEF ListJobs
<1>2. /\ Local(c, cli[c], srv[c], table[c], ran) /\ cli[c].pc # "new"
      /\ Wants(c).sources => c \in ran[Wants(c).app]
  BY <1>1, Serving DEF Local
<1>3. t \in Thread /\ t.pc = "unstage"
  BY Names, IdleType DEF Thread, Listed
<1>4. Become(c, t)
  BY DEF ListJobs
<1> HIDE DEF t
<1>5. Local(c, cli[c], t, table[c], ran)
  BY <1>1, <1>2, <1>3, LocalMoves DEF Handling, Pushing
<1> QED BY <1>3, <1>4, <1>5, ThreadStep DEF ListJobs, IInv, TypeOK

LEMMA UnstageStep == ASSUME IInv, NEW c \in Cmd, Unstage(c) PROVE IInv'
<1>1. At(c, "unstage") /\ ~At(c, "idle")
  BY DEF Unstage
<1>2. Wants(c).sources => c \in ran[Wants(c).app]
  BY <1>1, Serving DEF Local
<1>3. job' \in [Cmd -> JobState]
  BY DEF Unstage, JobState, IInv, TypeOK
<1>4. CASE AfterDeploy(c)
  BY <1>1, <1>2, <1>3, <1>4, AfterDeployStep DEF Unstage, IInv, TypeOK
<1>5. CASE Refuse(c)
  BY <1>1, <1>3, <1>5, RefuseStep DEF Unstage, IInv, TypeOK
<1> QED BY <1>4, <1>5 DEF Unstage

LEMMA SetOriginStep == ASSUME IInv, NEW c \in Cmd, SetOrigin(c) PROVE IInv'
<1>1. At(c, "origin") /\ ~At(c, "idle") /\ Background(c)
  BY Serving DEF SetOrigin, Background, Local, Pushing
<1>2. /\ cli[c].pc # "new" /\ Wants(c).app \in App
      /\ Wants(c).sources => c \in ran[Wants(c).app]
  BY <1>1, Serving DEF Local
<1>3. CASE Refuse(c) /\ UNCHANGED <<app, stale>>
  BY <1>1, <1>3, RefuseStep DEF SetOrigin, IInv, TypeOK
<1>4. CASE WriteCR(Wants(c).app, Of(c)) /\ Settle(c, "succeeded")
  <2>1. /\ srv' = [srv EXCEPT ![c] = Idle] /\ cli' = [cli EXCEPT ![c] = cli[c]]
        /\ table' = [table EXCEPT ![c] = "succeeded"] /\ "succeeded" \in Status
        /\ Local(c, cli[c], Idle, "succeeded", ran)
    BY <1>1, <1>2, <1>4, SettleLocal
  <2>2. Of(c) \in CR /\ cli[c] \in Client
    BY <1>2 DEF Of, IInv, TypeOK
  <2>3. /\ app' \in [App -> CR] /\ stale' \subseteq Cmd
        /\ \A d \in Cmd \ {c} : d \in stale => d \in stale'
        /\ \A d \in Cmd \ {c} : At(d, "image") => Of(d)' = Of(d) \/ d \in stale'
    BY <1>2, <1>4, <2>1, <2>2, WriteStep
  <2> QED BY <2>1, <2>2, <2>3, IdleType, CommandStep DEF SetOrigin, IInv, TypeOK
<1> QED BY <1>3, <1>4 DEF SetOrigin
-----------------------------------------------------------------------------
(* Kubernetes, and failures *)

LEMMA JobEndsStep == ASSUME IInv, NEW c \in Cmd, JobEnds(c) PROVE IInv'
<1>1. TypeOK'
  BY DEF JobEnds, JobState, IInv, TypeOK
<1> QED BY <1>1 DEF JobEnds, IInv, LocalInv, CopyInv, Of

LEMMA RestartStep == ASSUME IInv, Restart PROVE IInv'
<1>1. \A c \in Cmd : /\ srv'[c] = Idle /\ table'[c] = "none" /\ cli'[c] \in Client
                     /\ cli'[c].wish = cli[c].wish
                     /\ cli'[c].pc = IF InFlight(c) THEN "failed" ELSE cli[c].pc
  <2> TAKE c \in Cmd
  <2>1. cli[c] \in Client
    BY DEF IInv, TypeOK
  <2>2. /\ srv'[c] = Idle /\ table'[c] = "none"
        /\ cli'[c] = IF InFlight(c) THEN [cli[c] EXCEPT !.pc = "failed"] ELSE cli[c]
    BY DEF Restart
  <2>3. /\ [cli[c] EXCEPT !.pc = "failed"] \in Client
        /\ [cli[c] EXCEPT !.pc = "failed"].pc = "failed"
        /\ [cli[c] EXCEPT !.pc = "failed"].wish = cli[c].wish
    BY <2>1, ClientType
  <2> QED BY <2>1, <2>2, <2>3
<1>2. restarts' \in 0..Restarts
  BY ConstantsAssumption DEF Restart, IInv, TypeOK
<1>3. TypeOK'
  BY <1>1, <1>2, IdleType, Names DEF Restart, IInv, TypeOK
<1>4. LocalInv'
  <2> SUFFICES ASSUME NEW c \in Cmd PROVE Local(c, cli'[c], srv'[c], table'[c], ran')
    BY DEF LocalInv
  <2>1. Local(c, cli[c], srv[c], table[c], ran)
    BY DEF IInv, LocalInv
  <2> QED BY <1>1, <2>1, IdleType, Names DEF Restart, Local, InFlight, Handling, Pushing
<1>5. CopyInv'
  BY <1>1, IdleType DEF CopyInv
<1> QED BY <1>3, <1>4, <1>5 DEF IInv
-----------------------------------------------------------------------------
(* The invariant *)

LEMMA IInvInit == Init => IInv
<1> SUFFICES ASSUME Init PROVE IInv
  OBVIOUS
<1>1. app \in [App -> CR]
  <2>1. NoCR \in CR
    BY IdleType
  <2>2. \A R \in SUBSET Route : [exists |-> TRUE, routes |-> R, stage |-> Old, image |-> TRUE] \in CR
    BY DEF CR, Build
  <2> QED BY <2>1, <2>2 DEF Init
<1>2. release \in [App -> Release]
  BY <1>1 DEF Init, Release, CR
<1>3. NoWish \in Wish /\ [pc |-> "new", wish |-> NoWish] \in Client
  BY DEF NoWish, Wish, Client
<1>4. TypeOK
  BY <1>1, <1>2, <1>3, IdleType, Names, ConstantsAssumption DEF Init, TypeOK, JobState
<1>5. LocalInv
  BY IdleType, Names DEF Init, LocalInv, Local, NoWish, Handling, Pushing
<1>6. CopyInv
  BY IdleType DEF Init, CopyInv
<1> QED BY <1>4, <1>5, <1>6 DEF IInv

LEMMA IInvServe == ASSUME IInv, NEW c \in Cmd, Serve(c) PROVE IInv'
<1>1. CASE \/ CheckCreate(c) \/ CreateApp(c) \/ LookUpdate(c) \/ SaveRoutes(c)
           \/ RemoveRelease(c) \/ DeleteCR(c)
  BY <1>1, CheckCreateStep, CreateAppStep, LookUpdateStep, SaveRoutesStep, RemoveReleaseStep,
     DeleteCRStep
<1>2. CASE \/ BeginRun(c) \/ CheckStaging(c) \/ CreateJob(c) \/ PatchApp(c) \/ AwaitJob(c)
  BY <1>2, BeginRunStep, CheckStagingStep, CreateJobStep, PatchAppStep, AwaitJobStep
<1>3. CASE \/ FetchApp(c) \/ UpdateImageURL(c) \/ RefetchApp(c) \/ ValidateRoutes(c)
  BY <1>3, FetchAppStep, UpdateImageURLStep, RefetchAppStep, ValidateRoutesStep
<1>4. CASE \/ LookupApp(c) \/ HelmDeploy(c) \/ ListJobs(c) \/ Unstage(c) \/ SetOrigin(c)
  BY <1>4, LookupAppStep, HelmDeployStep, ListJobsStep, UnstageStep, SetOriginStep
<1> QED BY <1>1, <1>2, <1>3, <1>4 DEF Serve

LEMMA IInvNext == IInv /\ [Next]_vars => IInv'
<1> SUFFICES ASSUME IInv, [Next]_vars PROVE IInv'
  OBVIOUS
<1>1. ASSUME NEW c \in Cmd, NEW w \in Wishes, Invoke(c, w) PROVE IInv'
  BY <1>1, InvokeStep
<1>2. ASSUME NEW c \in Cmd, StartDeployment(c) \/ Poll(c) \/ GiveUp(c) PROVE IInv'
  BY <1>2, StartStep, PollStep, GiveUpStep
<1>3. ASSUME NEW c \in Cmd, Serve(c) PROVE IInv'
  BY <1>3, IInvServe
<1>4. ASSUME NEW c \in Cmd, Fail(c) PROVE IInv'
  BY <1>4, RefuseStep DEF Fail, IInv, TypeOK
<1>5. ASSUME NEW c \in Cmd, JobEnds(c) PROVE IInv'
  BY <1>5, JobEndsStep
<1>6. CASE Restart
  BY <1>6, RestartStep
<1>7. CASE UNCHANGED vars
  BY <1>7 DEF vars, IInv, TypeOK, LocalInv, CopyInv, Of
<1> QED BY <1>1, <1>2, <1>3, <1>4, <1>5, <1>6, <1>7 DEF Next

\* The inductive invariant holds of every behaviour of the commands and the server.
THEOREM Invariant == Spec => []IInv
<1> QED BY IInvInit, IInvNext, PTL DEF Spec

\* Type correctness of the state of the commands, the server and the cluster.
THEOREM Types == Spec => []TypeOK
<1>1. IInv => TypeOK
  BY DEF IInv
<1> QED BY <1>1, Invariant, PTL

\* However many commands, failures and restarts there are, the table of deployments
\* (asyncDeployJobs) shows as unfinished exactly those that a goroutine works on.
THEOREM StatusIsSettled == Spec => []StatusSettled
<1>1. IInv => StatusSettled
  BY DEF IInv, LocalInv, Local, StatusSettled, Background, Handling
<1> QED BY <1>1, Invariant, PTL

\* A push of sources that reports success ran the stage it built, in any number of
\* overlapping commands, because deployApp compares the stage id before it installs.
THEOREM SuccessIsDeployed == Spec => []SuccessWasDeployed
<1>1. IInv => SuccessWasDeployed
  BY DEF IInv, LocalInv, Local, SuccessWasDeployed
<1> QED BY <1>1, Invariant, PTL

LEMMA RoutesStep ==
  ASSUME IInv, [Next]_vars, NEW a \in App,
         app[a].exists, app'[a].exists, app'[a].routes # app[a].routes
  PROVE  \E c \in Cmd : At(c, "save") /\ Wants(c).app = a /\ app'[a].routes = Wants(c).routes
<1>1. app \in [App -> CR] /\ ~UNCHANGED app
  BY DEF IInv, TypeOK
<1>2. PICK c \in Cmd : \/ CreateApp(c) \/ SaveRoutes(c) \/ DeleteCR(c) \/ PatchApp(c)
                       \/ UpdateImageURL(c) \/ SetOrigin(c)
  <2>1. ASSUME NEW c \in Cmd, Serve(c), ~UNCHANGED app
        PROVE  \/ CreateApp(c) \/ SaveRoutes(c) \/ DeleteCR(c) \/ PatchApp(c)
               \/ UpdateImageURL(c) \/ SetOrigin(c)
    BY <2>1 DEF Serve, CheckCreate, LookUpdate, RemoveRelease, BeginRun, CheckStaging, CreateJob,
                AwaitJob, FetchApp, RefetchApp, ValidateRoutes, LookupApp, HelmDeploy, ListJobs,
                Unstage
  <2> QED BY <1>1, <2>1 DEF Next, vars, Invoke, StartDeployment, Poll, GiveUp, Fail, JobEnds, Restart
<1>3. Wants(c).app \in App
  BY <1>2, Serving DEF CreateApp, SaveRoutes, DeleteCR, PatchApp, UpdateImageURL, SetOrigin
<1>4. CASE CreateApp(c)
  BY <1>1, <1>3, <1>4 DEF CreateApp, WriteCR, Of
<1>5. CASE SaveRoutes(c)
  <2>1. /\ At(c, "save")
        /\ app' = [app EXCEPT ![Wants(c).app] = [Of(c) EXCEPT !.routes = Wants(c).routes]]
    BY <1>1, <1>5 DEF SaveRoutes, WriteCR
  <2>2. Wants(c).app = a
    BY <1>1, <2>1
  <2>3. Of(c) \in CR
    BY <1>1, <1>3 DEF Of
  <2>4. [Of(c) EXCEPT !.routes = Wants(c).routes].routes = Wants(c).routes
    BY <2>3 DEF CR
  <2> QED BY <1>1, <2>1, <2>2, <2>4
<1>6. CASE DeleteCR(c)
  BY <1>1, <1>3, <1>6 DEF DeleteCR, WriteCR, Of, NoCR
<1>7. CASE PatchApp(c)
  BY <1>1, <1>3, <1>7 DEF PatchApp, WriteCR, Of, CR
<1>8. CASE UpdateImageURL(c)
  <2>1. /\ At(c, "image") /\ c \notin stale
        /\ app' = [app EXCEPT ![Wants(c).app] = [srv[c].copy EXCEPT !.image = TRUE]]
    BY <1>1, <1>8 DEF UpdateImageURL
  <2>2. srv[c].copy = Of(c)
    BY <2>1 DEF IInv, CopyInv
  <2> QED BY <1>1, <1>3, <2>1, <2>2 DEF Of, CR
<1>9. CASE SetOrigin(c)
  BY <1>1, <1>3, <1>9 DEF SetOrigin, WriteCR, Of
<1> QED BY <1>2, <1>4, <1>5, <1>6, <1>7, <1>8, <1>9

\* The routes of an application change only to what a request asks for: the CR that
\* UpdateImageURL writes back as a whole is the one it has read, apart from the image.
THEOREM RoutesAreKept == Spec => RoutesStay
<1>1. IInv /\ [Next]_vars =>
        [\A a \in App : app[a].exists /\ app'[a].exists /\ app'[a].routes # app[a].routes
           => \E c \in Cmd : At(c, "save") /\ Wants(c).app = a /\ app'[a].routes = Wants(c).routes]_vars
  BY RoutesStep
<1> QED BY <1>1, Invariant, PTL DEF Spec, RoutesStay
=============================================================================
