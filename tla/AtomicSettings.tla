--------------------------- MODULE AtomicSettings ---------------------------
(***************************************************************************)
(* What the settings of an application promise to the users who change     *)
(* them at the same time: a change is a modification of the settings as    *)
(* they are, made in one step.  It is made once or, when the request       *)
(* fails, not at all, and never undoes the change of somebody else.        *)
(***************************************************************************)

CONSTANTS
  Req,     \* requests
  Area,    \* kinds of settings
  Change,  \* changes: records with the fields mode and keys
  NoChange \* what a request has left to do where it changes nothing

VARIABLES
  data,    \* the settings: a set of keys for each area
  todo     \* the change each request has still to make, for each area

Nothing == [a \in Area |-> NoChange]

Apply(c, d) ==
  CASE c.mode = "add" -> d \cup c.keys
    [] c.mode = "remove" -> d \ c.keys
    [] c.mode = "replace" -> c.keys

Init == data = [a \in Area |-> {}] /\ todo = [r \in Req |-> Nothing]

Accept(r) ==
  /\ todo[r] = Nothing
  /\ \E p \in [Area -> Change] : todo' = [todo EXCEPT ![r] = p]
  /\ UNCHANGED data

Perform(r, a) ==
  /\ todo[r][a] # NoChange
  /\ data' = [data EXCEPT ![a] = Apply(todo[r][a], data[a])]
  /\ todo' = [todo EXCEPT ![r][a] = NoChange]

Abandon(r) ==
  /\ todo' = [todo EXCEPT ![r] = Nothing]
  /\ UNCHANGED data

Next == \E r \in Req : Accept(r) \/ (\E a \in Area : Perform(r, a)) \/ Abandon(r)

Spec == Init /\ [][Next]_<<data, todo>>
=============================================================================
