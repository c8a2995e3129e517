------------------------------ MODULE Register ------------------------------
(***************************************************************************)
(* What the settings of utils/storage.py promise about one key.  A request *)
(* gets a value that has been stored at some time, not necessarily the     *)
(* newest one, and keeps getting it until it stores another one itself or  *)
(* asks for several settings at once.                                      *)
(***************************************************************************)
CONSTANTS Requests,   \* requests, which remember what they got
          Jobs,       \* cron jobs, which do not
          Values, None

Clients == Requests \union Jobs

VARIABLES past,   \* the values stored so far
          seen,   \* client -> what it remembers, or None
          op      \* client -> [name, own]: the call under way, and what it has stored

registerVars == <<past, seen, op>>

NoCall == [name |-> None, own |-> None]

Init == /\ past \in SUBSET Values
        /\ seen = [p \in Clients |-> None]
        /\ op = [p \in Clients |-> NoCall]

Call(p) == /\ op[p] = NoCall
           /\ \E n \in {"get", "get_many", "set"} : op' = [op EXCEPT ![p] = [name |-> n, own |-> None]]
           /\ UNCHANGED <<past, seen>>

Store(p) == /\ op[p].name = "set" /\ op[p].own = None
            /\ \E v \in Values : /\ past' = past \union {v}
                                 /\ op' = [op EXCEPT ![p] = [name |-> "set", own |-> v]]
            /\ UNCHANGED seen

\* What p may remember after the call.
Outcomes(p) ==
  CASE p \in Jobs -> {None}
    [] p \notin Jobs /\ op[p].name = "get" -> IF seen[p] # None THEN {seen[p]}
                                              ELSE past \union {None}
    [] p \notin Jobs /\ op[p].name = "get_many" -> past \union {seen[p]}
    [] p \notin Jobs /\ op[p].name = "set" -> {op[p].own}

Return(p) == /\ op[p] # NoCall
             /\ op[p].name = "set" => op[p].own # None
             /\ \E v \in Outcomes(p) : seen' = [seen EXCEPT ![p] = v]
             /\ op' = [op EXCEPT ![p] = NoCall]
             /\ UNCHANGED past

\* The client is gone; another one takes its place.
Leave(p) == /\ seen' = [seen EXCEPT ![p] = None]
            /\ op' = [op EXCEPT ![p] = NoCall]
            /\ UNCHANGED past

Next == \E p \in Clients : Call(p) \/ Store(p) \/ Return(p) \/ Leave(p)

Spec == Init /\ [][Next]_registerVars
=============================================================================
