------------------------------ MODULE Storage ------------------------------
(***************************************************************************)
(* The settings of the portal (utils/storage.py): a table, a cache that    *)
(* all processes share, and a dictionary each request keeps for itself     *)
(* (RequestCache in utils/cache.py).  One key; one action per statement    *)
(* that another process can see.                                           *)
(*                                                                         *)
(* A transaction reads the table as it was at its first statement.  The    *)
(* key is not unique: two insertions that overlap both succeed, and a      *)
(* later select may return either row.                                     *)
(***************************************************************************)
CONSTANTS Requests,   \* requests, which have a dictionary of their own
          Jobs,       \* cron jobs, which have none
          Values, None

ASSUME StorageAssumption ==
  None \notin Values \union {"get", "get_many", "set", "cache", "write", "fill"}

Clients == Requests \union Jobs

VARIABLES rows,      \* the values in the rows of the key
          cached,    \* 'storage/<key>' in the shared cache, or None
          local,     \* client -> its own copy of that, or None
          view,      \* client -> the rows its transaction sees, or None
          call,      \* client -> [name, at, value]: the call under way
          ever,      \* history: all values stored so far
          excused    \* history: since the cache was last empty, a value was stored while
                     \* another client had one in hand, or its client died before caching it

storageVars == <<rows, cached, local, view, call, ever, excused>>

NoCall == [name |-> None, at |-> None, value |-> None]

Init == /\ rows \in {{}} \union {{v} : v \in Values}
        /\ cached = None
        /\ local = [p \in Clients |-> None]
        /\ view = [p \in Clients |-> None]
        /\ call = [p \in Clients |-> NoCall]
        /\ ever = rows
        /\ excused = FALSE

Visible(p) == IF view[p] = None THEN rows ELSE view[p]
At(p, place) == call[p].at = place
Returned(p) == call' = [call EXCEPT ![p] = NoCall]

\* Only requests keep what they get.
Kept(p, v) == IF p \in Jobs THEN local ELSE [local EXCEPT ![p] = v]

-----------------------------------------------------------------------------

\* Any statement of the client, on whatever table, opens the transaction.
Transaction(p) == /\ view[p] = None
                  /\ view' = [view EXCEPT ![p] = rows]
                  /\ UNCHANGED <<rows, cached, local, call, ever, excused>>

Get(p) == /\ call[p] = NoCall
          /\ \E n \in {"get", "get_many"} :
               call' = [call EXCEPT ![p] = [name |-> n, at |-> "cache", value |-> None]]
          /\ UNCHANGED <<rows, cached, local, view, ever, excused>>

\* RequestCache.get and get_dict: of the keys a request has a copy of, get_dict
\* returns none.
HitShared(p) == cached
Hit(p) == IF local[p] = None THEN cached
          ELSE IF call[p].name = "get" THEN local[p] ELSE None

FromCache(p) == /\ At(p, "cache") /\ Hit(p) # None
                /\ local' = IF call[p].name = "get" THEN Kept(p, Hit(p)) ELSE local
                /\ Returned(p)
                /\ UNCHANGED <<rows, cached, view, ever, excused>>

Miss(p) == /\ At(p, "cache") /\ Hit(p) = None
           /\ view' = [view EXCEPT ![p] = Visible(p)]
           /\ IF Visible(p) = {} THEN Returned(p)
              ELSE \E v \in Visible(p) :
                     call' = [call EXCEPT ![p] = [name |-> call[p].name, at |-> "fill", value |-> v]]
           /\ UNCHANGED <<rows, cached, local, ever, excused>>

\* _update_cache
FilledByReads(p) == IF call[p].name = "set" THEN cached ELSE call[p].value
Filled(p) == call[p].value

Fill(p) == /\ At(p, "fill")
           /\ cached' = Filled(p)
           /\ local' = Kept(p, call[p].value)
           /\ Returned(p)
           /\ UNCHANGED <<rows, view, ever, excused>>

\* set: whether there is a row, then the row, then the cache.
Set(p, v) == /\ call[p] = NoCall
             /\ view' = [view EXCEPT ![p] = Visible(p)]
             /\ call' = [call EXCEPT ![p] = [name |-> "set", at |-> "write", value |-> v]]
             /\ UNCHANGED <<rows, cached, local, ever, excused>>

InHand(p) == view[p] # None \/ At(p, "fill")

Written(p) == IF view[p] = {} THEN rows \union {call[p].value} ELSE {call[p].value}

Write(p) == /\ At(p, "write")
            /\ rows' = Written(p)
            /\ ever' = ever \union {call[p].value}
            /\ view' = [view EXCEPT ![p] = None]
            /\ call' = [call EXCEPT ![p] = [name |-> "set", at |-> "fill", value |-> call[p].value]]
            /\ excused' = (excused \/ \E q \in Clients \ {p} : InHand(q))
            /\ UNCHANGED <<cached, local>>

\* The cache drops a key when its time is up or it needs the space.
Expire == /\ cached # None
          /\ cached' = None
          /\ excused' = (excused /\ \E p \in Clients : InHand(p))
          /\ UNCHANGED <<rows, local, view, call, ever>>

\* The request ends, or dies in the middle of a call.
End(p) == /\ local' = [local EXCEPT ![p] = None]
          /\ view' = [view EXCEPT ![p] = None]
          /\ Returned(p)
          /\ excused' = (excused \/ (call[p].name = "set" /\ At(p, "fill")))
          /\ UNCHANGED <<rows, cached, ever>>

Next == \/ Expire
        \/ \E p \in Clients :
             \/ Transaction(p) \/ Get(p) \/ FromCache(p) \/ Miss(p) \/ Fill(p)
             \/ \E v \in Values : Set(p, v)
             \/ Write(p) \/ End(p)

Spec == Init /\ [][Next]_storageVars

-----------------------------------------------------------------------------

Call == [name : {"get", "get_many", "set", None},
         at : {"cache", "write", "fill", None}, value : Values \union {None}]

TypeOK == /\ rows \subseteq Values /\ ever \subseteq Values
          /\ cached \in Values \union {None}
          /\ local \in [Clients -> Values \union {None}]
          /\ view \in [Clients -> (SUBSET Values) \union {None}]
          /\ call \in [Clients -> Call]
          /\ excused \in BOOLEAN

\* The shared cache holds what the table holds, once whoever stored a value has
\* cached it too, unless another client had an older value in hand then.
CachedIsStored ==
  ~excused /\ (\A p \in Clients : ~(call[p].name = "set" /\ At(p, "fill")))
    => cached \in rows \union {None}

\* The settings are the register of Register.tla: what a request works with is a
\* value that was stored, and the same one until it stores another.
Operation(c) == [name |-> c.name,
                 own |-> IF c.name = "set" /\ c.at = "fill" THEN c.value ELSE None]

Op == [p \in Clients |-> Operation(call[p])]

R == INSTANCE Register WITH past <- ever, seen <- local, op <- Op

StoresOneValue == R!Spec
=============================================================================
