--------------------------- MODULE StorageProofs ---------------------------
(***************************************************************************)
(* What is cached, and what is merged.  The cached settings implement the  *)
(* register, for any number of clients and values; what is cached of the   *)
(* wiki's pages is what the tables hold, for any sites, texts, rules and   *)
(* number of pages; the merge of an edit loses no line that a user has     *)
(* added, for any three texts.                                             *)
(***************************************************************************)
EXTENDS Storage, WikiSite, Diff3, NaturalLemmas, FiniteSetTheorems, SequenceTheorems, TLAPS

-----------------------------------------------------------------------------
(* The settings.                                                           *)

\* Every value anybody holds was stored at some time.
HoldsStored(p) ==
  /\ local[p] \in ever \union {None}
  /\ view[p] # None => view[p] \subseteq ever
  /\ At(p, "fill") => call[p].value \in ever

\* Where a call stands says what it is, and what its client remembers.
Places(p) ==
  /\ call[p].at = None => call[p] = NoCall
  /\ At(p, "cache") => call[p].name \in {"get", "get_many"}
  /\ At(p, "write") => call[p].name = "set" /\ call[p].value \in Values
  /\ At(p, "fill") => call[p].name # None
  /\ At(p, "fill") /\ call[p].name = "get" => local[p] = None
  /\ p \in Jobs => local[p] = None

IInv == /\ TypeOK
        /\ rows \subseteq ever
        /\ cached \in ever \union {None}
        /\ \A p \in Clients : HoldsStored(p) /\ Places(p)

-----------------------------------------------------------------------------

LEMMA InitInv == Init => IInv
<1> SUFFICES ASSUME Init PROVE IInv
  OBVIOUS
<1>1. rows \subseteq Values /\ ever = rows /\ cached = None /\ excused \in BOOLEAN
  BY DEF Init
<1>2. \A p \in Clients : local[p] = None /\ view[p] = None /\ call[p] = NoCall
  BY DEF Init
<1>3. TypeOK
  BY <1>1 DEF Init, TypeOK, Call, NoCall
<1>4. \A p \in Clients : HoldsStored(p) /\ Places(p)
  BY <1>2, StorageAssumption DEF HoldsStored, Places, At, NoCall
<1>5. QED
  BY <1>1, <1>3, <1>4 DEF IInv

LEMMA VisibleStored ==
    ASSUME IInv, NEW p \in Clients
    PROVE  Visible(p) \subseteq ever /\ Visible(p) \in SUBSET Values
  BY DEF IInv, TypeOK, HoldsStored, Visible

LEMMA TransactionInv ==
    ASSUME IInv, NEW p \in Clients, Transaction(p) PROVE IInv'
  BY DEF IInv, TypeOK, HoldsStored, Places, At, Transaction, Call, NoCall

LEMMA GetInv == ASSUME IInv, NEW p \in Clients, Get(p) PROVE IInv'
  BY StorageAssumption
  DEF IInv, TypeOK, HoldsStored, Places, At, Get, Call, NoCall

LEMMA FromCacheInv == ASSUME IInv, NEW p \in Clients, FromCache(p) PROVE IInv'
  BY StorageAssumption
  DEF IInv, TypeOK, HoldsStored, Places, At, FromCache, Hit, Kept, Returned, Call, NoCall

LEMMA MissInv == ASSUME IInv, NEW p \in Clients, Miss(p) PROVE IInv'
  BY StorageAssumption, VisibleStored
  DEF IInv, TypeOK, HoldsStored, Places, At, Miss, Hit, Returned, Call, NoCall

LEMMA FillInv == ASSUME IInv, NEW p \in Clients, Fill(p) PROVE IInv'
  BY StorageAssumption
  DEF IInv, TypeOK, HoldsStored, Places, At, Fill, Filled, Kept, Returned, Call, NoCall

LEMMA SetInv == ASSUME IInv, NEW p \in Clients, NEW v \in Values, Set(p, v) PROVE IInv'
  BY StorageAssumption, VisibleStored
  DEF IInv, TypeOK, HoldsStored, Places, At, Set, Call, NoCall

LEMMA WriteInv == ASSUME IInv, NEW p \in Clients, Write(p) PROVE IInv'
  BY StorageAssumption
  DEF IInv, TypeOK, HoldsStored, Places, At, Write, Written, Call, NoCall

LEMMA EndInv == ASSUME IInv, NEW p \in Clients, End(p) PROVE IInv'
<1>1. excused' \in BOOLEAN
  BY DEF End
<1>2. UNCHANGED <<rows, cached, ever>>
  BY DEF End
<1>3. /\ local' = [local EXCEPT ![p] = None]
      /\ view' = [view EXCEPT ![p] = None]
      /\ call' = [call EXCEPT ![p] = NoCall]
  BY DEF End, Returned
<1>4. QED
  BY <1>1, <1>2, <1>3, StorageAssumption
  DEF IInv, TypeOK, HoldsStored, Places, At, Call, NoCall

LEMMA ExpireInv == ASSUME IInv, Expire PROVE IInv'
  BY DEF IInv, TypeOK, HoldsStored, Places, At, Expire, Call, NoCall

LEMMA StepInv == IInv /\ [Next]_storageVars => IInv'
<1> SUFFICES ASSUME IInv, [Next]_storageVars PROVE IInv'
  OBVIOUS
<1>1. CASE Expire
  BY <1>1, ExpireInv
<1>2. ASSUME NEW p \in Clients,
             \/ Transaction(p) \/ Get(p) \/ FromCache(p) \/ Miss(p) \/ Fill(p)
             \/ \E v \in Values : Set(p, v)
             \/ Write(p) \/ End(p)
      PROVE  IInv'
  BY <1>2, TransactionInv, GetInv, FromCacheInv, MissInv, FillInv, SetInv, WriteInv, EndInv
<1>3. CASE UNCHANGED storageVars
  BY <1>3 DEF storageVars, IInv, TypeOK, HoldsStored, Places, At
<1>4. QED
  BY <1>1, <1>2, <1>3 DEF Next

\* Every table, copy and call stays of its type, whatever the clients do
\* (utils/storage.py, RequestCache in utils/cache.py).
THEOREM StorageTypes == Spec => []TypeOK
<1>1. IInv => TypeOK
  BY DEF IInv
<1>2. QED
  BY <1>1, InitInv, StepInv, PTL DEF Spec

-----------------------------------------------------------------------------
(* What the shared cache holds.                                            *)

Storing(p) == call[p].name = "set" /\ At(p, "fill")

\* Whoever sees or holds a value has one of the table, and only a client that
\* has yet to cache what it stored explains a cache that differs.
Fresh == /\ \A p \in Clients : view[p] # None => view[p] = rows
         /\ \A p \in Clients : At(p, "fill") => call[p].value \in rows
         /\ cached \in rows \union {None} \/ \E p \in Clients : Storing(p)

CacheInv == ~excused => Fresh

LEMMA InitFresh == Init => CacheInv
  BY StorageAssumption DEF Init, CacheInv, Fresh, At, NoCall

LEMMA TransactionFresh ==
    ASSUME IInv, CacheInv, NEW p \in Clients, Transaction(p) PROVE CacheInv'
  BY DEF IInv, TypeOK, CacheInv, Fresh, Storing, At, Transaction

LEMMA GetFresh ==
    ASSUME IInv, CacheInv, NEW p \in Clients, Get(p) PROVE CacheInv'
  BY StorageAssumption DEF IInv, TypeOK, CacheInv, Fresh, Storing, At, Get, NoCall

LEMMA FromCacheFresh ==
    ASSUME IInv, CacheInv, NEW p \in Clients, FromCache(p) PROVE CacheInv'
  BY StorageAssumption
  DEF IInv, TypeOK, CacheInv, Fresh, Storing, At, FromCache, Returned, NoCall

LEMMA MissFresh ==
    ASSUME IInv, CacheInv, NEW p \in Clients, Miss(p) PROVE CacheInv'
  BY StorageAssumption
  DEF IInv, TypeOK, CacheInv, Fresh, Storing, At, Miss, Visible, Returned, NoCall

LEMMA FillFresh ==
    ASSUME IInv, CacheInv, NEW p \in Clients, Fill(p) PROVE CacheInv'
  BY StorageAssumption
  DEF IInv, TypeOK, CacheInv, Fresh, Storing, At, Fill, Filled, Returned, NoCall

LEMMA SetFresh ==
    ASSUME IInv, CacheInv, NEW p \in Clients, NEW v \in Values, Set(p, v) PROVE CacheInv'
  BY StorageAssumption
  DEF IInv, TypeOK, CacheInv, Fresh, Storing, At, Set, Visible, NoCall

LEMMA WriteFresh ==
    ASSUME IInv, CacheInv, NEW p \in Clients, Write(p) PROVE CacheInv'
  BY StorageAssumption
  DEF IInv, TypeOK, CacheInv, Fresh, Storing, At, Write, Written, InHand

LEMMA ExpireFresh == ASSUME IInv, CacheInv, Expire PROVE CacheInv'
  BY DEF IInv, TypeOK, CacheInv, Fresh, Storing, At, Expire, InHand

LEMMA EndFresh ==
    ASSUME IInv, CacheInv, NEW p \in Clients, End(p) PROVE CacheInv'
<1>1. /\ UNCHANGED <<rows, cached>>
      /\ excused' = (excused \/ Storing(p))
  BY DEF End, Storing
<1>2. /\ view' = [view EXCEPT ![p] = None]
      /\ call' = [call EXCEPT ![p] = NoCall]
  BY DEF End, Returned
<1>3. QED
  BY <1>1, <1>2, StorageAssumption DEF IInv, TypeOK, CacheInv, Fresh, Storing, At, NoCall

LEMMA StepFresh == IInv /\ CacheInv /\ [Next]_storageVars => CacheInv'
<1> SUFFICES ASSUME IInv, CacheInv, [Next]_storageVars PROVE CacheInv'
  OBVIOUS
<1>1. CASE Expire
  BY <1>1, ExpireFresh
<1>2. ASSUME NEW p \in Clients,
             \/ Transaction(p) \/ Get(p) \/ FromCache(p) \/ Miss(p) \/ Fill(p)
             \/ \E v \in Values : Set(p, v)
             \/ Write(p) \/ End(p)
      PROVE  CacheInv'
  BY <1>2, TransactionFresh, GetFresh, FromCacheFresh, MissFresh, FillFresh, SetFresh,
     WriteFresh, EndFresh
<1>3. CASE UNCHANGED storageVars
  BY <1>3 DEF storageVars, CacheInv, Fresh, Storing, At
<1>4. QED
  BY <1>1, <1>2, <1>3 DEF Next

\* The shared cache holds what the table holds, or a client has yet to cache
\* what it stored, unless another had an older value in hand when it was stored
\* (utils/storage.py, __setitem__ and _update_cache).
THEOREM CachedStoredHolds == Spec => []CachedIsStored
<1>1. Init => IInv /\ CacheInv
  BY InitInv, InitFresh
<1>2. IInv /\ CacheInv /\ [Next]_storageVars => (IInv /\ CacheInv)'
  BY StepInv, StepFresh
<1>3. CacheInv => CachedIsStored
  BY DEF CacheInv, Fresh, Storing, CachedIsStored
<1>4. QED
  BY <1>1, <1>2, <1>3, PTL DEF Spec

-----------------------------------------------------------------------------
(* The refinement: what a step on one client means for the register.       *)

LEMMA OpOfStep ==
    ASSUME IInv, NEW p \in Clients, NEW c, call' = [call EXCEPT ![p] = c]
    PROVE  Op' = [Op EXCEPT ![p] = Operation(c)]
  BY DEF Op, IInv, TypeOK

LEMMA SameCallSameOp == call' = call => Op' = Op
  BY DEF Op

LEMMA NothingCalled == Operation(NoCall) = R!NoCall
  BY StorageAssumption DEF Operation, NoCall, R!NoCall

LEMMA GetIsCall == ASSUME IInv, NEW p \in Clients, Get(p) PROVE R!Call(p)
<1>1. PICK n \in {"get", "get_many"} :
         call' = [call EXCEPT ![p] = [name |-> n, at |-> "cache", value |-> None]]
  BY DEF Get
<1>2. Op' = [Op EXCEPT ![p] = [name |-> n, own |-> None]]
  BY <1>1, OpOfStep DEF Operation
<1>3. Op[p] = R!NoCall
  BY NothingCalled DEF Get, Op
<1>4. QED
  BY <1>2, <1>3 DEF R!Call, Get

LEMMA SetIsCall ==
    ASSUME IInv, NEW p \in Clients, NEW v \in Values, Set(p, v) PROVE R!Call(p)
<1>1. call' = [call EXCEPT ![p] = [name |-> "set", at |-> "write", value |-> v]]
  BY DEF Set
<1>2. Op' = [Op EXCEPT ![p] = [name |-> "set", own |-> None]]
  BY <1>1, OpOfStep DEF Operation
<1>3. Op[p] = R!NoCall
  BY NothingCalled DEF Set, Op
<1>4. QED
  BY <1>2, <1>3 DEF R!Call, Set

\* A call returns: the client remembers w, which the register allows.
LEMMA ReturnIsReturn ==
    ASSUME IInv, NEW p \in Clients, NEW w, call[p].name # None, Returned(p),
           local' = [local EXCEPT ![p] = w], w \in R!Outcomes(p), ever' = ever,
           call[p].name = "set" => At(p, "fill") /\ call[p].value \in Values
    PROVE  R!Return(p)
<1>1. Op' = [Op EXCEPT ![p] = R!NoCall]
  BY OpOfStep, NothingCalled DEF Returned
<1>2. Op[p] = Operation(call[p])
  BY DEF Op
<1>3. Op[p] # R!NoCall
  BY <1>2 DEF Operation, R!NoCall
<1>4. Op[p].name = "set" => Op[p].own # None
  BY <1>2, StorageAssumption DEF Operation, At
<1>5. QED
  BY <1>1, <1>3, <1>4 DEF R!Return

LEMMA FromCacheIsReturn == ASSUME IInv, NEW p \in Clients, FromCache(p) PROVE R!Return(p)
<1>1. call[p].name \in {"get", "get_many"} /\ call[p].name # "set"
  BY DEF FromCache, IInv, Places
<1>2. Op[p].name = call[p].name
  BY DEF Op, Operation
<1>3. PICK w : w \in R!Outcomes(p) /\ local' = [local EXCEPT ![p] = w]
  <2>1. CASE p \in Jobs
    <3>1. local[p] = None /\ local' = local
      BY <2>1 DEF FromCache, Kept, IInv, Places
    <3>2. local' = [local EXCEPT ![p] = None]
      BY <3>1 DEF IInv, TypeOK
    <3>3. QED
      BY <2>1, <3>2 DEF R!Outcomes
  <2>2. CASE p \notin Jobs /\ call[p].name = "get"
    <3>1. local' = [local EXCEPT ![p] = Hit(p)]
      BY <2>2 DEF FromCache, Kept
    <3>2. Hit(p) \in IF local[p] # None THEN {local[p]} ELSE ever \union {None}
      BY <2>2 DEF Hit, IInv
    <3>3. QED
      BY <1>2, <2>2, <3>1, <3>2 DEF R!Outcomes
  <2>3. CASE p \notin Jobs /\ call[p].name = "get_many"
    <3>1. local' = local
      BY <2>3 DEF FromCache
    <3>2. local' = [local EXCEPT ![p] = local[p]]
      BY <3>1 DEF IInv, TypeOK
    <3>3. QED
      BY <1>2, <2>3, <3>2 DEF R!Outcomes
  <2>4. QED
    BY <1>1, <2>1, <2>2, <2>3
<1>4. QED
  BY <1>1, <1>3, ReturnIsReturn, StorageAssumption DEF FromCache

LEMMA MissIsReturnOrNothing ==
    ASSUME IInv, NEW p \in Clients, Miss(p)
    PROVE  R!Return(p) \/ UNCHANGED <<ever, local, Op>>
<1>1. call[p].name \in {"get", "get_many"} /\ call[p].name # "set"
  BY DEF Miss, IInv, Places
<1>2. CASE Visible(p) = {}
  <2>1. local' = [local EXCEPT ![p] = local[p]] /\ Returned(p) /\ ever' = ever
    BY <1>2 DEF Miss, IInv, TypeOK
  <2>2. Op[p].name = call[p].name
    BY DEF Op, Operation
  <2>3. local[p] \in R!Outcomes(p)
    <3>1. CASE p \in Jobs
      BY <3>1 DEF R!Outcomes, IInv, Places
    <3>2. CASE p \notin Jobs /\ call[p].name = "get"
      <4>1. local[p] = None
        BY <3>2 DEF Miss, Hit
      <4>2. QED
        BY <2>2, <3>2, <4>1 DEF R!Outcomes
    <3>3. CASE p \notin Jobs /\ call[p].name = "get_many"
      BY <2>2, <3>3 DEF R!Outcomes
    <3>4. QED
      BY <1>1, <3>1, <3>2, <3>3
  <2>4. QED
    BY <1>1, <2>1, <2>3, ReturnIsReturn, StorageAssumption
<1>3. CASE Visible(p) # {}
  <2>1. PICK v \in Visible(p) :
           call' = [call EXCEPT ![p] = [name |-> call[p].name, at |-> "fill", value |-> v]]
    BY <1>3 DEF Miss
  <2>2. Op' = [Op EXCEPT ![p] = Operation([name |-> call[p].name, at |-> "fill", value |-> v])]
    BY <2>1, OpOfStep
  <2>3. Operation([name |-> call[p].name, at |-> "fill", value |-> v])
          = [name |-> call[p].name, own |-> None]
    BY <1>1 DEF Operation
  <2>4. Op[p] = [name |-> call[p].name, own |-> None]
    BY <1>1 DEF Op, Operation
  <2>5. Op' = Op
    BY <2>2, <2>3, <2>4 DEF Op
  <2>6. QED
    BY <2>5 DEF Miss
<1>4. QED
  BY <1>2, <1>3

LEMMA FillIsReturn == ASSUME IInv, NEW p \in Clients, Fill(p) PROVE R!Return(p)
<1>1. call[p].name # None /\ call[p].name \in {"get", "get_many", "set"}
  BY DEF Fill, IInv, TypeOK, Call, Places
<1>2. call[p].value \in ever /\ call[p].value \in Values
  BY DEF Fill, IInv, TypeOK, HoldsStored
<1>3. Op[p].name = call[p].name /\ (call[p].name = "set" => Op[p].own = call[p].value)
  BY DEF Op, Operation, Fill, At
<1>4. PICK w : w \in R!Outcomes(p) /\ local' = [local EXCEPT ![p] = w]
  <2>1. CASE p \in Jobs
    <3>1. local[p] = None /\ local' = local
      BY <2>1 DEF Fill, Kept, IInv, Places
    <3>2. local' = [local EXCEPT ![p] = None]
      BY <3>1 DEF IInv, TypeOK
    <3>3. QED
      BY <2>1, <3>2 DEF R!Outcomes
  <2>2. CASE p \notin Jobs
    <3>1. local' = [local EXCEPT ![p] = call[p].value]
      BY <2>2 DEF Fill, Kept
    <3>2. call[p].name = "get" => local[p] = None
      BY DEF Fill, IInv, Places
    <3>3. call[p].value \in R!Outcomes(p)
      BY <1>1, <1>2, <1>3, <2>2, <3>2 DEF R!Outcomes
    <3>4. QED
      BY <3>1, <3>3
  <2>3. QED
    BY <2>1, <2>2
<1>5. QED
  BY <1>1, <1>2, <1>4, ReturnIsReturn DEF Fill

LEMMA WriteIsStore == ASSUME IInv, NEW p \in Clients, Write(p) PROVE R!Store(p)
<1>1. call[p].name = "set" /\ call[p].at = "write" /\ call[p].value \in Values
  BY DEF Write, IInv, Places, At
<1>2. PICK v \in Values : v = call[p].value
  BY <1>1
<1>3. Op' = [Op EXCEPT ![p] = Operation([name |-> "set", at |-> "fill", value |-> v])]
  BY <1>2, OpOfStep DEF Write
<1>4. Op' = [Op EXCEPT ![p] = [name |-> "set", own |-> v]]
  BY <1>3 DEF Operation
<1>5. Op[p] = [name |-> "set", own |-> None]
  BY <1>1 DEF Op, Operation
<1>6. ever' = ever \union {v} /\ local' = local
  BY <1>2 DEF Write
<1>7. Op[p].name = "set" /\ Op[p].own = None
  BY <1>5
<1>8. QED
  BY <1>2, <1>4, <1>6, <1>7 DEF R!Store

LEMMA EndIsLeave == ASSUME IInv, NEW p \in Clients, End(p) PROVE R!Leave(p)
<1>1. Op' = [Op EXCEPT ![p] = R!NoCall]
  BY OpOfStep, NothingCalled DEF End, Returned
<1>2. QED
  BY <1>1 DEF R!Leave, End

LEMMA InitIsInit == Init => R!Init
<1> SUFFICES ASSUME Init PROVE R!Init
  OBVIOUS
<1>1. Op = [p \in R!Clients |-> R!NoCall]
  BY NothingCalled DEF Init, Op, R!Clients, Clients
<1>2. ever \in SUBSET Values
  BY DEF Init
<1>3. QED
  BY <1>1, <1>2 DEF Init, R!Init, R!Clients, Clients

LEMMA StepIsStep == IInv /\ [Next]_storageVars => [R!Next]_<<ever, local, Op>>
<1> SUFFICES ASSUME IInv, [Next]_storageVars PROVE R!Next \/ UNCHANGED <<ever, local, Op>>
  OBVIOUS
<1> USE DEF Clients, R!Clients
<1>1. CASE Expire \/ UNCHANGED storageVars
  BY <1>1, SameCallSameOp DEF Expire, storageVars
<1>2. ASSUME NEW p \in Clients, Transaction(p) PROVE UNCHANGED <<ever, local, Op>>
  BY <1>2, SameCallSameOp DEF Transaction
<1>3. ASSUME NEW p \in Clients, Get(p) \/ \E v \in Values : Set(p, v) PROVE R!Next
  BY <1>3, GetIsCall, SetIsCall DEF R!Next
<1>4. ASSUME NEW p \in Clients, FromCache(p) \/ Fill(p) PROVE R!Next
  BY <1>4, FromCacheIsReturn, FillIsReturn DEF R!Next
<1>5. ASSUME NEW p \in Clients, Miss(p) PROVE R!Next \/ UNCHANGED <<ever, local, Op>>
  BY <1>5, MissIsReturnOrNothing DEF R!Next
<1>6. ASSUME NEW p \in Clients, Write(p) \/ End(p) PROVE R!Next
  BY <1>6, WriteIsStore, EndIsLeave DEF R!Next
<1>7. QED
  BY <1>1, <1>2, <1>3, <1>4, <1>5, <1>6 DEF Next

\* Whatever overlaps, expires or dies, the settings behave as the register: a
\* request works with one value that was stored until it stores another.
THEOREM StorageIsRegister == Spec => StoresOneValue
<1>1. Init => IInv /\ R!Init
  BY InitInv, InitIsInit
<1>2. IInv /\ [Next]_storageVars => IInv' /\ [R!Next]_R!registerVars
  BY StepInv, StepIsStep DEF R!registerVars
<1>3. QED
  BY <1>1, <1>2, PTL DEF Spec, StoresOneValue, R!Spec

-----------------------------------------------------------------------------
(* The pages of the wiki under their names.                                *)

(* The row that a copy is of, or else the copy is of an attachment that    *)
(* has left the name behind.                                               *)
AttachedCopy(c, n) ==
  /\ n \in ghosts /\ Named(n) = {} /\ c.att
  /\ page[c.id] # Nil => page[c.id].att
  /\ list # Nil => \A e \in list : e.name = n => e.att

CopyRight(c, n) == AttachedCopy(c, n) \/ \E i \in Named(n) : c = CopyOf(i)

CopiesRight(c) == \A n \in PageNames : c[n] # Nil => CopyRight(c[n], n)

NamesUnique == \A i, j \in Stored : page[i].name = page[j].name => i = j

(* Whatever else a cached list has missed, no name in it has changed from  *)
(* an attachment to a page or back.                                        *)
ListRight ==
  list # Nil => /\ spoilt \/ list = Table
                /\ \A e \in list : \A i \in Named(e.name) : e.att = page[i].att

RulesRight == rules # Nil => retired \/ rules = InForce

SiteInv == SiteTypeOK /\ NamesUnique /\ CopiesRight(copy) /\ ListRight /\ RulesRight

(* What an action hands on as copies: those there are and those it made.   *)
CopiesTyped(c) == /\ c \in [PageNames -> SiteCopy \union {Nil}]
                  /\ \A n \in PageNames : c[n] # Nil => c[n].id < nextId

(* A row may be saved under its own name, or as an attachment under one    *)
(* that no list knows as a page's.                                         *)
MayName(i, n) == \/ page[i].name = n
                 \/ page[i].att /\ (list # Nil => \A e \in list : e.name = n => e.att)

LEMMA BelowNames ==
  /\ \A r \in Roots : Below(r) \in PageNames /\ Below(r) \notin Roots
  /\ \A q, r \in Roots : Below(q) = Below(r) => q = r
<1>1. ASSUME NEW s PROVE Len(Below(<<s>>)) = 2 /\ Below(<<s>>)[1] = s
  <2>1. <<s>> \in Seq({s}) /\ "x" \in {"x"}
    OBVIOUS
  <2>2. <<s>> \in Seq({s} \union {"x"}) /\ "x" \in {s} \union {"x"}
    OBVIOUS
  <2>3. QED
    BY <2>2, AppendProperties DEF Below
<1>2. \A q \in Roots : Len(q) = 1 /\ q = <<q[1]>> /\ Len(Below(q)) = 2 /\ Below(q)[1] = q[1]
  BY <1>1 DEF Roots
<1>3. \A r \in Roots : Below(r) \notin Roots
  BY <1>2
<1>4. \A q, r \in Roots : Below(q) = Below(r) => q = r
  BY <1>2
<1>5. QED
  BY <1>3, <1>4 DEF PageNames

LEMMA RowTypes ==
  ASSUME SiteAssumption, SiteTypeOK, NEW i \in Stored
  PROVE  /\ i \in PageIds /\ i < nextId /\ page[i] \in SiteRow
         /\ page[i].name \in PageNames /\ page[i].text \in SiteTexts
         /\ page[i].deleted \in BOOLEAN /\ page[i].att \in BOOLEAN
         /\ CopyOf(i) \in SiteCopy /\ CopyOf(i) # Nil
         /\ CopyOf(i).id = i /\ CopyOf(i).att = page[i].att
<1>1. i \in PageIds /\ i < nextId /\ page[i] \in SiteRow
  BY DEF SiteTypeOK, Stored
<1>2. /\ page[i].name \in PageNames /\ page[i].text \in SiteTexts
      /\ page[i].deleted \in BOOLEAN /\ page[i].att \in BOOLEAN
  BY <1>1 DEF SiteRow
<1>3. CopyOf(i) \in SiteCopy
  BY <1>1, <1>2 DEF CopyOf, SiteCopy
<1>4. CopyOf(i).id = i /\ CopyOf(i).att = page[i].att
  BY DEF CopyOf
<1>5. QED
  BY <1>1, <1>2, <1>3, <1>4 DEF SiteAssumption

(* get_by_name.                                                            *)
LEMMA GotRight ==
  ASSUME SiteAssumption, SiteInv, NEW n \in PageNames, Got(n) # Nil
  PROVE  /\ Got(n) \in SiteCopy /\ Got(n).id \in PageIds /\ Got(n).id < nextId
         /\ CopyRight(Got(n), n)
<1>1. CASE copy[n] # Nil
  <2>1. Got(n) = copy[n]
    BY <1>1 DEF Got
  <2>2. copy[n] \in SiteCopy /\ copy[n].id < nextId
    BY <1>1 DEF SiteInv, SiteTypeOK
  <2>3. CopyRight(copy[n], n)
    BY <1>1 DEF SiteInv, CopiesRight
  <2>4. QED
    BY <2>1, <2>2, <2>3 DEF SiteCopy
<1>2. CASE copy[n] = Nil
  <2>1. PICK i \in Named(n) : Got(n) = CopyOf(i)
    <3>1. Named(n) # {} /\ Got(n) = CopyOf(CHOOSE i \in Named(n) : TRUE)
      BY <1>2 DEF Got
    <3>2. (CHOOSE i \in Named(n) : TRUE) \in Named(n)
      BY <3>1
    <3>3. QED
      BY <3>1, <3>2
  <2>2. i \in Stored /\ SiteTypeOK
    BY DEF Named, SiteInv
  <2>3. QED
    BY <2>1, <2>2, RowTypes DEF CopyRight
<1>3. QED
  BY <1>1, <1>2

LEMMA GotRow ==
  ASSUME SiteAssumption, SiteInv, NEW n \in PageNames, Got(n) # Nil, page[Got(n).id] # Nil
  PROVE  MayName(Got(n).id, n) /\ Got(n).id \in Stored
<1>1. PICK c : c = Got(n)
  OBVIOUS
<1>2. c.id \in PageIds /\ CopyRight(c, n) /\ page[c.id] # Nil
  BY <1>1, GotRight
<1>3. AttachedCopy(c, n) => MayName(c.id, n)
  BY <1>2 DEF AttachedCopy, MayName
<1>4. (\E i \in Named(n) : c = CopyOf(i)) => MayName(c.id, n)
  BY DEF CopyOf, Named, MayName
<1>5. MayName(c.id, n)
  BY <1>2, <1>3, <1>4 DEF CopyRight
<1>6. QED
  BY <1>1, <1>2, <1>5 DEF Stored

LEMMA RefetchedRight ==
  ASSUME SiteAssumption, SiteInv, NEW S, NEW c, c = Refetched(S)
  PROVE  CopiesTyped(c) /\ CopiesRight(c)
<1>1. c = [n \in PageNames |-> IF n \in S THEN Got(n) ELSE copy[n]]
  BY DEF Refetched
<1>2. \A n \in PageNames : c[n] = Got(n) \/ c[n] = copy[n]
  BY <1>1
<1>3. \A n \in PageNames : copy[n] # Nil => copy[n] = Got(n)
  BY DEF Got
<1>4. \A n \in PageNames : c[n] # Nil => c[n] = Got(n)
  BY <1>2, <1>3
<1>5. \A n \in PageNames : c[n] # Nil =>
        c[n] \in SiteCopy /\ c[n].id < nextId /\ CopyRight(c[n], n)
  BY <1>4, GotRight
<1>6. QED
  BY <1>1, <1>5 DEF CopiesTyped, CopiesRight

LEMMA CopyIsRight == ASSUME SiteInv PROVE CopiesTyped(copy) /\ CopiesRight(copy)
BY DEF SiteInv, SiteTypeOK, CopiesTyped

LEMMA RulesStay ==
  ASSUME SiteInv, NEW texts, NEW gone, SaveRules(texts, gone),
         texts \intersect Rules = {} /\ gone \intersect Rules = {} => InForce' = InForce
  PROVE  /\ RulesRight' /\ rules' \in (SUBSET Rules) \union {Nil} /\ retired' \in BOOLEAN
<1>1. rules \in (SUBSET Rules) \union {Nil} /\ (rules # Nil => retired \/ rules = InForce)
  BY DEF SiteInv, SiteTypeOK, RulesRight
<1>2. /\ rules' = Nil \/ (rules' = rules /\ texts \intersect Rules = {})
      /\ retired' = (rules' # Nil /\ (retired \/ gone \intersect Rules # {}))
  BY DEF SaveRules
<1>3. CASE rules' = Nil
  BY <1>2, <1>3 DEF RulesRight
<1>4. CASE rules' # Nil
  BY <1>1, <1>2, <1>4 DEF RulesRight
<1>5. QED
  BY <1>3, <1>4

(* The rules in force, text by text.                                       *)
LEMMA SameInForce ==
  ASSUME \A x \in Rules : (\E i \in Stored' : ~page'[i].deleted /\ page'[i].text = x)
                            <=> (\E i \in Stored : ~page[i].deleted /\ page[i].text = x)
  PROVE  InForce' = InForce
<1>1. \A x : x \in InForce <=> x \in Rules /\ \E i \in Stored : ~page[i].deleted /\ page[i].text = x
  BY DEF InForce
<1>2. \A x : x \in InForce' <=>
        x \in Rules /\ \E i \in Stored' : ~page'[i].deleted /\ page'[i].text = x
  BY DEF InForce
<1>3. \A x : x \in InForce' <=> x \in InForce
  BY <1>1, <1>2
<1>4. QED
  BY <1>3

(* A revision of row i, under the name n.                                  *)
LEMMA RowEdited ==
  ASSUME SiteAssumption, SiteInv, NEW i \in Stored, NEW n \in PageNames, MayName(i, n),
         NEW text \in SiteTexts, NEW deleted \in BOOLEAN, NEW c, CopiesTyped(c), CopiesRight(c),
         NEW row, row = [name |-> n, text |-> text, deleted |-> deleted, att |-> page[i].att],
         Named(n) \subseteq {i}, page' = [page EXCEPT ![i] = row], copy' = Dropped(c, n),
         list' = Nil \/ list' = list, spoilt' \in BOOLEAN,
         list' # Nil /\ ~spoilt' => ~spoilt /\ page[i].name = n /\ page[i].deleted = deleted,
         SaveRules({text}, {page[i].text} \ {text}), nextId' = nextId,
         ghosts' = (ghosts \union {page[i].name}) \ {n}
  PROVE  SiteInv' /\ Follow
<1>1. SiteTypeOK /\ NamesUnique /\ ListRight
  BY DEF SiteInv
<1>2. /\ row \in SiteRow /\ row # Nil /\ row.name = n /\ row.text = text
      /\ row.deleted = deleted /\ row.att = page[i].att
  BY <1>1, RowTypes DEF SiteRow, SiteAssumption
<1>3. /\ page' \in [PageIds -> SiteRow \union {Nil}] /\ page'[i] = row
      /\ \A j \in PageIds : j # i => page'[j] = page[j]
  BY <1>1, <1>2, RowTypes DEF SiteTypeOK
<1>4. Stored' = Stored
  BY <1>2, <1>3, RowTypes DEF Stored
<1>5. \A j \in Stored : j # i => page'[j] = page[j] /\ page[j].name # n /\ page[j].name # page[i].name
  BY <1>1, <1>3 DEF Named, NamesUnique, Stored
<1>0. PICK former : former = page[i].name
  OBVIOUS
<1>6. /\ \A q : q # n /\ q # former => Named(q)' = Named(q)
      /\ former # n => Named(former)' = {}
      /\ Named(n)' = {i} /\ Named(former) = {i}
  <2>1. \A q : q # n /\ q # former => Named(q)' = Named(q)
    <3>1. SUFFICES ASSUME NEW q, q # n, q # former PROVE Named(q)' = Named(q)
      OBVIOUS
    <3>2. \A j \in Stored : page'[j].name = q <=> page[j].name = q
      BY <1>0, <1>2, <1>3, <1>5, <3>1
    <3>3. QED
      BY <1>4, <3>2 DEF Named
  <2>2. former # n => Named(former)' = {}
    BY <1>0, <1>2, <1>3, <1>4, <1>5 DEF Named
  <2>3. Named(n)' = {i}
    BY <1>2, <1>3, <1>4, <1>5 DEF Named
  <2>4. Named(former) = {i}
    BY <1>0, <1>5 DEF Named
  <2>5. QED
    BY <2>1, <2>2, <2>3, <2>4
<1>7. /\ copy' \in [PageNames -> SiteCopy \union {Nil}] /\ copy'[n] = Nil
      /\ \A q \in PageNames : q # n => copy'[q] = c[q]
      /\ \A q \in PageNames : copy'[q] # Nil => copy'[q].id < nextId
  BY DEF Dropped, CopiesTyped
<1>8. InForce' = InForce \/ {text} \intersect Rules # {} \/ ({page[i].text} \ {text}) \intersect Rules # {}
  <2>1. SUFFICES ASSUME text \notin Rules, page[i].text \notin Rules PROVE InForce' = InForce
    OBVIOUS
  <2>2. \A x \in Rules : (\E j \in Stored' : ~page'[j].deleted /\ page'[j].text = x)
                           <=> (\E j \in Stored : ~page[j].deleted /\ page[j].text = x)
    BY <1>2, <1>3, <1>4, <1>5, <2>1
  <2>3. QED
    BY <2>2, SameInForce
<1>9. RulesRight' /\ rules' \in (SUBSET Rules) \union {Nil} /\ retired' \in BOOLEAN
  BY <1>8, RulesStay
<1>10. SiteTypeOK'
  BY <1>1, <1>3, <1>4, <1>7, <1>9 DEF SiteTypeOK
<1>11. NamesUnique'
  BY <1>2, <1>3, <1>4, <1>5, <1>1 DEF NamesUnique
<1>12. ListRight'
  <2>1. SUFFICES ASSUME list' # Nil
                 PROVE  /\ spoilt' \/ list' = Table'
                        /\ \A e \in list' : \A j \in Named(e.name)' : e.att = page'[j].att
    BY DEF ListRight
  <2>2. list' = list
    BY <2>1
  <2>3. spoilt' \/ list' = Table'
    <3>1. SUFFICES ASSUME ~spoilt' PROVE list' = Table'
      OBVIOUS
    <3>2. list = Table /\ page[i].name = n /\ page[i].deleted = deleted
      BY <1>1, <2>1, <2>2, <3>1 DEF ListRight
    <3>3. \A j \in Stored : /\ page'[j].name = page[j].name /\ page'[j].deleted = page[j].deleted
                            /\ page'[j].att = page[j].att
      BY <1>2, <1>3, <1>5, <3>2
    <3>4. Table' = Table
      BY <1>4, <3>3 DEF Table
    <3>5. QED
      BY <2>2, <3>2, <3>4
  <2>4. ASSUME NEW e \in list', NEW j \in Named(e.name)' PROVE e.att = page'[j].att
    <3>1. e \in list /\ \A k \in Named(e.name) : e.att = page[k].att
      BY <1>1, <2>1, <2>2, <2>4 DEF ListRight
    <3>2. CASE j # i
      BY <1>4, <1>5, <2>4, <3>1, <3>2 DEF Named
    <3>3. CASE j = i
      <4>1. e.name = n
        BY <1>2, <1>3, <2>4, <3>3 DEF Named
      <4>2. CASE page[i].name = n
        BY <1>0, <1>2, <1>3, <1>6, <3>1, <3>3, <4>1, <4>2
      <4>3. CASE page[i].att /\ (list # Nil => \A x \in list : x.name = n => x.att)
        <5>1. e.att /\ page[i].att
          BY <2>1, <2>2, <3>1, <4>1, <4>3
        <5>2. e.att \in BOOLEAN /\ page[i].att \in BOOLEAN
          BY <1>1, <2>1, <2>2, <3>1, RowTypes DEF SiteTypeOK, SiteEntry
        <5>3. QED
          BY <1>2, <1>3, <3>3, <5>1, <5>2
      <4>4. QED
        BY <4>2, <4>3 DEF MayName
    <3>4. QED
      BY <3>2, <3>3
  <2>5. QED
    BY <2>3, <2>4
<1>13. CopiesRight(copy)'
  <2>1. SUFFICES ASSUME NEW q \in PageNames, copy'[q] # Nil PROVE CopyRight(copy[q], q)'
    BY DEF CopiesRight
  <2>2. q # n /\ copy'[q] = c[q] /\ c[q] # Nil
    BY <1>7, <2>1
  <2>3. CopyRight(c[q], q) /\ c[q] \in SiteCopy
    BY <2>1, <2>2 DEF CopiesRight, CopiesTyped
  <2>4. PICK k : k = c[q]
    OBVIOUS
  <2>5. CopyRight(k, q)'
    <3>1. \A j \in PageIds : page'[j] # Nil => page[j] # Nil /\ page'[j].att = page[j].att
      BY <1>2, <1>3, RowTypes, <1>1 DEF Stored
    <3>2. k.id \in PageIds
      BY <2>3, <2>4 DEF SiteCopy
    <3>3. CASE AttachedCopy(k, q)
      <4>1. q # former
        BY <1>6, <3>3 DEF AttachedCopy
      <4>2. Named(q)' = {} /\ q \in ghosts'
        BY <1>6, <2>2, <3>3, <4>1 DEF AttachedCopy
      <4>3. list' # Nil => \A e \in list' : e.name = q => e.att
        BY <3>3 DEF AttachedCopy
      <4>4. k.att /\ (page'[k.id] # Nil => page'[k.id].att)
        BY <3>1, <3>2, <3>3 DEF AttachedCopy
      <4>5. QED
        BY <4>2, <4>3, <4>4 DEF CopyRight, AttachedCopy
    <3>4. CASE \E j \in Named(q) : k = CopyOf(j)
      <4>1. PICK j \in Named(q) : k = CopyOf(j)
        BY <3>4
      <4>2. CASE j # i
        <5>1. CopyOf(j)' = CopyOf(j) /\ q # former
          BY <1>0, <1>5, <4>2 DEF CopyOf, Named
        <5>2. QED
          BY <1>6, <2>2, <4>1, <5>1 DEF CopyRight
      <4>3. CASE j = i
        <5>1. q = former /\ k.id = i /\ k.att = page[i].att
          BY <1>0, <4>1, <4>3 DEF Named, CopyOf
        <5>2. page[i].att /\ (list # Nil => \A e \in list : e.name = n => e.att)
          BY <1>0, <2>2, <5>1 DEF MayName
        <5>3. Named(q)' = {} /\ q \in ghosts'
          BY <1>0, <1>6, <2>2, <5>1
        <5>4. list' # Nil => \A e \in list' : e.name = q => e.att
          BY <1>1, <1>6, <5>1, <5>2 DEF ListRight
        <5>5. QED
          BY <1>2, <1>3, <5>1, <5>2, <5>3, <5>4 DEF CopyRight, AttachedCopy
      <4>4. QED
        BY <4>2, <4>3
    <3>5. QED
      BY <2>3, <2>4, <3>3, <3>4 DEF CopyRight
  <2>6. QED
    BY <2>2, <2>4, <2>5
<1>14. Follow
  BY <1>2, <1>3, <1>5 DEF Follow, MayName
<1>15. QED
  BY <1>9, <1>10, <1>11, <1>12, <1>13, <1>14 DEF SiteInv

LEMMA RowRewritten ==
  ASSUME NEW r \in SiteRow, NEW n, NEW text, NEW deleted
  PROVE  [r EXCEPT !.name = n, !.text = text, !.deleted = deleted]
           = [name |-> n, text |-> text, deleted |-> deleted, att |-> r.att]
<1>1. /\ r = [name |-> r.name, text |-> r.text, deleted |-> r.deleted, att |-> r.att]
      /\ DOMAIN r = {"name", "text", "deleted", "att"}
  BY DEF SiteRow
<1>2. PICK q : q = [r EXCEPT !.name = n, !.text = text, !.deleted = deleted]
  OBVIOUS
<1>3. q = [name |-> n, text |-> text, deleted |-> deleted, att |-> r.att]
  BY <1>1, <1>2
<1>4. QED
  BY <1>2, <1>3

LEMMA RowReverted ==
  ASSUME NEW r \in SiteRow, NEW text, NEW deleted
  PROVE  [r EXCEPT !.text = text, !.deleted = deleted]
           = [name |-> r.name, text |-> text, deleted |-> deleted, att |-> r.att]
<1>1. /\ r = [name |-> r.name, text |-> r.text, deleted |-> r.deleted, att |-> r.att]
      /\ DOMAIN r = {"name", "text", "deleted", "att"}
  BY DEF SiteRow
<1>2. PICK q : q = [r EXCEPT !.text = text, !.deleted = deleted]
  OBVIOUS
<1>3. q = [name |-> r.name, text |-> text, deleted |-> deleted, att |-> r.att]
  BY <1>1, <1>2
<1>4. QED
  BY <1>2, <1>3

LEMMA EditRowKeeps ==
  ASSUME SiteAssumption, SiteInv, NEW i \in Stored, NEW n \in PageNames, MayName(i, n),
         NEW text \in SiteTexts, NEW deleted \in BOOLEAN, NEW c, CopiesTyped(c), CopiesRight(c),
         EditRow(i, n, text, deleted, c)
  PROVE  SiteInv' /\ Follow
<1>1. PICK row : row = [name |-> n, text |-> text, deleted |-> deleted, att |-> page[i].att]
  OBVIOUS
<1>2. page[i] \in SiteRow
  BY RowTypes DEF SiteInv
<1>3. [page[i] EXCEPT !.name = n, !.text = text, !.deleted = deleted] = row
  <2>1. PICK r \in SiteRow : r = page[i]
    BY <1>2
  <2>2. [r EXCEPT !.name = n, !.text = text, !.deleted = deleted]
           = [name |-> n, text |-> text, deleted |-> deleted, att |-> r.att]
    BY RowRewritten, Zenon
  <2>3. QED
    BY ONLY <1>1, <2>1, <2>2
<1>4. page' = [page EXCEPT ![i] = [page[i] EXCEPT !.name = n, !.text = text, !.deleted = deleted]]
  BY DEF EditRow
<1>5. page' = [page EXCEPT ![i] = row]
  BY <1>3, <1>4
<1>6. /\ Named(n) \subseteq {i} /\ copy' = Dropped(c, n) /\ nextId' = nextId
      /\ SaveRules({text}, {page[i].text} \ {text})
      /\ ghosts' = (ghosts \union {page[i].name}) \ {n}
      /\ list' = Nil \/ list' = list
      /\ spoilt' \in BOOLEAN
      /\ list' # Nil /\ ~spoilt' => ~spoilt /\ page[i].name = n /\ page[i].deleted = deleted
  BY DEF EditRow
<1>7. QED
  BY <1>1, <1>5, <1>6, RowEdited

(* An action that leaves the rows alone.                                   *)
LEMMA FollowStays == page' = page => Follow
BY DEF Follow

LEMMA CreateRowKeeps ==
  ASSUME SiteAssumption, SiteInv, NEW n \in PageNames, NEW text \in SiteTexts, NEW att \in BOOLEAN,
         NEW c, CopiesTyped(c), CopiesRight(c), CreateRow(n, text, att, c)
  PROVE  SiteInv' /\ Follow
<1>1. SiteTypeOK /\ NamesUnique
  BY DEF SiteInv
<1>0. PICK row : row = [name |-> n, text |-> text, deleted |-> FALSE, att |-> att]
  OBVIOUS
<1>2. PICK i \in PageIds :
        i = nextId /\ nextId' = i + 1 /\ page' = [page EXCEPT ![i] = row]
  BY <1>0 DEF CreateRow, NextIds
<1>3. row \in SiteRow /\ row # Nil /\ row.name = n /\ row.text = text
  <2>1. PICK deleted \in BOOLEAN : deleted = FALSE
    OBVIOUS
  <2>2. row = [name |-> n, text |-> text, deleted |-> deleted, att |-> att]
    BY <1>0, <2>1
  <2>3. row \in SiteRow
    BY <2>2 DEF SiteRow
  <2>4. QED
    BY <2>2, <2>3 DEF SiteAssumption
<1>4. /\ page' \in [PageIds -> SiteRow \union {Nil}] /\ page'[i] = row
      /\ \A j \in PageIds : j # i => page'[j] = page[j]
  BY <1>1, <1>2, <1>3 DEF SiteTypeOK
<1>5. i \in Nat /\ MaxPages \in Nat /\ i <= MaxPages /\ nextId' \in 1..(MaxPages + 1)
  BY <1>2 DEF PageIds, SiteAssumption
<1>6. i \notin Stored /\ Stored' = Stored \union {i} /\ \A j \in Stored : page'[j] = page[j]
  <2>1. i \notin Stored
    BY <1>1, <1>2, <1>5 DEF SiteTypeOK
  <2>2. QED
    BY <1>3, <1>4, <2>1 DEF Stored
<1>7. /\ \A q : q # n => Named(q)' = Named(q)
      /\ \A j \in Stored : page[j].name # n
  BY <1>3, <1>4, <1>6 DEF Named, CreateRow
<1>8. /\ copy' \in [PageNames -> SiteCopy \union {Nil}] /\ copy'[n] = Nil
      /\ \A q \in PageNames : q # n => copy'[q] = c[q]
      /\ \A q \in PageNames : copy'[q] # Nil => copy'[q].id < nextId
  BY DEF Dropped, CopiesTyped, CreateRow
<1>9. \A q \in PageNames : copy'[q] # Nil => copy'[q].id < nextId'
  <2>1. \A q \in PageNames : copy'[q] # Nil => copy'[q].id \in PageIds
    BY <1>8 DEF SiteCopy
  <2>2. QED
    BY <1>2, <1>5, <1>8, <2>1 DEF PageIds
<1>10. \A j \in Stored' : j < nextId'
  <2>1. \A j \in Stored : j \in Nat /\ j < nextId
    BY <1>1 DEF SiteTypeOK, Stored, PageIds
  <2>2. QED
    BY <1>2, <1>5, <1>6, <2>1
<1>11. /\ list' = Nil /\ spoilt' = FALSE /\ SaveRules({text}, {}) /\ ghosts' = ghosts \ {n}
  BY DEF CreateRow
<1>12. RulesRight' /\ rules' \in (SUBSET Rules) \union {Nil} /\ retired' \in BOOLEAN
  <2>1. ASSUME text \notin Rules PROVE InForce' = InForce
    <3>1. \A x \in Rules : (\E j \in Stored' : ~page'[j].deleted /\ page'[j].text = x)
                             <=> (\E j \in Stored : ~page[j].deleted /\ page[j].text = x)
      BY <1>3, <1>4, <1>6, <2>1
    <3>2. QED
      BY <3>1, SameInForce
  <2>2. QED
    BY <1>11, <2>1, RulesStay
<1>13. SiteTypeOK'
  BY <1>4, <1>5, <1>8, <1>9, <1>10, <1>11, <1>12 DEF SiteTypeOK
<1>14. NamesUnique'
  BY <1>1, <1>3, <1>4, <1>6, <1>7 DEF NamesUnique
<1>15. CopiesRight(copy)'
  <2>1. SUFFICES ASSUME NEW q \in PageNames, copy'[q] # Nil PROVE CopyRight(copy[q], q)'
    BY DEF CopiesRight
  <2>2. q # n /\ copy'[q] = c[q] /\ CopyRight(c[q], q) /\ c[q] \in SiteCopy /\ c[q].id < nextId
    BY <1>8, <2>1 DEF CopiesRight, CopiesTyped
  <2>3. PICK k : k = c[q]
    OBVIOUS
  <2>4. k.id \in PageIds /\ k.id # i
    BY <1>2, <1>5, <2>2, <2>3 DEF SiteCopy, PageIds
  <2>5. CopyRight(k, q)'
    <3>1. ASSUME AttachedCopy(k, q) PROVE AttachedCopy(k, q)'
      BY <1>4, <1>7, <1>11, <2>2, <2>4, <3>1 DEF AttachedCopy
    <3>2. \A j \in Named(q) : CopyOf(j)' = CopyOf(j)
      BY <1>6 DEF Named, CopyOf
    <3>3. QED
      BY <1>7, <2>2, <2>3, <3>1, <3>2 DEF CopyRight
  <2>6. QED
    BY <2>2, <2>3, <2>5
<1>16. ListRight'
  BY <1>11 DEF ListRight
<1>17. Follow
  BY <1>6 DEF Follow
<1>18. QED
  BY <1>12, <1>13, <1>14, <1>15, <1>16, <1>17 DEF SiteInv

(* What keeps a copy right as the rows and names stay.                     *)
LEMMA CopiesStay ==
  ASSUME NEW c, CopiesRight(c), page' = page, copy' \in [PageNames -> SiteCopy \union {Nil}],
         \A q \in PageNames : copy'[q] # Nil => copy'[q] = c[q] /\ (q \in ghosts => q \in ghosts'),
         list' # Nil => list' = list \/ list' = Table
  PROVE  CopiesRight(copy)'
<1>1. SUFFICES ASSUME NEW q \in PageNames, copy'[q] # Nil PROVE CopyRight(copy[q], q)'
  BY DEF CopiesRight
<1>2. PICK k : k = c[q]
  OBVIOUS
<1>3. CopyRight(k, q) /\ k = copy'[q] /\ (q \in ghosts => q \in ghosts')
  BY <1>1, <1>2 DEF CopiesRight
<1>4. Stored' = Stored /\ Named(q)' = Named(q) /\ \A j : CopyOf(j)' = CopyOf(j)
  BY DEF Stored, Named, CopyOf
<1>5. ASSUME AttachedCopy(k, q) PROVE AttachedCopy(k, q)'
  <2>1. list' # Nil => \A e \in list' : e.name = q => e.att
    BY <1>5 DEF AttachedCopy, Table, Named
  <2>2. QED
    BY <1>3, <1>4, <1>5, <2>1 DEF AttachedCopy
<1>6. CopyRight(k, q)'
  BY <1>3, <1>4, <1>5 DEF CopyRight
<1>7. QED
  BY <1>3, <1>6

LEMMA ShowKeeps == ASSUME SiteAssumption, SiteInv, NEW n \in PageNames, Show(n) PROVE SiteInv' /\ Follow
<1>1. PICK c : c = Refetched({n})
  OBVIOUS
<1>2. CopiesTyped(c) /\ CopiesRight(c) /\ copy' = c
  BY <1>1, RefetchedRight DEF Show
<1>3. UNCHANGED <<page, nextId, list, rules, ghosts, spoilt, retired>>
  BY DEF Show
<1>4. CopiesRight(copy)'
  BY <1>2, <1>3, CopiesStay DEF CopiesTyped
<1>5. SiteTypeOK'
  BY <1>2, <1>3 DEF SiteInv, SiteTypeOK, CopiesTyped, Stored
<1>6. NamesUnique' /\ ListRight' /\ RulesRight'
  BY <1>3 DEF SiteInv, NamesUnique, ListRight, RulesRight, Stored, Table, Named, InForce
<1>7. QED
  BY <1>3, <1>4, <1>5, <1>6, FollowStays DEF SiteInv

LEMMA ListPagesKeeps == ASSUME SiteAssumption, SiteInv, ListPages PROVE SiteInv' /\ Follow
<1>1. list' = Table /\ UNCHANGED <<page, nextId, copy, rules, ghosts, spoilt, retired>>
  BY DEF ListPages
<1>2. Table' = Table /\ Stored' = Stored /\ \A q : Named(q)' = Named(q)
  BY <1>1 DEF Table, Stored, Named
<1>3. Table \subseteq SiteEntry
  BY RowTypes DEF Table, SiteEntry, SiteInv
<1>4. CopiesRight(copy)'
  BY <1>1, CopyIsRight, CopiesStay DEF CopiesTyped
<1>5. SiteTypeOK'
  BY <1>1, <1>2, <1>3 DEF SiteInv, SiteTypeOK
<1>6. ListRight'
  BY <1>1, <1>2 DEF ListRight, Table, Named, SiteInv, NamesUnique
<1>7. NamesUnique' /\ RulesRight'
  BY <1>1 DEF SiteInv, NamesUnique, RulesRight, Stored, InForce
<1>8. QED
  BY <1>1, <1>4, <1>5, <1>6, <1>7, FollowStays DEF SiteInv

LEMMA AskRulesKeeps == ASSUME SiteAssumption, SiteInv, AskRules PROVE SiteInv' /\ Follow
<1>1. rules' = InForce /\ UNCHANGED <<page, nextId, copy, list, ghosts, spoilt, retired>>
  BY DEF AskRules
<1>2. InForce' = InForce /\ InForce \subseteq Rules /\ Stored' = Stored
  BY <1>1 DEF InForce, Stored
<1>3. CopiesRight(copy)'
  BY <1>1, CopyIsRight, CopiesStay DEF CopiesTyped
<1>4. SiteTypeOK'
  BY <1>1, <1>2 DEF SiteInv, SiteTypeOK
<1>5. RulesRight'
  BY <1>1, <1>2 DEF RulesRight
<1>6. NamesUnique' /\ ListRight'
  BY <1>1 DEF SiteInv, NamesUnique, ListRight, Stored, Table, Named
<1>7. QED
  BY <1>1, <1>3, <1>4, <1>5, <1>6, FollowStays DEF SiteInv

LEMMA ForgetKeeps == ASSUME SiteAssumption, SiteInv, Forget PROVE SiteInv' /\ Follow
<1>1. page' = page /\ nextId' = nextId
  BY DEF Forget
<1>2. Stored' = Stored /\ Table' = Table /\ InForce' = InForce /\ \A q : Named(q)' = Named(q)
  BY <1>1 DEF Stored, Table, InForce, Named
<1>3. /\ copy' \in [PageNames -> SiteCopy \union {Nil}]
      /\ \A q \in PageNames : copy'[q] # Nil => copy'[q] = copy[q] /\ (q \in ghosts => q \in ghosts')
  BY DEF Forget, Dropped, SiteInv, SiteTypeOK
<1>4. /\ (list' = list /\ spoilt' = spoilt) \/ (list' = Nil /\ spoilt' = FALSE)
      /\ (rules' = rules /\ retired' = retired) \/ (rules' = Nil /\ retired' = FALSE)
  BY DEF Forget
<1>5. CopiesRight(copy)'
  BY <1>1, <1>3, <1>4, CopyIsRight, CopiesStay
<1>6. SiteTypeOK'
  BY <1>1, <1>2, <1>3, <1>4 DEF SiteInv, SiteTypeOK
<1>7. NamesUnique'
  BY <1>1, <1>2 DEF SiteInv, NamesUnique
<1>8. ListRight' /\ RulesRight'
  BY <1>1, <1>2, <1>4 DEF SiteInv, ListRight, RulesRight
<1>9. QED
  BY <1>1, <1>5, <1>6, <1>7, <1>8, FollowStays DEF SiteInv

LEMMA ManageDiscussionKeeps ==
  ASSUME SiteAssumption, SiteInv, NEW n \in PageNames, ManageDiscussion(n) PROVE SiteInv' /\ Follow
<1>1. /\ copy' = Dropped(copy, n) /\ ghosts' = ghosts \ {n}
      /\ UNCHANGED <<page, nextId, list, spoilt>>
  BY DEF ManageDiscussion
<1>2. Stored' = Stored /\ Table' = Table /\ InForce' = InForce /\ \A q : Named(q)' = Named(q)
  BY <1>1 DEF Stored, Table, InForce, Named
<1>3. RulesRight' /\ rules' \in (SUBSET Rules) \union {Nil} /\ retired' \in BOOLEAN
  BY <1>2, RulesStay DEF ManageDiscussion
<1>4. /\ copy' \in [PageNames -> SiteCopy \union {Nil}]
      /\ \A q \in PageNames : copy'[q] # Nil => copy'[q] = copy[q] /\ (q \in ghosts => q \in ghosts')
  BY <1>1 DEF Dropped, SiteInv, SiteTypeOK
<1>5. CopiesRight(copy)'
  BY <1>1, <1>4, CopyIsRight, CopiesStay
<1>6. SiteTypeOK'
  BY <1>1, <1>2, <1>3, <1>4 DEF SiteInv, SiteTypeOK
<1>7. NamesUnique' /\ ListRight'
  BY <1>1, <1>2 DEF SiteInv, NamesUnique, ListRight
<1>8. QED
  BY <1>1, <1>3, <1>5, <1>6, <1>7, FollowStays DEF SiteInv

LEMMA RevertKeeps ==
  ASSUME SiteAssumption, SiteInv, NEW n \in PageNames, NEW text \in {Plain} \union Rules, Revert(n, text)
  PROVE  SiteInv' /\ Follow
<1>1. PICK i \in Named(n) :
        /\ page' = [page EXCEPT ![i] = [page[i] EXCEPT !.text = text, !.deleted = FALSE]]
        /\ copy' = Dropped(copy, n) /\ ghosts' = ghosts \ {n}
        /\ SaveRules({text}, {page[i].text} \ {text})
        /\ spoilt' = (spoilt \/ (list # Nil /\ page[i].deleted))
        /\ UNCHANGED <<nextId, list>>
  BY DEF Revert
<1>2. PICK row, deleted :
        deleted = FALSE /\ row = [name |-> n, text |-> text, deleted |-> deleted, att |-> page[i].att]
  OBVIOUS
<1>3. i \in Stored /\ page[i].name = n /\ page[i] \in SiteRow /\ page[i].deleted \in BOOLEAN
  BY RowTypes DEF Named, SiteInv
<1>4. [page[i] EXCEPT !.text = text, !.deleted = FALSE] = row
  BY ONLY <1>2, <1>3, RowReverted
<1>5. page' = [page EXCEPT ![i] = row]
  BY <1>1, <1>4
<1>6. Named(n) \subseteq {i} /\ MayName(i, n)
  BY <1>3 DEF SiteInv, NamesUnique, Named, MayName
<1>7. ghosts' = (ghosts \union {page[i].name}) \ {n}
  BY <1>1, <1>3
<1>8. spoilt' \in BOOLEAN
  BY <1>1 DEF SiteInv, SiteTypeOK
<1>9. list' # Nil /\ ~spoilt' => ~spoilt /\ page[i].name = n /\ page[i].deleted = deleted
  BY <1>1, <1>2, <1>3
<1>10. text \in SiteTexts /\ deleted \in BOOLEAN
  BY <1>2 DEF SiteTexts
<1>11. QED
  BY <1>1, <1>2, <1>3, <1>5, <1>6, <1>7, <1>8, <1>9, <1>10, CopyIsRight, RowEdited

LEMMA EditKeeps ==
  ASSUME SiteAssumption, SiteInv, NEW n \in PageNames, NEW text \in {Plain} \union Rules, Edit(n, text)
  PROVE  SiteInv' /\ Follow
<1>1. PICK no : no = FALSE
  OBVIOUS
<1>2. text \in SiteTexts /\ NoText \in SiteTexts /\ no \in BOOLEAN
  BY <1>1 DEF SiteTexts
<1>3. CASE Named(n) = {}
  <2>1. CreateRow(n, text, no, copy)
    BY <1>1, <1>3 DEF Edit
  <2>2. QED
    BY <1>2, <2>1, CopyIsRight, CreateRowKeeps
<1>4. CASE Named(n) # {}
  <2>1. PICK i \in Named(n) :
          IF page[i].att
          THEN EditRow(Got(n).id, n, IF page[Got(n).id].deleted THEN NoText ELSE text,
                       page[Got(n).id].deleted, copy)
          ELSE EditRow(i, n, text, no, copy)
    <3>1. PICK i : i = CHOOSE j \in Named(n) : TRUE
      OBVIOUS
    <3>2. i \in Named(n)
      BY <1>4, <3>1
    <3>3. QED
      BY <1>1, <1>4, <3>1, <3>2 DEF Edit
  <2>2. i \in Stored /\ page[i].name = n /\ Got(n) # Nil
    <3>1. i \in Stored /\ page[i].name = n
      BY DEF Named
    <3>2. PICK j \in Named(n) : j = CHOOSE k \in Named(n) : TRUE
      BY <1>4
    <3>3. CopyOf(j) # Nil
      BY RowTypes DEF Named, SiteInv
    <3>4. QED
      BY <1>4, <3>1, <3>2, <3>3 DEF Got
  <2>3. CASE page[i].att
    <3>1. PICK k, to, deleted :
            /\ k = Got(n).id /\ to = (IF page[k].deleted THEN NoText ELSE text)
            /\ deleted = page[k].deleted
      OBVIOUS
    <3>2. EditRow(k, n, to, deleted, copy)
      BY <2>1, <2>3, <3>1
    <3>3. page[k] # Nil
      BY <3>2 DEF EditRow
    <3>4. MayName(k, n) /\ k \in Stored
      BY <2>2, <3>1, <3>3, GotRow
    <3>5. to \in SiteTexts /\ deleted \in BOOLEAN
      BY <1>2, <3>1, <3>4, RowTypes DEF SiteInv
    <3>6. QED
      BY <3>2, <3>4, <3>5, CopyIsRight, EditRowKeeps
  <2>4. CASE ~page[i].att
    <3>1. EditRow(i, n, text, no, copy) /\ MayName(i, n)
      BY <2>1, <2>2, <2>4 DEF MayName
    <3>2. QED
      BY <1>2, <2>2, <3>1, CopyIsRight, EditRowKeeps
  <2>5. QED
    BY <2>3, <2>4
<1>5. QED
  BY <1>3, <1>4

LEMMA DeletePageKeeps ==
  ASSUME SiteAssumption, SiteInv, NEW n \in PageNames, DeletePage(n) PROVE SiteInv' /\ Follow
<1>1. PICK k, yes : k = Got(n).id /\ yes = TRUE
  OBVIOUS
<1>2. EditRow(k, n, NoText, yes, copy) /\ Got(n) # Nil
  BY <1>1 DEF DeletePage
<1>3. page[k] # Nil
  BY <1>2 DEF EditRow
<1>4. MayName(k, n) /\ k \in Stored
  BY <1>1, <1>2, <1>3, GotRow
<1>5. NoText \in SiteTexts /\ yes \in BOOLEAN
  BY <1>1 DEF SiteTexts
<1>6. QED
  BY <1>2, <1>4, <1>5, CopyIsRight, EditRowKeeps

LEMMA UploadKeeps ==
  ASSUME SiteAssumption, SiteInv, NEW r \in Roots, Upload(r) PROVE SiteInv' /\ Follow
<1>1. PICK n, seen, yes : /\ n = Below(r) /\ yes = TRUE
                          /\ seen = Refetched({r} \union Attached(r, {e \in Listed : ~e.deleted}))
  OBVIOUS
<1>2. n \in PageNames
  BY <1>1, BelowNames
<1>3. CopiesTyped(seen) /\ CopiesRight(seen)
  BY <1>1, RefetchedRight
<1>4. Plain \in SiteTexts /\ NoText \in SiteTexts /\ yes \in BOOLEAN
  BY <1>1 DEF SiteTexts
<1>5. CASE Got(n) = Nil
  <2>1. CreateRow(n, Plain, yes, seen)
    BY <1>1, <1>5 DEF Upload
  <2>2. QED
    BY <1>2, <1>3, <1>4, <2>1, CreateRowKeeps
<1>6. CASE Got(n) # Nil
  <2>1. PICK k, to, deleted :
          /\ k = Got(n).id /\ to = (IF page[k].deleted THEN NoText ELSE Plain)
          /\ deleted = page[k].deleted
    OBVIOUS
  <2>2. EditRow(k, n, to, deleted, seen) /\ page[k] # Nil
    BY <1>1, <1>6, <2>1 DEF Upload
  <2>3. MayName(k, n) /\ k \in Stored
    BY <1>2, <1>6, <2>1, <2>2, GotRow
  <2>4. to \in SiteTexts /\ deleted \in BOOLEAN
    BY <1>4, <2>1, <2>3, RowTypes DEF SiteInv
  <2>5. QED
    BY <1>2, <1>3, <2>2, <2>3, <2>4, EditRowKeeps
<1>7. QED
  BY <1>5, <1>6

(* What a list says of a name is what the table does, as to attachments.   *)
LEMMA ListedRight ==
  ASSUME SiteInv
  PROVE  /\ \A e \in Listed : \A i \in Named(e.name) : e.att = page[i].att
         /\ ~spoilt => Listed = Table
<1>1. CASE list = Nil
  <2>1. Listed = Table
    BY <1>1 DEF Listed
  <2>2. \A e \in Table : \A i \in Named(e.name) : e.att = page[i].att
    BY DEF Table, Named, SiteInv, NamesUnique
  <2>3. QED
    BY <2>1, <2>2
<1>2. CASE list # Nil
  BY <1>2 DEF SiteInv, ListRight, Listed
<1>3. QED
  BY <1>1, <1>2

LEMMA AttachedNames ==
  ASSUME NEW n, NEW entries, NEW a \in Attached(n, entries)
  PROVE  n \in Roots /\ a = Below(n) /\ \E e \in entries : e.att /\ e.name = a
BY DEF Attached

(* do_rename: the page k goes to m, moved attachments to the name below m, *)
(* removed ones had that name, and a redirect may take the name n again.   *)
LEMMA RenameKeeps ==
  ASSUME SiteAssumption, SiteInv, NEW n \in PageNames, NEW m \in PageNames,
         NEW redirect \in BOOLEAN, Rename(n, m, redirect)
  PROVE  SiteInv' /\ Follow
<1> DEFINE Dups == Duplicates(n, m)
           removed == UNION {Named(d) : d \in Dups}
           moved == UNION {Named(a) : a \in Moving(n)}
           arriving == {m} \union (IF moved = {} THEN {} ELSE {Below(m)})
<1>1. SiteTypeOK /\ NamesUnique /\ RulesRight
  BY DEF SiteInv
<1>2. PICK k : k = Got(n).id
  OBVIOUS
<1>3. /\ Got(n) # Nil /\ page[k] # Nil /\ n # m /\ Got(m) = Nil
      /\ n \in Roots => m \in Roots
      /\ \A a \in Moving(n) : Named(Below(m)) \subseteq removed
  BY <1>2 DEF Rename
<1>4. PICK added :
        /\ added \in IF redirect THEN {{i} : i \in NextIds} ELSE {{}}
        /\ page' = [i \in PageIds |->
                      CASE i \in removed -> Nil
                        [] i \in {k} \ removed -> [page[i] EXCEPT !.name = m]
                        [] i \in moved \ (removed \union {k}) -> [page[i] EXCEPT !.name = Below(m)]
                        [] i \in added -> [name |-> n, text |-> Plain, deleted |-> FALSE, att |-> FALSE]
                        [] OTHER -> page[i]]
        /\ nextId' = nextId + Cardinality(added)
  BY <1>2 DEF Rename
<1>5. /\ copy' = Uncached(Refetched(Dups \union Moving(n)), arriving \union {n})
      /\ ghosts' = (ghosts \union {page[k].name} \union Dups \union Moving(n)) \ (arriving \union {n})
      /\ list' = Nil /\ spoilt' = FALSE
      /\ SaveRules({page[k].text} \union {page[i].text : i \in moved}, {page[i].text : i \in removed})
  BY <1>2 DEF Rename
<1>6. PICK below : below = Below(m)
  OBVIOUS
<1>7. /\ \A d \in Dups : d = below /\ m \in Roots /\ \E e \in Listed : e.att /\ e.name = d
      /\ \A a \in Moving(n) : /\ n \in Roots /\ m \in Roots /\ a = Below(n) /\ a # below
                              /\ \E e \in Listed : e.att /\ e.name = a
  <2>1. \A d \in Dups : d \in Attached(m, Listed)
    BY DEF Duplicates
  <2>2. \A a \in Moving(n) : a \in Attached(n, {e \in Listed : ~e.deleted})
    BY DEF Moving
  <2>3. \A d \in Dups : d = below /\ m \in Roots /\ \E e \in Listed : e.att /\ e.name = d
    BY <1>6, <2>1, AttachedNames
  <2>4. \A a \in Moving(n) : n \in Roots /\ a = Below(n) /\ \E e \in Listed : e.att /\ e.name = a
    BY <2>2, AttachedNames
  <2>5. \A a \in Moving(n) : m \in Roots /\ a # below
    BY <1>3, <1>6, <2>4, BelowNames
  <2>6. QED
    BY <2>3, <2>4, <2>5
<1>8. /\ \A i \in removed : i \in Stored /\ page[i].name \in Dups
      /\ \A i \in moved : i \in Stored /\ page[i].name \in Moving(n)
      /\ \A i \in Stored : (page[i].name \in Dups => i \in removed)
                           /\ (page[i].name \in Moving(n) => i \in moved)
  BY DEF Named
<1>9. \A i \in moved : i \notin removed
  BY <1>7, <1>8
<1>10. /\ \A i \in removed \union moved : page[i].att
       /\ \A i \in removed : page[i].name = below /\ m \in Roots
       /\ \A i \in moved : page[i].name = Below(n) /\ n \in Roots /\ m \in Roots
  <2>1. ASSUME NEW i \in removed \union moved PROVE page[i].att
    <3>1. PICK e \in Listed : e.att /\ e.name = page[i].name
      BY <1>7, <1>8
    <3>2. i \in Named(e.name)
      BY <1>8, <3>1 DEF Named
    <3>3. QED
      BY <3>1, <3>2, ListedRight
  <2>2. QED
    BY <1>7, <1>8, <2>1
<1>11. below \in PageNames \/ m \notin Roots
  BY <1>6, BelowNames
<1>12. k \in Stored /\ MayName(k, n)
  BY <1>2, <1>3, GotRow
<1>13. /\ page[k].name = n \/ (page[k].att /\ Named(n) = {})
  <2>1. CopyRight(Got(n), n)
    BY <1>3, GotRight
  <2>2. PICK c : c = Got(n)
    OBVIOUS
  <2>3. AttachedCopy(c, n) => page[c.id].att /\ Named(n) = {}
    BY <1>2, <1>3, <2>2 DEF AttachedCopy
  <2>4. (\E i \in Named(n) : c = CopyOf(i)) => page[c.id].name = n
    BY DEF Named, CopyOf
  <2>5. QED
    BY <1>2, <2>1, <2>2, <2>3, <2>4 DEF CopyRight
<1>14. copy[m] = Nil /\ Named(m) = {}
  <2>1. copy[m] = Nil
    BY <1>3 DEF Got
  <2>2. SUFFICES ASSUME Named(m) # {} PROVE FALSE
    BY <2>1
  <2>3. PICK j \in Named(m) : Got(m) = CopyOf(j)
    <3>1. PICK j : j = CHOOSE i \in Named(m) : TRUE
      OBVIOUS
    <3>2. j \in Named(m) /\ Got(m) = CopyOf(j)
      BY <2>1, <2>2, <3>1 DEF Got
    <3>3. QED
      BY <3>2
  <2>4. j \in Stored
    BY DEF Named
  <2>5. QED
    BY <1>1, <1>3, <2>3, <2>4, RowTypes
<1> HIDE DEF Dups, removed, moved
<1>15. /\ added = {} \/ (added = {nextId} /\ nextId \in PageIds)
       /\ \A i \in added : i \in PageIds /\ i \notin Stored
  <2>1. added = {} \/ (added = {nextId} /\ nextId \in PageIds)
    BY <1>4 DEF NextIds
  <2>2. nextId \in PageIds => nextId \notin Stored
    BY <1>1 DEF SiteTypeOK, PageIds
  <2>3. QED
    BY <2>1, <2>2
<1>16. PICK row :
         /\ row = [name |-> n, text |-> Plain, deleted |-> FALSE, att |-> FALSE]
         /\ row \in SiteRow /\ row # Nil /\ row.name = n /\ row.text = Plain
  <2>1. PICK no, row : no = FALSE /\ row = [name |-> n, text |-> Plain, deleted |-> no, att |-> no]
    OBVIOUS
  <2>2. row \in SiteRow
    BY <2>1 DEF SiteRow, SiteTexts
  <2>3. QED
    BY <2>1, <2>2 DEF SiteAssumption
<1>17. \A i \in Stored : /\ i \in PageIds /\ page[i] \in SiteRow /\ page[i] # Nil /\ i \notin added
                         /\ page[i].name \in PageNames
  BY <1>1, <1>15, RowTypes DEF Stored
<1>18. \A r \in SiteRow, q \in PageNames :
         /\ [r EXCEPT !.name = q] \in SiteRow /\ [r EXCEPT !.name = q] # Nil
         /\ [r EXCEPT !.name = q].name = q /\ [r EXCEPT !.name = q].text = r.text
         /\ [r EXCEPT !.name = q].deleted = r.deleted /\ [r EXCEPT !.name = q].att = r.att
  BY DEF SiteRow, SiteAssumption
<1>19. /\ \A i \in removed : page'[i] = Nil
       /\ k \notin removed => page'[k] = [page[k] EXCEPT !.name = m]
       /\ \A i \in moved : i # k => page'[i] = [page[i] EXCEPT !.name = below]
       /\ \A i \in added : page'[i] = row
       /\ \A i \in PageIds : i \notin removed /\ i # k /\ i \notin moved /\ i \notin added
                               => page'[i] = page[i]
  <2>1. \A i \in removed : i \in PageIds /\ page'[i] = Nil
    BY <1>4, <1>8, <1>17
  <2>2. k \notin removed => page'[k] = [page[k] EXCEPT !.name = m]
    BY <1>4, <1>12, <1>17
  <2>3. \A i \in moved : i # k => page'[i] = [page[i] EXCEPT !.name = below]
    <3>1. SUFFICES ASSUME NEW i \in moved, i # k PROVE page'[i] = [page[i] EXCEPT !.name = Below(m)]
      BY <1>6
    <3>2. /\ i \in PageIds /\ i \notin removed /\ i \notin {k} \ removed /\ i \notin added
          /\ i \in moved \ (removed \union {k})
      BY <1>8, <1>9, <1>17, <3>1
    <3>3. QED
      BY <1>4, <3>2
  <2>4. \A i \in added : page'[i] = row
    <3>1. SUFFICES ASSUME NEW i \in added PROVE page'[i] = row
      OBVIOUS
    <3>2. i \in PageIds /\ i \notin removed /\ i # k /\ i \notin moved
      BY <1>8, <1>12, <1>15
    <3>3. QED
      BY <1>4, <1>16, <3>2
  <2>5. \A i \in PageIds : i \notin removed /\ i # k /\ i \notin moved /\ i \notin added
                           => page'[i] = page[i]
    BY <1>4
  <2>6. QED
    BY <2>1, <2>2, <2>3, <2>4, <2>5
<1>20. /\ k \notin removed => /\ page'[k] \in SiteRow /\ page'[k].name = m
                              /\ page'[k].text = page[k].text /\ page'[k].deleted = page[k].deleted
                              /\ page'[k].att = page[k].att
       /\ \A i \in moved : i # k => /\ page'[i] \in SiteRow /\ page'[i].name = below
                                    /\ page'[i].text = page[i].text
                                    /\ page'[i].deleted = page[i].deleted
                                    /\ page'[i].att = page[i].att
  <2>1. page[k] \in SiteRow
    BY <1>12, <1>17
  <2>2. ASSUME NEW i \in moved, i # k
        PROVE  /\ page'[i] \in SiteRow /\ page'[i].name = below
               /\ page'[i].text = page[i].text /\ page'[i].deleted = page[i].deleted
               /\ page'[i].att = page[i].att
    <3>1. page[i] \in SiteRow /\ below \in PageNames
      BY <1>8, <1>10, <1>11, <1>17
    <3>2. page'[i] = [page[i] EXCEPT !.name = below]
      BY <1>19, <2>2
    <3>3. QED
      BY ONLY <1>18, <3>1, <3>2
  <2>3. ASSUME k \notin removed
        PROVE  /\ page'[k] \in SiteRow /\ page'[k].name = m
               /\ page'[k].text = page[k].text /\ page'[k].deleted = page[k].deleted
               /\ page'[k].att = page[k].att
    <3>1. page'[k] = [page[k] EXCEPT !.name = m]
      BY <1>19, <2>3
    <3>2. m \in PageNames
      OBVIOUS
    <3>3. QED
      BY ONLY <1>18, <2>1, <3>1, <3>2
  <2>4. QED
    BY <2>2, <2>3
<1>21. /\ page' \in [PageIds -> SiteRow \union {Nil}]
       /\ Stored' = (Stored \ removed) \union added
  <2>1. \A i \in PageIds : page[i] \in SiteRow \union {Nil}
    BY <1>1 DEF SiteTypeOK
  <2>2. \A i \in PageIds : page'[i] \in SiteRow \union {Nil}
    BY <1>16, <1>19, <1>20, <2>1
  <2>3. page' = [i \in PageIds |-> page'[i]]
    BY <1>4
  <2>4. \A i \in PageIds : page'[i] # Nil <=> (i \in Stored /\ i \notin removed) \/ i \in added
    BY <1>8, <1>12, <1>15, <1>16, <1>19, <1>20 DEF Stored, SiteAssumption
  <2>5. QED
    BY <1>15, <2>2, <2>3, <2>4 DEF Stored
<1>22. /\ nextId' \in 1..(MaxPages + 1) /\ nextId <= nextId' /\ \A i \in Stored' : i < nextId'
  <2>1. MaxPages \in Nat /\ nextId \in 1..(MaxPages + 1) /\ \A i \in Stored : i \in Nat /\ i < nextId
    BY <1>1 DEF SiteTypeOK, SiteAssumption, Stored, PageIds
  <2>2. CASE added = {}
    <3>1. nextId' = nextId
      BY <1>4, <2>1, <2>2, FS_EmptySet
    <3>2. QED
      BY <1>21, <2>1, <2>2, <3>1
  <2>3. CASE added = {nextId} /\ nextId \in PageIds
    <3>1. nextId' = nextId + 1
      BY <1>4, <2>3, FS_Singleton
    <3>2. nextId <= MaxPages
      BY <2>1, <2>3 DEF PageIds
    <3>3. QED
      BY <1>21, <2>1, <2>3, <3>1, <3>2
  <2>4. QED
    BY <1>15, <2>2, <2>3
(* Whoever has a name after the step.                                      *)
<1>23. ASSUME NEW i \in Stored'
       PROVE  \/ i = k /\ page'[i].name = m
              \/ i \in moved /\ i # k /\ page'[i].name = below
              \/ i \in added /\ page'[i].name = n
              \/ i \in Stored /\ i # k /\ i \notin moved /\ i \notin removed /\ page'[i] = page[i]
  BY <1>16, <1>17, <1>19, <1>20, <1>21
<1>24. ASSUME NEW i \in Stored, i # k, i \notin moved, i \notin removed
       PROVE  page[i].name # m /\ page[i].name # n /\ (moved # {} => page[i].name # below)
  <2>1. page[i].name # m
    BY <1>14 DEF Named
  <2>2. page[i].name # n
    BY <1>1, <1>12, <1>13, <1>24 DEF Named, NamesUnique
  <2>3. moved # {} => page[i].name # below
    <3>1. SUFFICES ASSUME moved # {}, page[i].name = below PROVE FALSE
      OBVIOUS
    <3>2. Named(Below(m)) \subseteq removed
      BY <1>3, <1>8, <3>1 DEF moved, removed
    <3>3. QED
      BY <1>6, <1>24, <3>1, <3>2 DEF Named
  <2>4. QED
    BY <2>1, <2>2, <2>3
<1>25. moved # {} => below # m /\ below # n
  BY <1>6, <1>10, BelowNames
<1>26. NamesUnique'
  <2>1. SUFFICES ASSUME NEW i \in Stored', NEW j \in Stored', page'[i].name = page'[j].name PROVE i = j
    BY DEF NamesUnique
  <2>2. \A p, q \in moved : p = q
    BY <1>1, <1>8, <1>10 DEF NamesUnique
  <2>3. \A p, q \in added : p = q
    BY <1>15
  <2>4. CASE i \in Stored /\ i # k /\ i \notin moved /\ i \notin removed /\ page'[i] = page[i]
    <3>1. CASE j \in Stored /\ page'[j] = page[j]
      BY <1>1, <2>1, <2>4, <3>1 DEF NamesUnique
    <3>2. QED
      BY <1>23, <1>24, <2>1, <2>4, <3>1
  <2>5. CASE j \in Stored /\ j # k /\ j \notin moved /\ j \notin removed /\ page'[j] = page[j]
    BY <1>23, <1>24, <2>1, <2>4, <2>5
  <2>6. QED
    BY <1>3, <1>23, <1>25, <2>1, <2>2, <2>3, <2>4, <2>5
<1>27. RulesRight' /\ rules' \in (SUBSET Rules) \union {Nil} /\ retired' \in BOOLEAN
  <2>1. ASSUME {page[i].text : i \in removed} \intersect Rules = {} PROVE InForce' = InForce
    <3>1. Plain \notin Rules
      BY DEF SiteAssumption
    <3>2. \A i \in Stored \ removed : page'[i].text = page[i].text /\ page'[i].deleted = page[i].deleted
      BY <1>17, <1>19, <1>20
    <3>3. \A i \in removed : page[i].text \notin Rules
      BY <2>1
    <3>4. \A x \in Rules : (\E i \in Stored' : ~page'[i].deleted /\ page'[i].text = x)
                             <=> (\E i \in Stored : ~page[i].deleted /\ page[i].text = x)
      BY <1>16, <1>19, <1>21, <3>1, <3>2, <3>3
    <3>5. QED
      BY <3>4, SameInForce
  <2>2. QED
    BY <1>5, <2>1, RulesStay
<1>28. PICK held : held = Refetched(Dups \union Moving(n))
  OBVIOUS
<1>29. CopiesTyped(held) /\ CopiesRight(held)
  BY <1>28, RefetchedRight
<1>30. /\ copy' \in [PageNames -> SiteCopy \union {Nil}]
       /\ \A q \in PageNames : copy'[q] # Nil =>
            copy'[q] = held[q] /\ q \notin arriving /\ q # n /\ copy'[q].id < nextId
  <2>1. copy' = [q \in PageNames |-> IF q \in arriving \union {n} THEN Dropped(held, q)[q] ELSE held[q]]
    BY <1>5, <1>28 DEF Uncached
  <2>2. held \in [PageNames -> SiteCopy \union {Nil}] /\ \A q \in PageNames : held[q] # Nil => held[q].id < nextId
    BY <1>29 DEF CopiesTyped
  <2>3. \A q \in PageNames : Dropped(held, q)[q] = Nil
    BY <2>2 DEF Dropped
  <2>4. \A q \in PageNames : /\ q \in arriving \union {n} => copy'[q] = Nil
                             /\ q \notin arriving \union {n} => copy'[q] = held[q]
    BY <2>1, <2>3
  <2>5. QED
    BY <2>1, <2>2, <2>4
<1>31. SiteTypeOK'
  <2>1. \A q \in PageNames : copy'[q] # Nil => copy'[q].id < nextId'
    <3>1. SUFFICES ASSUME NEW q \in PageNames, copy'[q] # Nil PROVE copy'[q].id < nextId'
      OBVIOUS
    <3>2. copy'[q].id < nextId /\ copy'[q].id \in Nat
      BY <1>30, <3>1 DEF SiteCopy, PageIds
    <3>3. nextId \in Nat /\ nextId' \in Nat /\ nextId <= nextId'
      BY <1>1, <1>22 DEF SiteTypeOK
    <3>4. QED
      BY <3>2, <3>3
  <2>2. QED
    BY <1>5, <1>21, <1>22, <1>27, <1>30, <2>1 DEF SiteTypeOK
(* The names that are left to nobody.                                      *)
<1>32. ASSUME NEW q \in PageNames, q \notin arriving, q # n,
              \A i \in Stored : page[i].name = q => i = k \/ i \in moved \union removed
       PROVE  Named(q)' = {}
  <2>1. moved = {} \/ q # below
    BY <1>6, <1>32
  <2>2. \A i \in Stored' : page'[i].name # q
    BY <1>23, <1>32, <2>1
  <2>3. QED
    BY <2>2 DEF Named
<1>33. CopiesRight(copy)'
  <2>1. SUFFICES ASSUME NEW q \in PageNames, copy'[q] # Nil PROVE CopyRight(copy[q], q)'
    BY DEF CopiesRight
  <2>2. PICK c : c = held[q]
    OBVIOUS
  <2>3. c = copy'[q] /\ c # Nil /\ q \notin arriving /\ q # n /\ c \in SiteCopy /\ c.id < nextId
    BY <1>29, <1>30, <2>1, <2>2 DEF CopiesTyped
  <2>4. CopyRight(c, q)
    BY <1>29, <2>2, <2>3 DEF CopiesRight
  <2>5. c.id \in PageIds /\ c.id \notin added
    BY <1>1, <1>15, <2>3 DEF SiteCopy, PageIds, SiteTypeOK
  <2>6. page'[c.id] # Nil => page[c.id] # Nil /\ page'[c.id].att = page[c.id].att
    BY <1>17, <1>12, <1>8, <1>19, <1>20, <2>5
  <2>7. CASE AttachedCopy(c, q)
    <3>1. Named(q)' = {}
      BY <1>32, <2>3, <2>7 DEF AttachedCopy, Named
    <3>2. q \in ghosts'
      BY <1>5, <2>3, <2>7 DEF AttachedCopy
    <3>3. AttachedCopy(c, q)'
      BY <1>5, <2>6, <2>7, <3>1, <3>2 DEF AttachedCopy
    <3>4. QED
      BY <2>3, <3>3 DEF CopyRight
  <2>8. CASE \E j \in Named(q) : c = CopyOf(j)
    <3>1. PICK j \in Named(q) : c = CopyOf(j)
      BY <2>8
    <3>2. j \in Stored /\ page[j].name = q /\ c.id = j /\ c.att = page[j].att
      BY <3>1 DEF Named, CopyOf
    <3>3. CASE j # k /\ j \notin moved /\ j \notin removed
      <4>1. page'[j] = page[j] /\ j \in Stored'
        BY <1>17, <1>19, <1>21, <3>2, <3>3
      <4>2. j \in Named(q)' /\ c = CopyOf(j)'
        BY <3>1, <3>2, <4>1 DEF Named, CopyOf
      <4>3. QED
        BY <2>3, <4>2 DEF CopyRight
    <3>4. CASE j = k \/ j \in moved \union removed
      <4>1. \A i \in Stored : page[i].name = q => i = k \/ i \in moved \union removed
        BY <1>1, <3>2, <3>4 DEF NamesUnique
      <4>2. Named(q)' = {}
        BY <1>32, <2>3, <4>1
      <4>3. q \in ghosts'
        BY <1>5, <1>8, <2>3, <3>2, <3>4
      <4>4. page[j].att
        BY <1>10, <1>13, <2>3, <3>2, <3>4
      <4>5. AttachedCopy(c, q)'
        BY <1>5, <2>6, <3>2, <4>2, <4>3, <4>4 DEF AttachedCopy
      <4>6. QED
        BY <2>3, <4>5 DEF CopyRight
    <3>5. QED
      BY <3>3, <3>4
  <2>9. QED
    BY <2>4, <2>7, <2>8 DEF CopyRight
<1>34. ListRight'
  BY <1>5 DEF ListRight
<1>35. Follow
  <2>1. SUFFICES ASSUME NEW i \in Stored, NEW a \in Stored, ~page[i].att, page[i].name \in Roots,
                        page'[i] # Nil, page'[i].name # page[i].name,
                        page[a].att, ~page[a].deleted, page[a].name = Below(page[i].name), ~spoilt
                 PROVE  page'[a] # Nil /\ page'[a].name = Below(page'[i].name)
    BY DEF Follow
  <2>2. i \notin removed /\ i \notin moved
    BY <1>10, <2>1
  <2>3. i = k /\ page[k].name = n
    BY <1>13, <1>17, <1>19, <2>1, <2>2
  <2>4. PICK e \in Table : e.name = page[a].name /\ e.att = page[a].att /\ e.deleted = page[a].deleted
    <3>1. PICK e : e = [name |-> page[a].name, deleted |-> page[a].deleted, att |-> page[a].att]
      OBVIOUS
    <3>2. e \in Table
      BY <3>1 DEF Table
    <3>3. QED
      BY <3>1, <3>2
  <2>5. e \in {x \in Listed : ~x.deleted} /\ e.att /\ n \in Roots /\ e.name = Below(n)
    BY <2>1, <2>3, <2>4, ListedRight
  <2>6. page[a].name \in Moving(n)
    BY <2>4, <2>5 DEF Moving, Attached
  <2>7. a \in moved /\ a # k
    BY <1>8, <2>1, <2>3, <2>6
  <2>8. QED
    BY <1>6, <1>20, <2>2, <2>3, <2>7 DEF SiteAssumption
<1>36. QED
  BY <1>26, <1>27, <1>31, <1>33, <1>34, <1>35 DEF SiteInv

LEMMA SiteInitKeeps == SiteAssumption /\ SiteInit => SiteInv
<1>1. SUFFICES ASSUME SiteAssumption, SiteInit PROVE SiteInv
  OBVIOUS
<1>2. Stored = {}
  BY <1>1 DEF SiteInit, Stored
<1>3. SiteTypeOK
  <2>1. nextId \in 1..(MaxPages + 1)
    BY <1>1 DEF SiteInit, SiteAssumption
  <2>2. /\ page \in [PageIds -> SiteRow \union {Nil}]
        /\ copy \in [PageNames -> SiteCopy \union {Nil}] /\ \A n \in PageNames : copy[n] = Nil
    BY <1>1 DEF SiteInit
  <2>3. /\ list \in (SUBSET SiteEntry) \union {Nil} /\ rules \in (SUBSET Rules) \union {Nil}
        /\ spoilt \in BOOLEAN /\ retired \in BOOLEAN
    BY <1>1 DEF SiteInit
  <2>4. QED
    BY <1>2, <2>1, <2>2, <2>3 DEF SiteTypeOK
<1>4. QED
  BY <1>1, <1>2, <1>3 DEF SiteInit, SiteInv, NamesUnique, CopiesRight, ListRight, RulesRight

LEMMA SiteStepKeeps ==
  ASSUME SiteAssumption, SiteInv, [SiteNext]_siteVars PROVE SiteInv' /\ [Follow]_siteVars
<1>1. ASSUME NEW n \in PageNames, Show(n) \/ DeletePage(n) \/ ManageDiscussion(n)
      PROVE  SiteInv' /\ Follow
  BY <1>1, ShowKeeps, DeletePageKeeps, ManageDiscussionKeeps
<1>2. ASSUME NEW n \in PageNames, NEW text \in {Plain} \union Rules, Edit(n, text) \/ Revert(n, text)
      PROVE  SiteInv' /\ Follow
  BY <1>2, EditKeeps, RevertKeeps
<1>3. ASSUME NEW n \in PageNames, NEW m \in PageNames, NEW redirect \in BOOLEAN, Rename(n, m, redirect)
      PROVE  SiteInv' /\ Follow
  BY <1>3, RenameKeeps
<1>4. ASSUME NEW r \in Roots, Upload(r) PROVE SiteInv' /\ Follow
  BY <1>4, UploadKeeps
<1>5. CASE ListPages \/ AskRules \/ Forget
  BY <1>5, ListPagesKeeps, AskRulesKeeps, ForgetKeeps
<1>6. CASE UNCHANGED siteVars
  <2>1. Stored' = Stored /\ Table' = Table /\ InForce' = InForce /\ \A q : Named(q)' = Named(q)
    BY <1>6 DEF siteVars, Stored, Table, InForce, Named
  <2>2. CopiesRight(copy)'
    BY <1>6, CopyIsRight, CopiesStay DEF siteVars, CopiesTyped
  <2>3. SiteTypeOK' /\ NamesUnique' /\ ListRight' /\ RulesRight'
    BY <1>6, <2>1 DEF siteVars, SiteInv, SiteTypeOK, NamesUnique, ListRight, RulesRight
  <2>4. QED
    BY <1>6, <2>2, <2>3 DEF SiteInv
<1>7. QED
  BY <1>1, <1>2, <1>3, <1>4, <1>5, <1>6 DEF SiteNext

LEMMA CachesCurrent == SiteInv => SiteCachesCurrent
<1>1. SUFFICES ASSUME SiteInv PROVE SiteCachesCurrent
  OBVIOUS
<1>2. ASSUME NEW n \in PageNames PROVE Cardinality(Named(n)) <= 1
  <2>1. Named(n) = {} \/ \E i : Named(n) = {i}
    BY <1>1 DEF SiteInv, NamesUnique, Named
  <2>2. QED
    BY <2>1, FS_EmptySet, FS_Singleton
<1>3. ASSUME NEW n \in PageNames, copy[n] # Nil
      PROVE  n \in ghosts \/ \E i \in Named(n) : copy[n] = CopyOf(i)
  BY <1>1, <1>3 DEF SiteInv, CopiesRight, CopyRight, AttachedCopy
<1>4. QED
  BY <1>1, <1>2, <1>3 DEF SiteCachesCurrent, SiteInv, ListRight, RulesRight

\* Whatever is asked of the wiki, a copy under a name is of the row that has it, or of an
\* attachment that has left the name behind, and no list takes the one for the other.
THEOREM SiteInvariant == ASSUME SiteAssumption PROVE SiteSpec => []SiteInv
<1>1. SiteInit => SiteInv
  BY SiteInitKeeps
<1>2. SiteInv /\ [SiteNext]_siteVars => SiteInv'
  BY SiteStepKeeps
<1>3. QED
  BY <1>1, <1>2, PTL DEF SiteSpec

\* The caches of the wiki hold what the tables do, with the named exceptions, and the
\* attachments of a page follow it when it is renamed.
THEOREM SitesKeptHolds == ASSUME SiteAssumption PROVE SiteSpec => SitesKept
<1>1. SiteInv => SiteCachesCurrent
  BY CachesCurrent
<1>2. SiteInv /\ [SiteNext]_siteVars => [Follow]_siteVars
  BY SiteStepKeeps
<1>3. QED
  BY <1>1, <1>2, SiteInvariant, PTL DEF SiteSpec, SitesKept

-----------------------------------------------------------------------------
(* The merge.                                                              *)

\* Where a text has a line, from position a to position b.
Occurrences(s, line, a, b) == {n \in a..b : s[n] = line}

LEMMA OccurrencesFinite ==
    ASSUME NEW s, NEW line, NEW a \in Int, NEW b \in Int
    PROVE  /\ IsFiniteSet(Occurrences(s, line, a, b))
           /\ Cardinality(Occurrences(s, line, a, b)) \in Nat
<1>1. IsFiniteSet(a..b)
  BY FS_Interval
<1>2. Occurrences(s, line, a, b) \in SUBSET (a..b)
  BY DEF Occurrences
<1>3. IsFiniteSet(Occurrences(s, line, a, b))
  BY <1>1, <1>2, FS_Subset
<1>4. QED
  BY <1>3, FS_CardinalityType

LEMMA CountIsNat ==
    ASSUME NEW s, NEW line, NEW p \in Int
    PROVE  CountUpTo(s, line, p) \in Nat
BY OccurrencesFinite, p \in Int, 1 \in Int DEF CountUpTo, Occurrences

\* A count goes on from where it was.
LEMMA CountSplits ==
    ASSUME NEW s, NEW line, NEW p \in Nat, NEW q \in Nat, p <= q
    PROVE  CountUpTo(s, line, q) = CountUpTo(s, line, p) + Cardinality(Occurrences(s, line, p + 1, q))
<1> DEFINE A == Occurrences(s, line, 1, p)
           B == Occurrences(s, line, p + 1, q)
           C == Occurrences(s, line, 1, q)
<1>1. IsFiniteSet(A) /\ IsFiniteSet(B) /\ Cardinality(A) \in Nat /\ Cardinality(B) \in Nat
  BY OccurrencesFinite, 1 \in Int, p \in Int, q \in Int, p + 1 \in Int
<1>2. C = A \union B
  BY DEF Occurrences
<1>3. A \intersect B = {}
  BY DEF Occurrences
<1>4. Cardinality(C) = Cardinality(A) + Cardinality(B)
  <2> HIDE DEF A, B, C
  <2>1. Cardinality(A \union B) = Cardinality(A) + Cardinality(B) - Cardinality(A \intersect B)
    BY <1>1, FS_Union
  <2>2. Cardinality({}) = 0
    BY FS_EmptySet
  <2>3. Cardinality(A \intersect B) = 0
    BY <1>3, <2>2
  <2>4. Cardinality(C) = Cardinality(A \union B)
    BY <1>2
  <2>5. QED
    BY <1>1, <2>1, <2>3, <2>4
<1>5. CountUpTo(s, line, q) = Cardinality(C) /\ CountUpTo(s, line, p) = Cardinality(A)
  BY DEF CountUpTo, Occurrences
<1>6. QED
  BY <1>4, <1>5

\* The lines of s from a to b are those of t from c on.
SameLines(s, a, b, t, c) == \A n \in 0..(b - a) : s[a + n] = t[c + n]

\* The same lines count the same at other positions.
LEMMA CountShifts ==
    ASSUME NEW s, NEW t, NEW line, NEW a \in Int, NEW b \in Int, NEW c \in Int, NEW d \in Int,
           b - a = d - c, SameLines(s, a, b, t, c)
    PROVE  Cardinality(Occurrences(s, line, a, b)) = Cardinality(Occurrences(t, line, c, d))
<1>0. \A n \in 0..(b - a) : s[a + n] = t[c + n]
  BY DEF SameLines
<1> DEFINE A == Occurrences(s, line, a, b)
           B == Occurrences(t, line, c, d)
           f == [n \in A |-> n - a + c]
<1>1. IsFiniteSet(A)
  BY OccurrencesFinite
<1>2. \A n \in A : n \in Int /\ n - a \in 0..(b - a) /\ n = a + (n - a) /\ s[n] = line
  BY DEF Occurrences
<1>3. \A n \in A : f[n] \in B
  <2>1. TAKE n \in A
  <2>2. n - a \in 0..(b - a) /\ s[a + (n - a)] = t[c + (n - a)] /\ n = a + (n - a)
    BY <1>0, <1>2
  <2>3. t[c + (n - a)] = line
    BY <2>2, <1>2
  <2>4. c + (n - a) = n - a + c /\ c + (n - a) \in c..d
    BY <2>2, <1>2
  <2>5. QED
    BY <2>3, <2>4 DEF Occurrences
<1>4. \A m, n \in A : f[m] = f[n] => m = n
  BY <1>2
<1>5. \A m \in B : \E n \in A : f[n] = m
  <2>1. TAKE m \in B
  <2>2. m \in Int /\ m - c \in 0..(b - a) /\ m = c + (m - c) /\ t[m] = line
    BY DEF Occurrences
  <2>3. s[a + (m - c)] = t[c + (m - c)]
    BY <1>0, <2>2
  <2>4. s[a + (m - c)] = line
    BY <2>2, <2>3
  <2>5. a + (m - c) \in A
    BY <2>2, <2>4 DEF Occurrences
  <2>6. f[a + (m - c)] = m
    BY <2>2, <2>5
  <2>7. QED
    BY <2>5, <2>6
<1>6. f \in Bijection(A, B)
  <2>1. f \in [A -> B]
    BY <1>3
  <2>2. f \in Injection(A, B)
    BY <2>1, <1>4 DEF Injection, IsInjective
  <2>3. f \in Surjection(A, B)
    BY <2>1, <1>5 DEF Surjection
  <2>4. QED
    BY <2>2, <2>3 DEF Bijection
<1>7. ExistsBijection(A, B)
  BY <1>6 DEF ExistsBijection
<1>8. QED
  BY <1>1, <1>7, FS_Bijection

\* What is yielded is counted.
LEMMA CountAdds ==
    ASSUME NEW s \in Seq(Int), NEW t \in Seq(Int), NEW line
    PROVE  Count(s \o t, line) = Count(s, line) + Count(t, line)
<1>1. /\ s \o t \in Seq(Int)
      /\ Len(s \o t) = Len(s) + Len(t)
      /\ \A n \in 1..Len(s) : (s \o t)[n] = s[n]
      /\ \A n \in 1..Len(t) : (s \o t)[Len(s) + n] = t[n]
  BY ConcatProperties
<1>2. Len(s) \in Nat /\ Len(t) \in Nat
  OBVIOUS
<1>3. CountUpTo(s \o t, line, Len(s) + Len(t))
        = CountUpTo(s \o t, line, Len(s))
            + Cardinality(Occurrences(s \o t, line, Len(s) + 1, Len(s) + Len(t)))
  BY <1>2, CountSplits
<1>4. Occurrences(s \o t, line, 1, Len(s)) = Occurrences(s, line, 1, Len(s))
  BY <1>1 DEF Occurrences
<1>5. Cardinality(Occurrences(s \o t, line, Len(s) + 1, Len(s) + Len(t)))
        = Cardinality(Occurrences(t, line, 1, Len(t)))
  <2>1. SameLines(s \o t, Len(s) + 1, Len(s) + Len(t), t, 1)
    <3>1. SUFFICES ASSUME NEW n \in 0..(Len(s) + Len(t) - (Len(s) + 1))
                   PROVE  (s \o t)[Len(s) + 1 + n] = t[1 + n]
      BY DEF SameLines
    <3>2. 1 + n \in 1..Len(t) /\ Len(s) + 1 + n = Len(s) + (1 + n)
      BY <1>2
    <3>3. QED
      BY <1>1, <3>2
  <2>2. /\ Len(s) + 1 \in Int /\ Len(s) + Len(t) \in Int /\ Len(t) \in Int /\ 1 \in Int
        /\ Len(s) + Len(t) - (Len(s) + 1) = Len(t) - 1
    BY <1>2
  <2>3. QED
    BY <2>1, <2>2, CountShifts
<1>6. Count(s \o t, line) = CountUpTo(s \o t, line, Len(s) + Len(t))
  BY <1>1 DEF Count
<1>7. CountUpTo(s \o t, line, Len(s)) = Count(s, line)
  BY <1>4 DEF Count, CountUpTo, Occurrences
<1>8. Cardinality(Occurrences(t, line, 1, Len(t))) = Count(t, line)
  BY <1>2 DEF Count, CountUpTo, Occurrences
<1>9. QED
  BY <1>3, <1>5, <1>6, <1>7, <1>8

\* The changed lines of a side are counted on from its position.
LEMMA CountChanged ==
    ASSUME NEW s \in Seq(Nat), NEW line, NEW p \in 1..(Len(s) + 1), NEW q \in p..(Len(s) + 1)
    PROVE  /\ Changed(s, p, q) \in Seq(Nat)
           /\ Count(Changed(s, p, q), line) = CountUpTo(s, line, q - 1) - CountUpTo(s, line, p - 1)
<1> DEFINE t == SubSeq(s, p, q - 1)
<1>1. Len(s) \in Nat /\ p \in Int /\ q \in Int
  OBVIOUS
<1>2. /\ t \in Seq(Nat)
      /\ Len(t) = q - p
      /\ \A n \in 1..(q - p) : t[n] = s[p + n - 1]
  <2>1. CASE p = q
    <3>1. t = <<>>
      BY <2>1, <1>1
    <3>2. QED
      BY <3>1, <2>1, <1>1
  <2>2. CASE p < q
    <3>1. \A m \in p..(q - 1) : s[m] \in Nat
      BY <1>1
    <3>2. t \in Seq(Nat) /\ Len(t) = q - p /\ \A n \in 1..(q - p) : t[n] = s[p + n - 1]
      BY <3>1, <2>2, <1>1
    <3>3. QED
      BY <3>2, <1>1
  <2>3. QED
    BY <2>1, <2>2, <1>1
<1>3. p - 1 \in Nat /\ q - 1 \in Nat /\ p - 1 <= q - 1
  BY <1>1
<1>4. CountUpTo(s, line, q - 1)
        = CountUpTo(s, line, p - 1) + Cardinality(Occurrences(s, line, (p - 1) + 1, q - 1))
  BY <1>3, CountSplits
<1>5. Cardinality(Occurrences(t, line, 1, q - p)) = Cardinality(Occurrences(s, line, (p - 1) + 1, q - 1))
  <2>1. SameLines(t, 1, q - p, s, p)
    <3> HIDE DEF t
    <3>1. SUFFICES ASSUME NEW n \in 0..(q - p - 1) PROVE t[1 + n] = s[p + n]
      BY DEF SameLines
    <3>2. 1 + n \in 1..(q - p) /\ p + n = p + (1 + n) - 1
      BY <1>1
    <3>3. QED
      BY <1>2, <3>2
  <2>2. /\ q - p \in Int /\ q - 1 \in Int /\ 1 \in Int
        /\ q - p - 1 = q - 1 - p /\ (p - 1) + 1 = p
    BY <1>1
  <2> HIDE DEF t
  <2>3. Cardinality(Occurrences(t, line, 1, q - p)) = Cardinality(Occurrences(s, line, p, q - 1))
    BY <1>1, <2>1, <2>2, CountShifts
  <2>4. QED
    BY <2>2, <2>3
<1>7. Count(t, line) = Cardinality(Occurrences(t, line, 1, q - p))
  <2> HIDE DEF t
  <2> QED BY <1>2 DEF Count, CountUpTo, Occurrences
<1>8. Cardinality(Occurrences(s, line, (p - 1) + 1, q - 1)) = Count(t, line)
  BY <1>5, <1>7
<1>9. CountUpTo(s, line, p - 1) \in Nat /\ CountUpTo(s, line, q - 1) \in Nat
  BY CountIsNat, <1>3
<1>a. Cardinality(Occurrences(s, line, (p - 1) + 1, q - 1)) \in Nat
  BY OccurrencesFinite, <1>1, <1>3
<1>b. Count(t, line) = CountUpTo(s, line, q - 1) - CountUpTo(s, line, p - 1)
  <2> HIDE DEF t
  <2> QED BY <1>4, <1>8, <1>9, <1>a
<1>10. QED
  BY <1>2, <1>b DEF Changed

\* Lines that are those of the old text hold no added one.
LEMMA CountEqual ==
    ASSUME NEW a \in Seq(Nat), NEW s \in Seq(Nat), NEW line, line \notin LinesOf(a),
           NEW p \in 1..(Len(a) + 1), NEW q \in 1..(Len(s) + 1), NEW k \in Nat,
           Equal(a, s, p, q, k), NEW r, r = q + k
    PROVE  CountUpTo(s, line, r - 1) = CountUpTo(s, line, q - 1)
<1>1. Len(a) \in Nat /\ Len(s) \in Nat /\ p \in Int /\ q \in Int /\ q - 1 \in Nat
      /\ q + k - 1 \in Nat /\ q - 1 <= q + k - 1 /\ (q - 1) + 1 = q
  OBVIOUS
<1>2. p + k <= Len(a) + 1 /\ q + k <= Len(s) + 1 /\ \A m \in 0..(k - 1) : a[p + m] = s[q + m]
  BY DEF Equal
<1>3. Occurrences(s, line, q, q + k - 1) = {}
  <2>1. SUFFICES ASSUME NEW n \in q..(q + k - 1), s[n] = line PROVE FALSE
    BY DEF Occurrences
  <2>2. n - q \in 0..(k - 1) /\ n = q + (n - q)
    BY <1>1
  <2>3. a[p + (n - q)] = s[q + (n - q)]
    BY <1>2, <2>2
  <2>4. a[p + (n - q)] = line
    BY <2>1, <2>2, <2>3
  <2>5. p + (n - q) \in 1..Len(a)
    BY <1>1, <1>2, <2>2
  <2>6. QED
    BY <2>4, <2>5 DEF LinesOf
<1>4. CountUpTo(s, line, q + k - 1) = CountUpTo(s, line, q - 1) + Cardinality(Occurrences(s, line, (q - 1) + 1, q + k - 1))
  BY <1>1, CountSplits
<1>5. Cardinality({}) = 0
  BY FS_EmptySet
<1>6. CountUpTo(s, line, q - 1) \in Nat
  BY <1>1, CountIsNat
<1>7. CountUpTo(s, line, q + k - 1) = CountUpTo(s, line, q - 1) + 0
  BY <1>1, <1>3, <1>4, <1>5, Zenon
<1>8. r - 1 = q + k - 1
  OBVIOUS
<1>9. CountUpTo(s, line, r - 1) = CountUpTo(s, line, q + k - 1)
  BY <1>8, Zenon
<1>10. QED
  BY <1>6, <1>7, <1>9

-----------------------------------------------------------------------------
LEMMA LeastIsIn ==
    ASSUME NEW S \in SUBSET Nat, S # {}
    PROVE  Least(S) \in S
<1>1. \E x \in S : \A y \in S : x <= y
  BY LeastNatural
<1>2. QED
  BY <1>1 DEF Least

\* Places of a text from one place on.
LEMMA Further ==
    ASSUME NEW lo \in Int, NEW hi \in Int, NEW m \in lo..hi, NEW k \in Nat, m + k <= hi, 1 <= lo
    PROVE  m + k \in lo..hi /\ m + k \in 1..hi /\ m + k \in Int /\ m + k >= lo
OBVIOUS

LEMMA Later ==
    ASSUME NEW lo \in Int, NEW hi \in Int, 1 <= lo, NEW m \in lo..hi
    PROVE  m \in 1..hi /\ m \in Int /\ m >= lo
OBVIOUS

LEMMA LaterPlaces ==
    ASSUME NEW lo \in Int, NEW hi \in Int, NEW m \in Int, m >= lo
    PROVE  m..hi \subseteq lo..hi
OBVIOUS

\* What is yielded makes up for what is passed.
LEMMA Gains ==
    ASSUME NEW kept \in Nat, NEW passed \in Nat, NEW more \in Nat, NEW further \in Nat,
           kept >= passed, more >= further - passed
    PROVE  kept + more >= further
OBVIOUS

LEMMA NoLess ==
    ASSUME NEW kept \in Nat, NEW more \in Nat, NEW due \in Nat, kept >= due
    PROVE  kept + more >= due
OBVIOUS

\* match finds lines that are equal.
LEMMA MatchIs ==
    ASSUME NEW a \in Seq(Nat), NEW b \in Seq(Nat), NEW max \in Int,
           NEW p \in 1..(Len(a) + 1), NEW q \in 1..(Len(b) + 1)
    PROVE  Match(a, b, p, q, max) \in 0..Len(a) /\ Equal(a, b, p, q, Match(a, b, p, q, max))
<1> DEFINE Fits(n) == Equal(a, b, p, q, n) /\ (max > 0 => n <= max)
           Ends(n) == (max > 0 /\ n = max) \/ ~Equal(a, b, p, q, n + 1)
           E == {n \in 0..Len(a) : Fits(n)}
           S == {n \in 1..(Len(a) + 1) : n - 1 \in E}
<1>1. Len(a) \in Nat /\ Len(b) \in Nat /\ p \in Int /\ q \in Int /\ 1 <= p
  OBVIOUS
<1>2. 0 \in E
  <2>1. p + 0 <= Len(a) + 1 /\ q + 0 <= Len(b) + 1 /\ 0 \in 0..Len(a)
    BY <1>1
  <2>2. \A m \in 0..(0 - 1) : a[p + m] = b[q + m]
    OBVIOUS
  <2>3. Equal(a, b, p, q, 0)
    BY <2>1, <2>2 DEF Equal
  <2>4. max > 0 => 0 <= max
    OBVIOUS
  <2>5. QED
    BY <2>1, <2>3, <2>4
<1>3. 1 \in S
  BY <1>1, <1>2
<1>4. PICK g \in S : \A x \in S : x <= g
  <2>1. Len(a) + 1 \in Nat
    BY <1>1
  <2>2. S \in SUBSET (1..(Len(a) + 1))
    <3> HIDE DEF E
    <3> QED OBVIOUS
  <2> HIDE DEF S
  <2>3. S # {}
    BY <1>3
  <2>4. QED
    BY <2>1, <2>2, <2>3, GreatestNatural
<1>5. g \in Int /\ g - 1 \in 0..Len(a) /\ Fits(g - 1)
  BY <1>1
<1>6. Ends(g - 1)
  <2>1. SUFFICES ASSUME Equal(a, b, p, q, g) PROVE max > 0 /\ g - 1 = max
    BY <1>5
  <2>2. p + g <= Len(a) + 1
    BY <2>1 DEF Equal
  <2>3. g \in 0..Len(a) /\ g + 1 \in 1..(Len(a) + 1) /\ (g + 1) - 1 = g
    BY <1>1, <1>5, <2>2
  <2>4. g + 1 \notin S
    <3> HIDE DEF S
    <3>1. g + 1 \in S => g + 1 <= g
      BY <1>4
    <3>2. QED
      BY <1>5, <3>1
  <2>5. ~Fits(g)
    BY <2>3, <2>4
  <2>6. max > 0 /\ ~(g <= max) /\ g - 1 <= max
    BY <1>5, <2>1, <2>5
  <2>7. QED
    BY <1>5, <2>6
<1>7. \E n \in 0..Len(a) : Fits(n) /\ Ends(n)
  BY <1>5, <1>6
<1>8. QED
  BY <1>7 DEF Match

\* find_match finds a place further on, or the ends.
LEMMA FindMatchIs ==
    ASSUME NEW a \in Seq(Nat), NEW b \in Seq(Nat),
           NEW p \in 1..(Len(a) + 1), NEW q \in 1..(Len(b) + 1)
    PROVE  FindMatch(a, b, p, q) \in (p..(Len(a) + 1)) \X (q..(Len(b) + 1))
<1> DEFINE hits == {h \in (p..Len(a)) \X (q..Len(b)) :
                       Equal(a, b, h[1], h[2], MinCount)}
           Far(h) == Larger(h[1] - p, h[2] - q)
           fars == {Far(h) : h \in hits}
           nearest == Least(fars)
           along == {h[1] : h \in {g \in hits : /\ g[2] = q + nearest
                                                /\ g[1] <= p + nearest}}
           across == {h[2] : h \in {g \in hits : /\ g[1] = p + nearest
                                                 /\ g[2] < q + nearest}}
<1>1. Len(a) \in Nat /\ Len(b) \in Nat /\ p \in Nat /\ q \in Nat
      /\ p <= Len(a) + 1 /\ q <= Len(b) + 1
  OBVIOUS
<1>2. FindMatch(a, b, p, q) = IF hits = {} THEN <<Len(a) + 1, Len(b) + 1>>
                              ELSE IF along # {} THEN <<Least(along), q + nearest>>
                              ELSE <<p + nearest, Least(across)>>
  BY DEF FindMatch
<1>3. CASE hits = {}
  BY <1>1, <1>2, <1>3
<1>4. CASE hits # {}
  <2>1. \A h \in hits : h[1] \in p..Len(a) /\ h[2] \in q..Len(b)
    OBVIOUS
  <2>2. \A h \in hits : Far(h) \in Nat /\ h[1] <= p + Far(h) /\ h[2] <= q + Far(h)
                        /\ (h[1] = p + Far(h) \/ h[2] = q + Far(h))
    <3>1. TAKE h \in hits
    <3>2. h[1] \in p..Len(a) /\ h[2] \in q..Len(b)
      BY <2>1
    <3> DEFINE x == h[1]
               y == h[2]
    <3>3. x \in p..Len(a) /\ y \in q..Len(b)
      BY <3>2
    <3>4. Far(h) = IF x - p > y - q THEN x - p ELSE y - q
      BY DEF Larger
    <3> HIDE DEF x, y, Far, hits
    <3>5. Far(h) \in Nat /\ x <= p + Far(h) /\ y <= q + Far(h)
          /\ (x = p + Far(h) \/ y = q + Far(h))
      BY <1>1, <3>3, <3>4
    <3>6. QED
      BY <3>5 DEF x, y
  <2>3. fars \in SUBSET Nat /\ fars # {}
    <3>1. \A h \in hits : Far(h) \in Nat
      BY <2>2
    <3> HIDE DEF hits, Far
    <3>2. QED
      BY <1>4, <3>1
  <2>4. nearest \in fars
    <3> HIDE DEF fars
    <3> QED BY <2>3, LeastIsIn
  <2>5. PICK h \in hits : nearest = Far(h)
    BY <2>4
  <2>6. h[1] \in p..Len(a) /\ h[2] \in q..Len(b) /\ nearest \in Nat
        /\ h[1] <= p + nearest /\ h[2] <= q + nearest
        /\ (h[1] = p + nearest \/ h[2] = q + nearest)
    BY <2>1, <2>2, <2>5
  <2>7. along \subseteq p..Len(a) /\ across \subseteq q..Len(b)
    BY <2>1
  <2>8. CASE along # {}
    <3>1. along \in SUBSET Nat
      <4> HIDE DEF along, across
      <4> QED BY <1>1, <2>7
    <3>2. Least(along) \in along
      <4> HIDE DEF along
      <4> QED BY <2>8, <3>1, LeastIsIn
    <3>3. Least(along) \in p..Len(a)
      <4> HIDE DEF along
      <4> QED BY <2>7, <3>2
    <3>4. \E g \in hits : g[2] = q + nearest
      BY <2>8
    <3>5. q + nearest \in q..Len(b)
      <4> HIDE DEF hits, nearest
      <4> QED BY <2>1, <3>4
    <3>6. FindMatch(a, b, p, q) = <<Least(along), q + nearest>>
      BY <1>2, <1>4, <2>8
    <3> HIDE DEF along, nearest, hits
    <3>7. Least(along) \in p..(Len(a) + 1)
      BY <1>1, <3>3
    <3>8. q + nearest \in q..(Len(b) + 1)
      BY <1>1, <3>5
    <3>9. QED
      BY <3>6, <3>7, <3>8
  <2>9. CASE along = {}
    <3>1. h[2] # q + nearest
      <4>1. h[2] = q + nearest => h[1] \in along
        BY <2>6
      <4>2. QED
        BY <2>9, <4>1
    <3>2. h[1] = p + nearest /\ h[2] < q + nearest
      <4> HIDE DEF nearest, hits, Far, along, across, fars
      <4> DEFINE x == h[1]
                 y == h[2]
      <4>0. x \in Int /\ y \in Int
        <5>1. \A m \in p..Len(a) : m \in Int
          BY <1>1
        <5>2. \A m \in q..Len(b) : m \in Int
          BY <1>1
        <5>3. QED
          BY <2>6, <5>1, <5>2, Zenon
      <4>1. x \in Int /\ y \in Int /\ nearest \in Nat /\ x <= p + nearest /\ y <= q + nearest
            /\ (x = p + nearest \/ y = q + nearest) /\ y # q + nearest
        BY <2>6, <3>1, <4>0, Zenon
      <4> HIDE DEF x, y
      <4>2. x = p + nearest /\ y < q + nearest
        BY <1>1, <4>1
      <4>3. QED
        BY <4>2 DEF x, y
    <3>3. h[2] \in across
      BY <3>2
    <3>4. across \in SUBSET Nat /\ across # {}
      <4> HIDE DEF along, across
      <4>1. q..Len(b) \subseteq Nat
        BY <1>1
      <4>2. QED
        BY <2>7, <3>3, <4>1
    <3>5. Least(across) \in across
      <4> HIDE DEF across
      <4> QED BY <3>4, LeastIsIn
    <3>6. Least(across) \in q..Len(b)
      <4> HIDE DEF across
      <4> QED BY <2>7, <3>5
    <3>7. FindMatch(a, b, p, q) = <<p + nearest, Least(across)>>
      BY <1>2, <1>4, <2>9
    <3>8. p + nearest \in p..Len(a)
      <4> HIDE DEF nearest, hits
      <4> QED BY <2>6, <3>2
    <3> HIDE DEF across, nearest, hits
    <3>9. p + nearest \in p..(Len(a) + 1)
      BY <1>1, <3>8
    <3>10. Least(across) \in q..(Len(b) + 1)
      BY <1>1, <3>6
    <3>11. QED
      BY <3>7, <3>9, <3>10
  <2>10. QED
    BY <2>8, <2>9
<1>5. QED
  BY <1>3, <1>4

-----------------------------------------------------------------------------
\* The positions are places of their texts, the matches are places further on.
MergeTypes ==
    /\ old \in Seq(Nat) /\ other \in Seq(Nat) /\ new \in Seq(Nat)
    /\ out \in Seq(Int)
    /\ old_lineno \in 1..(Len(old) + 1)
    /\ other_lineno \in 1..(Len(other) + 1)
    /\ new_lineno \in 1..(Len(new) + 1)
    /\ pc \in {"scan", "decide", "triple", "done"}
    /\ pc \in {"decide", "triple"} =>
        /\ theirs \in (old_lineno..(Len(old) + 1)) \X (other_lineno..(Len(other) + 1))
        /\ mine \in (old_lineno..(Len(old) + 1)) \X (new_lineno..(Len(new) + 1))

MergeInv == MergeTypes /\ AddedLinesKept

Added == (LinesOf(other) \union LinesOf(new)) \ LinesOf(old)

\* While the merge goes on.
KeptUpTo(line) ==
    /\ Count(out, line) >= CountUpTo(other, line, other_lineno - 1)
    /\ Count(out, line) >= CountUpTo(new, line, new_lineno - 1)

LEMMA Lengths ==
    ASSUME MergeTypes
    PROVE  /\ Len(old) \in Nat /\ Len(other) \in Nat /\ Len(new) \in Nat
           /\ old_lineno \in Int /\ other_lineno \in Int /\ new_lineno \in Int
           /\ 1 <= old_lineno /\ 1 <= other_lineno /\ 1 <= new_lineno
           /\ old_lineno <= Len(old) + 1
           /\ other_lineno <= Len(other) + 1 /\ new_lineno <= Len(new) + 1
           /\ other_lineno - 1 \in Int /\ new_lineno - 1 \in Int
           /\ Len(old) + 1 \in Int /\ Len(other) + 1 \in Int /\ Len(new) + 1 \in Int
BY DEF MergeTypes

\* The matches as positions.
LEMMA Ranges ==
    ASSUME MergeTypes, pc \in {"decide", "triple"}
    PROVE  /\ theirs[1] \in old_lineno..(Len(old) + 1)
           /\ theirs[2] \in other_lineno..(Len(other) + 1)
           /\ mine[1] \in old_lineno..(Len(old) + 1)
           /\ mine[2] \in new_lineno..(Len(new) + 1)
BY DEF MergeTypes

\* A step that goes on with the merge keeps what there is of every added line.
LEMMA GoesOn ==
    ASSUME pc' # "done", UNCHANGED args, \A line \in Added : KeptUpTo(line)'
    PROVE  AddedLinesKept'
BY DEF AddedLinesKept, Added, KeptUpTo, Done, args, LinesOf

\* What a state keeps, in terms of its texts that no step changes.
LEMMA KeptAgain ==
    ASSUME NEW line, UNCHANGED args,
           Count(out', line) >= CountUpTo(other, line, other_lineno' - 1),
           Count(out', line) >= CountUpTo(new, line, new_lineno' - 1)
    PROVE  KeptUpTo(line)'
<1>1. other' = other /\ new' = new
  BY DEF args
<1>2. /\ Count(out, line)' = Count(out', line)
      /\ CountUpTo(other, line, other_lineno - 1)' = CountUpTo(other, line, other_lineno' - 1)
      /\ CountUpTo(new, line, new_lineno - 1)' = CountUpTo(new, line, new_lineno' - 1)
  BY <1>1 DEF Count, CountUpTo
<1>3. QED
  BY <1>2 DEF KeptUpTo

LEMMA MergeInitKeeps == ASSUME Diff3Assumption PROVE MergeInit => MergeInv
<1> SUFFICES ASSUME MergeInit PROVE MergeInv
  OBVIOUS
<1>1. old \in Seq(Nat) /\ other \in Seq(Nat) /\ new \in Seq(Nat)
  BY DEF MergeInit, Diff3Assumption
<1>2. MergeTypes
  BY <1>1 DEF MergeInit, MergeTypes
<1>3. \A line : CountUpTo(other, line, 0) = 0 /\ CountUpTo(new, line, 0) = 0
                /\ Count(<<>>, line) = 0
  <2>1. TAKE line
  <2>2. {n \in 1..0 : other[n] = line} = {} /\ {n \in 1..0 : new[n] = line} = {}
    OBVIOUS
  <2>3. Len(<<>>) = 0 /\ \A s : {n \in 1..0 : s[n] = line} = {}
    OBVIOUS
  <2>4. Cardinality({}) = 0
    BY FS_EmptySet
  <2>5. CountUpTo(<<>>, line, 0) = 0
    BY <2>3, <2>4 DEF CountUpTo
  <2>6. Count(<<>>, line) = 0
    BY <2>3, <2>5 DEF Count
  <2>7. CountUpTo(other, line, 0) = 0 /\ CountUpTo(new, line, 0) = 0
    BY <2>2, <2>4 DEF CountUpTo
  <2>8. QED
    BY <2>6, <2>7
<1>4. other_lineno - 1 = 0 /\ new_lineno - 1 = 0 /\ out = <<>> /\ ~Done
  BY DEF MergeInit, Done
<1>5. AddedLinesKept
  <2>1. SUFFICES ASSUME NEW line PROVE KeptUpTo(line)
    BY <1>4 DEF AddedLinesKept, KeptUpTo
  <2>2. QED
    BY <1>3, <1>4 DEF KeptUpTo
<1>6. QED
  BY <1>2, <1>5 DEF MergeInv

\* What is kept so far, for one added line.
LEMMA KeptSoFar ==
    ASSUME MergeInv, NEW line \in Added
    PROVE  /\ KeptUpTo(line)
           /\ line \notin LinesOf(old)
           /\ Count(out, line) \in Nat
           /\ CountUpTo(other, line, other_lineno - 1) \in Nat
           /\ CountUpTo(new, line, new_lineno - 1) \in Nat
<1>1. KeptUpTo(line) /\ line \notin LinesOf(old)
  BY DEF MergeInv, AddedLinesKept, Added, KeptUpTo
<1>2. Len(out) \in Int
  BY DEF MergeInv, MergeTypes
<1>3. QED
  BY <1>1, <1>2, CountIsNat, Lengths DEF MergeInv, Count

\* What a step yields is at least what its positions pass of an added line.
LEMMA KeptOn ==
    ASSUME MergeInv, NEW line \in Added, UNCHANGED args,
           NEW x \in Seq(Int), out' = out \o x,
           other_lineno' \in Int, new_lineno' \in Int,
           Count(x, line) >= CountUpTo(other, line, other_lineno' - 1)
                              - CountUpTo(other, line, other_lineno - 1),
           Count(x, line) >= CountUpTo(new, line, new_lineno' - 1)
                              - CountUpTo(new, line, new_lineno - 1)
    PROVE  KeptUpTo(line)'
<1>1. /\ Count(out, line) >= CountUpTo(other, line, other_lineno - 1)
      /\ Count(out, line) >= CountUpTo(new, line, new_lineno - 1)
      /\ Count(out, line) \in Nat
      /\ CountUpTo(other, line, other_lineno - 1) \in Nat
      /\ CountUpTo(new, line, new_lineno - 1) \in Nat
  BY KeptSoFar DEF KeptUpTo
<1>2. /\ CountUpTo(other, line, other_lineno' - 1) \in Nat
      /\ CountUpTo(new, line, new_lineno' - 1) \in Nat
  <2>1. other_lineno' - 1 \in Int /\ new_lineno' - 1 \in Int
    OBVIOUS
  <2>2. QED
    BY <2>1, CountIsNat
<1>3. Count(out', line) = Count(out, line) + Count(x, line)
  BY CountAdds DEF MergeInv, MergeTypes
<1>4. Count(x, line) \in Nat
  BY CountIsNat, Len(x) \in Int DEF Count
<1>5. /\ Count(out', line) >= CountUpTo(other, line, other_lineno' - 1)
      /\ Count(out', line) >= CountUpTo(new, line, new_lineno' - 1)
  <2>1. Count(out, line) + Count(x, line) >= CountUpTo(other, line, other_lineno' - 1)
    BY <1>1, <1>2, <1>4, Gains
  <2>2. Count(out, line) + Count(x, line) >= CountUpTo(new, line, new_lineno' - 1)
    BY <1>1, <1>2, <1>4, Gains
  <2>3. QED
    BY <1>3, <2>1, <2>2
<1>6. QED
  BY <1>5, KeptAgain

\* Where a side goes on by lines of the old text, it passes no added line.
LEMMA PassesNone ==
    ASSUME MergeInv, NEW line \in Added, NEW k \in Nat, NEW r, NEW q
    PROVE  /\ Equal(old, other, old_lineno, other_lineno, k) /\ r = other_lineno + k =>
                CountUpTo(other, line, r - 1) = CountUpTo(other, line, other_lineno - 1)
           /\ Equal(old, new, old_lineno, new_lineno, k) /\ q = new_lineno + k =>
                CountUpTo(new, line, q - 1) = CountUpTo(new, line, new_lineno - 1)
<1>1. line \notin LinesOf(old)
  BY KeptSoFar
<1>2. /\ old \in Seq(Nat) /\ other \in Seq(Nat) /\ new \in Seq(Nat)
      /\ old_lineno \in 1..(Len(old) + 1)
      /\ other_lineno \in 1..(Len(other) + 1)
      /\ new_lineno \in 1..(Len(new) + 1)
  BY DEF MergeInv, MergeTypes
<1>3. QED
  BY <1>1, <1>2, CountEqual

LEMMA KeepLineKeeps == ASSUME MergeInv, KeepLine PROVE MergeInv'
<1>1. /\ Scanning /\ Agree /\ pc = "scan"
      /\ out' = Append(out, old[old_lineno])
      /\ old_lineno' = old_lineno + 1
      /\ other_lineno' = other_lineno + 1
      /\ new_lineno' = new_lineno + 1
      /\ old' = old /\ other' = other /\ new' = new /\ pc' = pc
  BY DEF KeepLine, Scanning, args
<1>2. MergeTypes
  BY DEF MergeInv
<1>3. old[old_lineno] \in Nat
  <2>1. old \in Seq(Nat) /\ old_lineno \in 1..Len(old)
    BY <1>1, <1>2, Lengths DEF MergeTypes, Scanning
  <2>2. QED
    BY <2>1
<1>4. MergeTypes'
  <2>1. out' \in Seq(Int)
    BY <1>1, <1>2, <1>3 DEF MergeTypes
  <2>2. QED
    BY <1>1, <1>2, <2>1, Lengths DEF MergeTypes, Scanning
<1>5. ASSUME NEW line \in Added PROVE KeptUpTo(line)'
  <2>1. /\ KeptUpTo(line) /\ line \notin LinesOf(old)
        /\ Count(out, line) \in Nat
        /\ CountUpTo(other, line, other_lineno - 1) \in Nat
        /\ CountUpTo(new, line, new_lineno - 1) \in Nat
    BY <1>5, KeptSoFar
  <2>2. Equal(old, other, old_lineno, other_lineno, 1) /\ Equal(old, new, old_lineno, new_lineno, 1)
    <3>1. /\ old_lineno <= Len(old) /\ other_lineno <= Len(other) /\ new_lineno <= Len(new)
          /\ old[old_lineno] = other[other_lineno] /\ old[old_lineno] = new[new_lineno]
      BY <1>1 DEF Scanning, Agree
    <3>2. \A m \in 0..(1 - 1) : m = 0
      OBVIOUS
    <3>3. old_lineno + 0 = old_lineno /\ other_lineno + 0 = other_lineno
          /\ new_lineno + 0 = new_lineno
      BY <1>2, Lengths
    <3>4. /\ \A m \in 0..(1 - 1) : old[old_lineno + m] = other[other_lineno + m]
          /\ \A m \in 0..(1 - 1) : old[old_lineno + m] = new[new_lineno + m]
      BY <3>1, <3>2, <3>3
    <3>5. old_lineno + 1 <= Len(old) + 1 /\ other_lineno + 1 <= Len(other) + 1
          /\ new_lineno + 1 <= Len(new) + 1
      <4>1. /\ old_lineno \in Int /\ other_lineno \in Int /\ new_lineno \in Int
            /\ Len(old) \in Int /\ Len(other) \in Int /\ Len(new) \in Int
        BY <1>2, Lengths
      <4>2. QED
        BY <3>1, <4>1
    <3>6. QED
      BY <3>4, <3>5 DEF Equal
  <2>4. out' = out \o <<old[old_lineno]>> /\ <<old[old_lineno]>> \in Seq(Int)
    <3> DEFINE e == old[old_lineno]
    <3>1. e \in Int /\ out \in Seq(Int) /\ out' = Append(out, e)
      BY <1>1, <1>2, <1>3 DEF MergeTypes
    <3> HIDE DEF e
    <3>2. out' = out \o <<e>> /\ <<e>> \in Seq(Int)
      BY <3>1, AppendIsConcat
    <3>3. QED
      BY <3>2 DEF e
  <2>5. Count(<<old[old_lineno]>>, line) \in Nat
    BY CountIsNat DEF Count
  <2>6. /\ CountUpTo(other, line, other_lineno' - 1) = CountUpTo(other, line, other_lineno - 1)
        /\ CountUpTo(new, line, new_lineno' - 1) = CountUpTo(new, line, new_lineno - 1)
    <3>1. other_lineno' = other_lineno + 1 /\ new_lineno' = new_lineno + 1 /\ 1 \in Nat
      BY <1>1
    <3>2. QED
      BY <1>5, <2>2, <3>1, PassesNone
  <2>7. /\ Count(<<old[old_lineno]>>, line) >= CountUpTo(other, line, other_lineno' - 1)
                                                - CountUpTo(other, line, other_lineno - 1)
        /\ Count(<<old[old_lineno]>>, line) >= CountUpTo(new, line, new_lineno' - 1)
                                                - CountUpTo(new, line, new_lineno - 1)
    BY <2>1, <2>5, <2>6
  <2>8. other_lineno' \in Int /\ new_lineno' \in Int /\ UNCHANGED args
    <3>1. UNCHANGED args
      BY <1>1 DEF args
    <3>2. other_lineno' = other_lineno + 1 /\ new_lineno' = new_lineno + 1
      BY <1>1
    <3>3. other_lineno \in Int /\ new_lineno \in Int
      BY <1>2, Lengths
    <3>4. QED
      BY <3>1, <3>2, <3>3
  <2>9. QED
    BY <1>5, <2>4, <2>7, <2>8, KeptOn
<1>6. pc' # "done" /\ UNCHANGED args
  BY <1>1 DEF args
<1>7. QED
  BY <1>4, <1>5, <1>6, GoesOn DEF MergeInv

\* Steps that only look leave what is kept.
LEMMA LookingKeeps ==
    ASSUME MergeInv, UNCHANGED <<args, linenos, out>>, pc' # "done"
    PROVE  AddedLinesKept'
<1>1. \A line \in Added : KeptUpTo(line)'
  BY DEF MergeInv, AddedLinesKept, Added, KeptUpTo, args, linenos
<1>2. QED
  BY <1>1, GoesOn DEF args

LEMMA FindMatchesKeeps == ASSUME MergeInv, FindMatches PROVE MergeInv'
<1>1. /\ theirs' = FindMatch(old, other, old_lineno, other_lineno)
      /\ mine' = FindMatch(old, new, old_lineno, new_lineno)
      /\ pc' = "decide" /\ UNCHANGED <<args, linenos, out>>
  BY DEF FindMatches
<1>2. /\ theirs' \in (old_lineno..(Len(old) + 1)) \X (other_lineno..(Len(other) + 1))
      /\ mine' \in (old_lineno..(Len(old) + 1)) \X (new_lineno..(Len(new) + 1))
  BY <1>1, FindMatchIs DEF MergeInv, MergeTypes
<1>3. MergeTypes'
  BY <1>1, <1>2 DEF MergeInv, MergeTypes, args, linenos
<1>4. QED
  BY <1>1, <1>3, LookingKeeps DEF MergeInv

LEMMA FindConflictKeeps == ASSUME MergeInv, FindConflict PROVE MergeInv'
<1>1. /\ pc = "decide" /\ pc' = "triple" /\ UNCHANGED <<args, linenos, out, theirs, mine>>
  BY DEF FindConflict
<1>2. MergeTypes'
  BY <1>1 DEF MergeInv, MergeTypes, args, linenos
<1>3. QED
  BY <1>1, <1>2, LookingKeeps DEF MergeInv

\* A number of lines that match is not negative.
LEMMA MatchedLines ==
    ASSUME NEW a \in Seq(Nat), NEW b \in Seq(Nat), NEW n \in Int,
           NEW p \in 1..(Len(a) + 1), NEW q \in 1..(Len(b) + 1),
           Match(a, b, p, q, n) = n
    PROVE  n \in Nat /\ Equal(a, b, p, q, n) /\ q + n <= Len(b) + 1
<1>1. Match(a, b, p, q, n) \in 0..Len(a) /\ Equal(a, b, p, q, Match(a, b, p, q, n))
  BY MatchIs
<1>2. n \in 0..Len(a) /\ Equal(a, b, p, q, n)
  BY <1>1, Zenon
<1>3. n \in Nat
  BY <1>2
<1>4. q + n <= Len(b) + 1
  BY <1>2 DEF Equal
<1>5. QED
  BY <1>2, <1>3, <1>4

\* The lines from one position to a later one.
LEMMA ChangedIs ==
    ASSUME MergeTypes, NEW line
    PROVE  /\ \A q \in other_lineno..(Len(other) + 1) :
                /\ Changed(other, other_lineno, q) \in Seq(Int)
                /\ Count(Changed(other, other_lineno, q), line) \in Nat
                /\ Count(Changed(other, other_lineno, q), line)
                    = CountUpTo(other, line, q - 1) - CountUpTo(other, line, other_lineno - 1)
           /\ \A r \in new_lineno..(Len(new) + 1) :
                /\ Changed(new, new_lineno, r) \in Seq(Int)
                /\ Count(Changed(new, new_lineno, r), line) \in Nat
                /\ Count(Changed(new, new_lineno, r), line)
                    = CountUpTo(new, line, r - 1) - CountUpTo(new, line, new_lineno - 1)
<1>1. ASSUME NEW s \in Seq(Nat), NEW p \in 1..(Len(s) + 1), NEW q \in p..(Len(s) + 1)
      PROVE  /\ Changed(s, p, q) \in Seq(Int)
             /\ Count(Changed(s, p, q), line) \in Nat
             /\ Count(Changed(s, p, q), line) = CountUpTo(s, line, q - 1) - CountUpTo(s, line, p - 1)
  <2>1. /\ Changed(s, p, q) \in Seq(Nat)
        /\ Count(Changed(s, p, q), line) = CountUpTo(s, line, q - 1) - CountUpTo(s, line, p - 1)
    BY CountChanged
  <2>2. Changed(s, p, q) \in Seq(Int) /\ Len(Changed(s, p, q)) \in Int
    BY <2>1
  <2>3. QED
    BY <2>1, <2>2, CountIsNat DEF Count
<1>2. QED
  BY <1>1 DEF MergeTypes

LEMMA TakeNewKeeps == ASSUME MergeInv, TakeNew PROVE MergeInv'
<1> DEFINE x == Changed(new, new_lineno, mine[2])
<1>1. /\ pc = "decide" /\ OnlyNewChanged
      /\ out' = out \o x
      /\ old_lineno' = mine[1] /\ new_lineno' = mine[2]
      /\ other_lineno' = other_lineno + NewChangedLines
      /\ pc' = "scan" /\ UNCHANGED args
      /\ old' = old /\ other' = other /\ new' = new
  BY DEF TakeNew, args
<1>2. MergeTypes
  BY DEF MergeInv
<1>3. mine[1] \in old_lineno..(Len(old) + 1) /\ mine[2] \in new_lineno..(Len(new) + 1)
  BY <1>1, <1>2, Ranges
<1>4. /\ NewChangedLines \in Nat
      /\ Equal(old, other, old_lineno, other_lineno, NewChangedLines)
      /\ other_lineno + NewChangedLines <= Len(other) + 1
  <2>1. NewChangedLines \in Int
    <3>1. old_lineno \in Int /\ 1 <= old_lineno /\ Len(old) + 1 \in Int
      BY <1>2, Lengths
    <3>2. mine[1] \in Int
      BY <1>3, <3>1, Later
    <3>3. QED
      BY <3>1, <3>2 DEF NewChangedLines
  <2>2. Match(old, other, old_lineno, other_lineno, NewChangedLines) = NewChangedLines
    BY <1>1 DEF OnlyNewChanged
  <2>3. QED
    BY <1>2, <2>1, <2>2, MatchedLines DEF MergeTypes
<1>5. x \in Seq(Int) /\ out \in Seq(Int)
  BY <1>2, <1>3, ChangedIs DEF MergeTypes
<1>6. MergeTypes'
  <2>1. out' \in Seq(Int)
    <3> HIDE DEF x
    <3> QED BY <1>1, <1>5
  <2>2. mine[1] \in 1..(Len(old) + 1) /\ mine[2] \in 1..(Len(new) + 1)
    BY <1>2, <1>3, Lengths, Later
  <2>3. other_lineno + NewChangedLines \in 1..(Len(other) + 1)
    BY <1>2, <1>4, Lengths
  <2>4. QED
    BY <1>1, <1>2, <2>1, <2>2, <2>3 DEF MergeTypes
<1>7. ASSUME NEW line \in Added PROVE KeptUpTo(line)'
  <2>1. line \notin LinesOf(old) /\ CountUpTo(other, line, other_lineno - 1) \in Nat
    BY <1>7, KeptSoFar
  <2>3. CountUpTo(other, line, other_lineno' - 1) = CountUpTo(other, line, other_lineno - 1)
    <3>1. other_lineno' = other_lineno + NewChangedLines
      BY <1>1
    <3>2. QED
      BY <1>4, <1>7, <3>1, PassesNone
  <2>4. /\ Count(x, line) \in Nat
        /\ Count(x, line) = CountUpTo(new, line, mine[2] - 1) - CountUpTo(new, line, new_lineno - 1)
    BY <1>2, <1>3, ChangedIs
  <2>5. CountUpTo(new, line, new_lineno' - 1) = CountUpTo(new, line, mine[2] - 1)
    BY <1>1
  <2>6. other_lineno' \in Int /\ new_lineno' \in Int
    <3>1. other_lineno \in Int /\ other_lineno' = other_lineno + NewChangedLines /\ new_lineno' = mine[2]
      BY <1>1, <1>2, Lengths
    <3>2. mine[2] \in Int
      BY <1>2, <1>3, Lengths, Later
    <3>3. NewChangedLines \in Int
      BY <1>4
    <3>4. QED
      BY <3>1, <3>2, <3>3
  <2> HIDE DEF x
  <2>7. /\ Count(x, line) >= CountUpTo(other, line, other_lineno' - 1)
                              - CountUpTo(other, line, other_lineno - 1)
        /\ Count(x, line) >= CountUpTo(new, line, new_lineno' - 1)
                              - CountUpTo(new, line, new_lineno - 1)
    <3>1. CountUpTo(other, line, other_lineno' - 1)
            - CountUpTo(other, line, other_lineno - 1) = 0
      BY <2>1, <2>3
    <3>2. CountUpTo(new, line, new_lineno' - 1)
            - CountUpTo(new, line, new_lineno - 1) = Count(x, line)
      BY <2>4, <2>5
    <3>3. QED
      BY <2>4, <3>1, <3>2
  <2>8. QED
    BY <1>1, <1>5, <1>7, <2>6, <2>7, KeptOn
<1>8. QED
  BY <1>1, <1>6, <1>7, GoesOn DEF MergeInv

LEMMA TakeOtherKeeps == ASSUME MergeInv, TakeOther PROVE MergeInv'
<1> DEFINE x == Changed(other, other_lineno, theirs[2])
<1>1. /\ pc = "decide" /\ OnlyOtherChanged
      /\ out' = out \o x
      /\ old_lineno' = theirs[1] /\ other_lineno' = theirs[2]
      /\ new_lineno' = new_lineno + OtherChangedLines
      /\ pc' = "scan" /\ UNCHANGED args
      /\ old' = old /\ other' = other /\ new' = new
  BY DEF TakeOther, args
<1>2. MergeTypes
  BY DEF MergeInv
<1>3. theirs[1] \in old_lineno..(Len(old) + 1) /\ theirs[2] \in other_lineno..(Len(other) + 1)
  BY <1>1, <1>2, Ranges
<1>4. /\ OtherChangedLines \in Nat
      /\ Equal(old, new, old_lineno, new_lineno, OtherChangedLines)
      /\ new_lineno + OtherChangedLines <= Len(new) + 1
  <2>1. OtherChangedLines \in Int
    <3>1. /\ old_lineno \in Int /\ 1 <= old_lineno /\ Len(old) + 1 \in Int
          /\ other_lineno \in Int
      BY <1>2, Lengths
    <3>2. theirs[1] \in Int
      BY <1>3, <3>1, Later
    <3>3. QED
      BY <3>1, <3>2 DEF OtherChangedLines
  <2>2. Match(old, new, old_lineno, new_lineno, OtherChangedLines) = OtherChangedLines
    BY <1>1 DEF OnlyOtherChanged
  <2>3. QED
    BY <1>2, <2>1, <2>2, MatchedLines DEF MergeTypes
<1>5. x \in Seq(Int) /\ out \in Seq(Int)
  BY <1>2, <1>3, ChangedIs DEF MergeTypes
<1>6. MergeTypes'
  <2>1. out' \in Seq(Int)
    <3> HIDE DEF x
    <3> QED BY <1>1, <1>5
  <2>2. theirs[1] \in 1..(Len(old) + 1) /\ theirs[2] \in 1..(Len(other) + 1)
    BY <1>2, <1>3, Lengths, Later
  <2>3. new_lineno + OtherChangedLines \in 1..(Len(new) + 1)
    BY <1>2, <1>4, Lengths
  <2>4. QED
    BY <1>1, <1>2, <2>1, <2>2, <2>3 DEF MergeTypes
<1>7. ASSUME NEW line \in Added PROVE KeptUpTo(line)'
  <2>1. line \notin LinesOf(old) /\ CountUpTo(new, line, new_lineno - 1) \in Nat
    BY <1>7, KeptSoFar
  <2>3. CountUpTo(new, line, new_lineno' - 1) = CountUpTo(new, line, new_lineno - 1)
    <3>1. new_lineno' = new_lineno + OtherChangedLines
      BY <1>1
    <3>2. QED
      BY <1>4, <1>7, <3>1, PassesNone
  <2>4. /\ Count(x, line) \in Nat
        /\ Count(x, line) = CountUpTo(other, line, theirs[2] - 1) - CountUpTo(other, line, other_lineno - 1)
    BY <1>2, <1>3, ChangedIs
  <2>5. CountUpTo(other, line, other_lineno' - 1) = CountUpTo(other, line, theirs[2] - 1)
    BY <1>1
  <2>6. other_lineno' \in Int /\ new_lineno' \in Int
    <3>1. new_lineno \in Int /\ new_lineno' = new_lineno + OtherChangedLines /\ other_lineno' = theirs[2]
      BY <1>1, <1>2, Lengths
    <3>2. theirs[2] \in Int
      BY <1>2, <1>3, Lengths, Later
    <3>3. OtherChangedLines \in Int
      BY <1>4
    <3>4. QED
      BY <3>1, <3>2, <3>3
  <2> HIDE DEF x
  <2>7. /\ Count(x, line) >= CountUpTo(new, line, new_lineno' - 1)
                              - CountUpTo(new, line, new_lineno - 1)
        /\ Count(x, line) >= CountUpTo(other, line, other_lineno' - 1)
                              - CountUpTo(other, line, other_lineno - 1)
    <3>1. CountUpTo(new, line, new_lineno' - 1)
            - CountUpTo(new, line, new_lineno - 1) = 0
      BY <2>1, <2>3
    <3>2. CountUpTo(other, line, other_lineno' - 1)
            - CountUpTo(other, line, other_lineno - 1) = Count(x, line)
      BY <2>4, <2>5
    <3>3. QED
      BY <2>4, <3>1, <3>2
  <2>8. QED
    BY <1>1, <1>5, <1>7, <2>6, <2>7, KeptOn
<1>8. QED
  BY <1>1, <1>6, <1>7, GoesOn DEF MergeInv

\* A conflict shows both sides.
LEMMA ConflictCounts ==
    ASSUME NEW x \in Seq(Int), NEW y \in Seq(Int), NEW line
    PROVE  /\ Conflicting(x, y) \in Seq(Int)
           /\ Count(Conflicting(x, y), line) \in Nat
           /\ Count(Conflicting(x, y), line) >= Count(x, line)
           /\ Count(Conflicting(x, y), line) >= Count(y, line)
<1> DEFINE l == <<Left>>
           m == <<Middle>>
           r == <<Right>>
<1>1. l \in Seq(Int) /\ m \in Seq(Int) /\ r \in Seq(Int)
  BY DEF Left, Middle, Right
<1>2. Conflicting(x, y) = l \o x \o m \o y \o r
  BY DEF Conflicting
<1> HIDE DEF l, m, r
<1>3. ASSUME NEW s \in Seq(Int), NEW t \in Seq(Int)
      PROVE  /\ s \o t \in Seq(Int)
             /\ Count(s, line) \in Nat /\ Count(t, line) \in Nat
             /\ Count(s \o t, line) = Count(s, line) + Count(t, line)
  <2>1. Len(s) \in Int /\ Len(t) \in Int
    OBVIOUS
  <2>2. QED
    BY <2>1, CountAdds, CountIsNat DEF Count
<1> DEFINE a == l \o x
           b == a \o m
           c == b \o y
           d == c \o r
<1>4. a \in Seq(Int) /\ Count(a, line) = Count(l, line) + Count(x, line)
      /\ Count(l, line) \in Nat /\ Count(x, line) \in Nat
  BY <1>1, <1>3
<1> HIDE DEF a
<1>5. b \in Seq(Int) /\ Count(b, line) = Count(a, line) + Count(m, line)
      /\ Count(m, line) \in Nat
  BY <1>1, <1>3, <1>4
<1> HIDE DEF b
<1>6. c \in Seq(Int) /\ Count(c, line) = Count(b, line) + Count(y, line)
      /\ Count(y, line) \in Nat
  BY <1>3, <1>5
<1> HIDE DEF c
<1>7. d \in Seq(Int) /\ Count(d, line) = Count(c, line) + Count(r, line)
      /\ Count(r, line) \in Nat
  BY <1>1, <1>3, <1>6
<1>8. Conflicting(x, y) = d
  BY <1>2 DEF a, b, c, d
<1> HIDE DEF d
<1>9. Count(d, line) \in Nat /\ Count(d, line) >= Count(x, line) /\ Count(d, line) >= Count(y, line)
  BY <1>4, <1>5, <1>6, <1>7
<1>10. QED
  BY <1>7, <1>8, <1>9

LEMMA YieldConflictKeeps ==
    ASSUME MergeInv, NEW p \in old_lineno..(Len(old) + 1),
           NEW q \in other_lineno..(Len(other) + 1), NEW r \in new_lineno..(Len(new) + 1),
           YieldConflict(p, q, r)
    PROVE  MergeInv'
<1> DEFINE x == Changed(other, other_lineno, q)
           y == Changed(new, new_lineno, r)
           z == Conflicting(x, y)
<1>1. /\ out' = out \o z
      /\ old_lineno' = p /\ other_lineno' = q /\ new_lineno' = r
      /\ pc' = "scan" /\ UNCHANGED args
      /\ old' = old /\ other' = other /\ new' = new
  BY DEF YieldConflict, args
<1>2. MergeTypes
  BY DEF MergeInv
<1>3. x \in Seq(Int) /\ y \in Seq(Int)
  BY <1>2, ChangedIs
<1>4. z \in Seq(Int) /\ out \in Seq(Int)
  <2> HIDE DEF x, y
  <2> QED BY <1>2, <1>3, ConflictCounts DEF MergeTypes
<1>5. MergeTypes'
  <2>1. out' \in Seq(Int)
    <3> HIDE DEF z
    <3> QED BY <1>1, <1>4
  <2>2. p \in 1..(Len(old) + 1) /\ q \in 1..(Len(other) + 1) /\ r \in 1..(Len(new) + 1)
    BY <1>2, Lengths, Later
  <2>3. QED
    BY <1>1, <1>2, <2>1, <2>2 DEF MergeTypes
<1>6. ASSUME NEW line \in Added PROVE KeptUpTo(line)'
  <2>1. /\ Count(x, line) = CountUpTo(other, line, q - 1) - CountUpTo(other, line, other_lineno - 1)
        /\ Count(y, line) = CountUpTo(new, line, r - 1) - CountUpTo(new, line, new_lineno - 1)
    BY <1>2, ChangedIs
  <2>2. Count(z, line) >= Count(x, line) /\ Count(z, line) >= Count(y, line)
    <3> HIDE DEF x, y
    <3> QED BY <1>3, ConflictCounts
  <2>3. /\ CountUpTo(other, line, other_lineno' - 1) = CountUpTo(other, line, q - 1)
        /\ CountUpTo(new, line, new_lineno' - 1) = CountUpTo(new, line, r - 1)
    BY <1>1
  <2>4. other_lineno' \in Int /\ new_lineno' \in Int
    BY <1>1
  <2> HIDE DEF x, y, z
  <2>5. /\ Count(z, line) >= CountUpTo(other, line, other_lineno' - 1)
                              - CountUpTo(other, line, other_lineno - 1)
        /\ Count(z, line) >= CountUpTo(new, line, new_lineno' - 1)
                              - CountUpTo(new, line, new_lineno - 1)
    BY <2>1, <2>2, <2>3
  <2>6. QED
    BY <1>1, <1>4, <1>6, <2>4, <2>5, KeptOn
<1>7. QED
  BY <1>1, <1>5, <1>6, GoesOn DEF MergeInv

LEMMA TripleNewKeeps == ASSUME MergeInv, TripleNew PROVE MergeInv'
<1> DEFINE n == Match(old, other, theirs[1], theirs[2], Ahead)
<1>1. MergeTypes /\ pc = "triple"
  BY DEF MergeInv, TripleNew
<1>2. /\ theirs[1] \in old_lineno..(Len(old) + 1) /\ theirs[2] \in other_lineno..(Len(other) + 1)
      /\ mine[1] \in old_lineno..(Len(old) + 1) /\ mine[2] \in new_lineno..(Len(new) + 1)
  BY <1>1, Ranges
<1>3. /\ old \in Seq(Nat) /\ other \in Seq(Nat) /\ Ahead \in Int
      /\ theirs[1] \in 1..(Len(old) + 1) /\ theirs[2] \in 1..(Len(other) + 1)
      /\ theirs[1] \in Int /\ theirs[2] \in Int
  <2>1. old \in Seq(Nat) /\ other \in Seq(Nat) /\ Ahead \in Int
    BY <1>1 DEF MergeTypes, Ahead
  <2>2. /\ theirs[1] \in 1..(Len(old) + 1) /\ theirs[2] \in 1..(Len(other) + 1)
        /\ theirs[1] \in Int /\ theirs[2] \in Int
    BY <1>1, <1>2, Lengths, Later
  <2>3. QED
    BY <2>1, <2>2
<1>4. n \in 0..Len(old) /\ Equal(old, other, theirs[1], theirs[2], n)
  BY <1>3, MatchIs
<1> HIDE DEF n
<1>5. n \in Nat /\ theirs[1] + n <= Len(old) + 1 /\ theirs[2] + n <= Len(other) + 1
  BY <1>4, <1>1, Lengths DEF Equal
<1>6. CASE n = Ahead
  <2>1. theirs[2] + Ahead \in other_lineno..(Len(other) + 1)
    <3>1. /\ other_lineno \in Int /\ 1 <= other_lineno /\ Len(other) + 1 \in Int
      BY <1>1, Lengths
    <3>2. theirs[2] + n \in other_lineno..(Len(other) + 1)
      BY <1>2, <1>5, <3>1, Further
    <3>3. theirs[2] + n = theirs[2] + Ahead
      BY <1>3, <1>6
    <3>4. QED
      BY <3>2, <3>3, Zenon
  <2>2. YieldConflict(mine[1], theirs[2] + Ahead, mine[2])
    BY <1>6 DEF TripleNew, n
  <2>3. QED
    BY <1>2, <2>1, <2>2, YieldConflictKeeps
<1>7. CASE n # Ahead
  <2>1. /\ theirs' = FindMatch(old, other, theirs[1] + n, theirs[2] + n)
        /\ UNCHANGED <<args, linenos, out, mine, pc>>
    BY <1>7 DEF TripleNew, n
  <2> DEFINE p == theirs[1] + n
             q == theirs[2] + n
  <2>2. p \in 1..(Len(old) + 1) /\ q \in 1..(Len(other) + 1) /\ p >= old_lineno /\ q >= other_lineno
        /\ p \in Int /\ q \in Int
    <3>1. /\ old_lineno \in Int /\ 1 <= old_lineno /\ Len(old) + 1 \in Int
          /\ other_lineno \in Int /\ 1 <= other_lineno /\ Len(other) + 1 \in Int
      BY <1>1, Lengths
    <3>2. theirs[1] + n \in 1..(Len(old) + 1) /\ theirs[1] + n \in Int /\ theirs[1] + n >= old_lineno
      BY <1>2, <1>5, <3>1, Further
    <3>3. theirs[2] + n \in 1..(Len(other) + 1) /\ theirs[2] + n \in Int /\ theirs[2] + n >= other_lineno
      BY <1>2, <1>5, <3>1, Further
    <3>4. QED
      BY <3>2, <3>3
  <2> HIDE DEF p, q
  <2>3. theirs' \in (p..(Len(old) + 1)) \X (q..(Len(other) + 1))
    <3>1. theirs' = FindMatch(old, other, p, q)
      BY <2>1 DEF p, q
    <3>2. QED
      BY <1>3, <2>2, <3>1, FindMatchIs
  <2>4. /\ p..(Len(old) + 1) \subseteq old_lineno..(Len(old) + 1)
        /\ q..(Len(other) + 1) \subseteq other_lineno..(Len(other) + 1)
    BY <1>1, <2>2, Lengths, LaterPlaces
  <2>5. theirs' \in (old_lineno..(Len(old) + 1)) \X (other_lineno..(Len(other) + 1))
    BY <2>3, <2>4
  <2>6. MergeTypes'
    BY <1>1, <2>1, <2>5 DEF MergeTypes, args, linenos
  <2>7. AddedLinesKept'
    BY <1>1, <2>1, LookingKeeps
  <2>8. QED
    BY <2>6, <2>7 DEF MergeInv
<1>8. QED
  BY <1>6, <1>7

LEMMA TripleOtherKeeps == ASSUME MergeInv, TripleOther PROVE MergeInv'
<1> DEFINE n == Match(old, new, mine[1], mine[2], -Ahead)
<1>1. MergeTypes /\ pc = "triple"
  BY DEF MergeInv, TripleOther
<1>2. /\ theirs[1] \in old_lineno..(Len(old) + 1) /\ theirs[2] \in other_lineno..(Len(other) + 1)
      /\ mine[1] \in old_lineno..(Len(old) + 1) /\ mine[2] \in new_lineno..(Len(new) + 1)
  BY <1>1, Ranges
<1>3. /\ old \in Seq(Nat) /\ new \in Seq(Nat) /\ Ahead \in Int /\ -Ahead \in Int
      /\ mine[1] \in 1..(Len(old) + 1) /\ mine[2] \in 1..(Len(new) + 1)
      /\ mine[1] \in Int /\ mine[2] \in Int
  <2>1. old \in Seq(Nat) /\ new \in Seq(Nat) /\ Ahead \in Int /\ -Ahead \in Int
    BY <1>1 DEF MergeTypes, Ahead
  <2>2. /\ mine[1] \in 1..(Len(old) + 1) /\ mine[2] \in 1..(Len(new) + 1)
        /\ mine[1] \in Int /\ mine[2] \in Int
    BY <1>1, <1>2, Lengths, Later
  <2>3. QED
    BY <2>1, <2>2
<1>4. n \in 0..Len(old) /\ Equal(old, new, mine[1], mine[2], n)
  BY <1>3, MatchIs
<1> HIDE DEF n
<1>5. n \in Nat /\ mine[1] + n <= Len(old) + 1 /\ mine[2] + n <= Len(new) + 1
  BY <1>4, <1>1, Lengths DEF Equal
<1>6. CASE n = -Ahead
  <2>1. mine[2] - Ahead \in new_lineno..(Len(new) + 1)
    <3>1. /\ new_lineno \in Int /\ 1 <= new_lineno /\ Len(new) + 1 \in Int
      BY <1>1, Lengths
    <3>2. mine[2] + n \in new_lineno..(Len(new) + 1)
      BY <1>2, <1>5, <3>1, Further
    <3>3. mine[2] + n = mine[2] - Ahead
      BY <1>3, <1>6
    <3>4. QED
      BY <3>2, <3>3, Zenon
  <2>2. YieldConflict(theirs[1], theirs[2], mine[2] - Ahead)
    BY <1>6 DEF TripleOther, n
  <2>3. QED
    BY <1>2, <2>1, <2>2, YieldConflictKeeps
<1>7. CASE n # -Ahead
  <2>1. /\ mine' = FindMatch(old, new, mine[1] + n, mine[2] + n)
        /\ UNCHANGED <<args, linenos, out, theirs, pc>>
    BY <1>7 DEF TripleOther, n
  <2> DEFINE p == mine[1] + n
             q == mine[2] + n
  <2>2. p \in 1..(Len(old) + 1) /\ q \in 1..(Len(new) + 1) /\ p >= old_lineno /\ q >= new_lineno
        /\ p \in Int /\ q \in Int
    <3>1. /\ old_lineno \in Int /\ 1 <= old_lineno /\ Len(old) + 1 \in Int
          /\ new_lineno \in Int /\ 1 <= new_lineno /\ Len(new) + 1 \in Int
      BY <1>1, Lengths
    <3>2. mine[1] + n \in 1..(Len(old) + 1) /\ mine[1] + n \in Int /\ mine[1] + n >= old_lineno
      BY <1>2, <1>5, <3>1, Further
    <3>3. mine[2] + n \in 1..(Len(new) + 1) /\ mine[2] + n \in Int /\ mine[2] + n >= new_lineno
      BY <1>2, <1>5, <3>1, Further
    <3>4. QED
      BY <3>2, <3>3
  <2> HIDE DEF p, q
  <2>3. mine' \in (p..(Len(old) + 1)) \X (q..(Len(new) + 1))
    <3>1. mine' = FindMatch(old, new, p, q)
      BY <2>1 DEF p, q
    <3>2. QED
      BY <1>3, <2>2, <3>1, FindMatchIs
  <2>4. /\ p..(Len(old) + 1) \subseteq old_lineno..(Len(old) + 1)
        /\ q..(Len(new) + 1) \subseteq new_lineno..(Len(new) + 1)
    BY <1>1, <2>2, Lengths, LaterPlaces
  <2>5. mine' \in (old_lineno..(Len(old) + 1)) \X (new_lineno..(Len(new) + 1))
    BY <2>3, <2>4
  <2>6. MergeTypes'
    BY <1>1, <2>1, <2>5 DEF MergeTypes, args, linenos
  <2>7. AddedLinesKept'
    BY <1>1, <2>1, LookingKeeps
  <2>8. QED
    BY <2>6, <2>7 DEF MergeInv
<1>8. QED
  BY <1>6, <1>7

LEMMA TripleBothKeeps == ASSUME MergeInv, TripleBoth PROVE MergeInv'
<1>1. MergeTypes /\ pc = "triple" /\ YieldConflict(mine[1], theirs[2], mine[2])
  BY DEF MergeInv, TripleBoth
<1>2. QED
  BY <1>1, Ranges, YieldConflictKeeps

LEMMA RestIsText == ASSUME MergeTypes PROVE Rest \in Seq(Int)
<1> DEFINE x == Changed(other, other_lineno, Len(other) + 1)
           y == Changed(new, new_lineno, Len(new) + 1)
<1>1. Len(other) + 1 \in other_lineno..(Len(other) + 1) /\ Len(new) + 1 \in new_lineno..(Len(new) + 1)
  BY Lengths
<1>2. x \in Seq(Int) /\ y \in Seq(Int)
  BY <1>1, ChangedIs
<1> HIDE DEF x, y
<1>3. Conflicting(x, y) \in Seq(Int) /\ <<>> \in Seq(Int)
  BY <1>2, ConflictCounts
<1>4. Rest \in {<<>>, x, y, Conflicting(x, y)}
  BY DEF Rest, x, y
<1>5. QED
  BY <1>2, <1>3, <1>4

\* What is yielded last makes both texts complete.
LEMMA RestIsKept ==
    ASSUME MergeInv, NEW line \in Added, pc = "scan", ~Scanning
    PROVE  /\ Rest \in Seq(Int)
           /\ Count(out, line) + Count(Rest, line) >= Count(other, line)
           /\ Count(out, line) + Count(Rest, line) >= Count(new, line)
<1> DEFINE restOther == Changed(other, other_lineno, Len(other) + 1)
           restNew == Changed(new, new_lineno, Len(new) + 1)
           both == Conflicting(restOther, restNew)
<1>1. MergeTypes
  BY DEF MergeInv
<1>2. /\ Len(other) \in Nat /\ Len(new) \in Nat
      /\ Len(other) + 1 \in other_lineno..(Len(other) + 1)
      /\ Len(new) + 1 \in new_lineno..(Len(new) + 1)
      /\ Len(other) + 1 - 1 = Len(other) /\ Len(new) + 1 - 1 = Len(new)
  BY <1>1, Lengths
<1>3. /\ restOther \in Seq(Int) /\ restNew \in Seq(Int)
      /\ Count(restOther, line) \in Nat /\ Count(restNew, line) \in Nat
      /\ Count(restOther, line) = CountUpTo(other, line, Len(other) + 1 - 1) - CountUpTo(other, line, other_lineno - 1)
      /\ Count(restNew, line) = CountUpTo(new, line, Len(new) + 1 - 1) - CountUpTo(new, line, new_lineno - 1)
  <2> DEFINE q == Len(other) + 1
             r == Len(new) + 1
  <2>1. q \in other_lineno..(Len(other) + 1) /\ r \in new_lineno..(Len(new) + 1)
    BY <1>2
  <2> HIDE DEF q, r
  <2>2. /\ Changed(other, other_lineno, q) \in Seq(Int)
        /\ Count(Changed(other, other_lineno, q), line) \in Nat
        /\ Count(Changed(other, other_lineno, q), line)
              = CountUpTo(other, line, q - 1) - CountUpTo(other, line, other_lineno - 1)
    BY <1>1, <2>1, ChangedIs
  <2>3. /\ Changed(new, new_lineno, r) \in Seq(Int)
        /\ Count(Changed(new, new_lineno, r), line) \in Nat
        /\ Count(Changed(new, new_lineno, r), line)
              = CountUpTo(new, line, r - 1) - CountUpTo(new, line, new_lineno - 1)
    BY <1>1, <2>1, ChangedIs
  <2>4. QED
    BY <2>2, <2>3 DEF q, r
<1>4. /\ CountUpTo(other, line, Len(other) + 1 - 1) = Count(other, line)
      /\ CountUpTo(new, line, Len(new) + 1 - 1) = Count(new, line)
  BY <1>2 DEF Count
<1>5. /\ Count(out, line) >= CountUpTo(other, line, other_lineno - 1)
      /\ Count(out, line) >= CountUpTo(new, line, new_lineno - 1)
      /\ Count(out, line) \in Nat
      /\ CountUpTo(other, line, other_lineno - 1) \in Nat
      /\ CountUpTo(new, line, new_lineno - 1) \in Nat
  BY KeptSoFar DEF KeptUpTo
<1>6. Count(other, line) \in Nat /\ Count(new, line) \in Nat
  BY <1>2, CountIsNat DEF Count
<1> HIDE DEF restOther, restNew
<1>7. /\ both \in Seq(Int) /\ Count(both, line) \in Nat
      /\ Count(both, line) >= Count(restOther, line) /\ Count(both, line) >= Count(restNew, line)
  BY <1>3, ConflictCounts
<1>8. <<>> \in Seq(Int) /\ Count(<<>>, line) \in Nat
  BY CountIsNat DEF Count
<1> HIDE DEF both
<1>9. other_lineno > Len(other) => Count(out, line) >= Count(other, line)
  <2>1. SUFFICES ASSUME other_lineno > Len(other) PROVE Count(out, line) >= Count(other, line)
    OBVIOUS
  <2>2. other_lineno - 1 = Len(other)
    BY <1>1, <2>1, Lengths
  <2>3. CountUpTo(other, line, other_lineno - 1) = Count(other, line)
    BY <2>2 DEF Count
  <2>4. QED
    BY <1>5, <2>3
<1>10. new_lineno > Len(new) => Count(out, line) >= Count(new, line)
  <2>1. SUFFICES ASSUME new_lineno > Len(new) PROVE Count(out, line) >= Count(new, line)
    OBVIOUS
  <2>2. new_lineno - 1 = Len(new)
    BY <1>1, <2>1, Lengths
  <2>3. CountUpTo(new, line, new_lineno - 1) = Count(new, line)
    BY <2>2 DEF Count
  <2>4. QED
    BY <1>5, <2>3
<1> DEFINE Complete(r) == /\ r \in Seq(Int)
                          /\ Count(out, line) + Count(r, line) >= Count(other, line)
                          /\ Count(out, line) + Count(r, line) >= Count(new, line)
           ended == other_lineno > Len(other) /\ new_lineno > Len(new)
<1>11. ended => Complete(<<>>)
  BY <1>5, <1>6, <1>8, <1>9, <1>10
<1>12. Count(out, line) + Count(restOther, line) >= Count(other, line)
       /\ Count(out, line) + Count(restNew, line) >= Count(new, line)
  BY <1>3, <1>4, <1>5, <1>6
<1>13. other_lineno > Len(other) => Complete(restNew)
  BY <1>3, <1>5, <1>6, <1>9, <1>12, NoLess
<1>14. new_lineno > Len(new) => Complete(restOther)
  BY <1>3, <1>5, <1>6, <1>10, <1>12, NoLess
<1>15. new = other => Complete(restNew)
  BY <1>3, <1>12
<1>16. Complete(both)
  <2>1. \A a \in Nat : \A b \in Nat : \A c \in Nat : \A d \in Nat :
          a + b >= d /\ c >= b => a + c >= d
    OBVIOUS
  <2>2. /\ Count(out, line) + Count(both, line) >= Count(other, line)
        /\ Count(out, line) + Count(both, line) >= Count(new, line)
    BY <1>3, <1>5, <1>6, <1>7, <1>12, <2>1
  <2>3. QED
    BY <1>7, <2>2
<1> HIDE DEF Complete
<1>17. \/ Rest = <<>> /\ ended
       \/ Rest = restNew /\ other_lineno > Len(other)
       \/ Rest = restOther /\ new_lineno > Len(new)
       \/ Rest = restNew /\ new = other
       \/ Rest = both
  BY DEF Rest, restOther, restNew, both
<1>18. Complete(Rest)
  BY <1>11, <1>13, <1>14, <1>15, <1>16, <1>17
<1>19. QED
  BY <1>18 DEF Complete

LEMMA FinishKeeps == ASSUME MergeInv, Finish PROVE MergeInv'
<1>1. /\ pc = "scan" /\ ~Scanning /\ out' = out \o Rest /\ pc' = "done"
      /\ UNCHANGED <<args, linenos>>
  BY DEF Finish
<1>2. MergeTypes /\ out \in Seq(Int)
  BY DEF MergeInv, MergeTypes
<1>3. ASSUME NEW line \in Added
      PROVE  /\ KeptUpTo(line)'
             /\ Count(out', line) >= Count(other, line) /\ Count(out', line) >= Count(new, line)
  <2>1. /\ Rest \in Seq(Int)
        /\ Count(out, line) + Count(Rest, line) >= Count(other, line)
        /\ Count(out, line) + Count(Rest, line) >= Count(new, line)
    BY <1>1, <1>3, RestIsKept
  <2>2. Count(out', line) = Count(out, line) + Count(Rest, line)
    BY <1>1, <1>2, <2>1, CountAdds
  <2>3. /\ KeptUpTo(line) /\ Count(out, line) \in Nat
        /\ CountUpTo(other, line, other_lineno - 1) \in Nat
        /\ CountUpTo(new, line, new_lineno - 1) \in Nat
    BY <1>3, KeptSoFar
  <2>4. Count(Rest, line) \in Nat
    BY <2>1, CountIsNat, Len(Rest) \in Int DEF Count
  <2>5. /\ Count(out', line) >= CountUpTo(other, line, other_lineno - 1)
        /\ Count(out', line) >= CountUpTo(new, line, new_lineno - 1)
    BY <2>2, <2>3, <2>4 DEF KeptUpTo
  <2>6. other_lineno' = other_lineno /\ new_lineno' = new_lineno
    BY <1>1 DEF linenos
  <2>7. KeptUpTo(line)'
    BY <1>1, <2>5, <2>6, KeptAgain
  <2>8. QED
    BY <2>1, <2>2, <2>7
<1>4. AddedLinesKept'
  <2>1. other' = other /\ new' = new /\ Added' = Added
    BY <1>1 DEF args, Added, LinesOf
  <2>2. \A line \in Added : Count(out, line)' = Count(out', line)
                            /\ Count(other, line)' = Count(other, line)
                            /\ Count(new, line)' = Count(new, line)
    BY <2>1 DEF Count, CountUpTo
  <2>3. QED
    BY <1>3, <2>1, <2>2 DEF AddedLinesKept, KeptUpTo, Added
<1>5. out' \in Seq(Int)
  BY <1>1, <1>2, RestIsText
<1>6. MergeTypes'
  BY <1>1, <1>2, <1>5 DEF MergeTypes, args, linenos
<1>7. QED
  BY <1>4, <1>6 DEF MergeInv

LEMMA MergeStepKeeps == MergeInv /\ [MergeNext]_mergeVars => MergeInv'
<1> SUFFICES ASSUME MergeInv, [MergeNext]_mergeVars PROVE MergeInv'
  OBVIOUS
<1>1. CASE UNCHANGED mergeVars
  <2>1. /\ old' = old /\ other' = other /\ new' = new /\ out' = out
        /\ old_lineno' = old_lineno /\ other_lineno' = other_lineno /\ new_lineno' = new_lineno
        /\ theirs' = theirs /\ mine' = mine /\ pc' = pc
    BY <1>1 DEF mergeVars, args, linenos
  <2>2. MergeTypes'
    BY <2>1 DEF MergeInv, MergeTypes
  <2>3. AddedLinesKept' = AddedLinesKept
    BY <2>1 DEF AddedLinesKept, Count, CountUpTo, LinesOf, Done
  <2>4. QED
    BY <2>2, <2>3 DEF MergeInv
<1>2. CASE MergeNext
  BY <1>2, KeepLineKeeps, FindMatchesKeeps, TakeNewKeeps, TakeOtherKeeps, FindConflictKeeps,
     TripleNewKeeps, TripleOtherKeeps, TripleBothKeeps, FinishKeeps DEF MergeNext
<1>3. QED
  BY <1>1, <1>2

\* At every step of a merge the positions are places of the texts, and what has been
\* yielded holds every added line as often as the texts do up to their positions.
THEOREM MergeInvariant == ASSUME Diff3Assumption PROVE MergeSpec => []MergeInv
<1>1. MergeInit => MergeInv
  BY MergeInitKeeps
<1>2. MergeInv /\ [MergeNext]_mergeVars => MergeInv'
  BY MergeStepKeeps
<1>3. QED
  BY <1>1, <1>2, PTL DEF MergeSpec

\* No line that a user has added is lost by the merge of an edit, as often as he has it,
\* for any three texts: neither by a conflict nor where the merge counts lines wrongly.
THEOREM AddedLinesKeptHolds == ASSUME Diff3Assumption PROVE MergeSpec => []AddedLinesKept
<1>1. MergeInv => AddedLinesKept
  BY DEF MergeInv
<1>2. QED
  BY <1>1, MergeInvariant, PTL

=============================================================================
