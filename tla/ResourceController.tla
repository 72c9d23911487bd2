------------------------- MODULE ResourceController -------------------------
(***************************************************************************)
(* WdtResourceController and its WdtNamespaceControllers: the senders and  *)
(* receivers of a process, by namespace and identifier, their number, and  *)
(* the limits on it.  The controller and each namespace have a lock of     *)
(* their own and an operation takes first one and then the other, so that  *)
(* the calls of several clients interleave in between.                     *)
(***************************************************************************)
EXTENDS Integers, FiniteSets

CONSTANTS
    Clients,            \* threads that call the controller
    Kinds,              \* subset of {"sender", "receiver"}
    Namespaces, Keys,
    Limits,             \* values updateMaxSendersLimit is called with
    GlobalLimit, NamespaceLimit,    \* what it is set to first, by kind
    Strict,             \* strictRegistration_
    Operations,         \* the operations that are called
    MaxControllers, MaxObjects      \* bounds

VARIABLES
    namespaceMap,   \* namespaceMap_: a controller or 0 for each namespace
    ctl,            \* the namespace controllers that were made
    num,            \* numSenders_ and numReceivers_ of the controller
    maxNum,         \* maxNumSenders_ and maxNumReceivers_
    objects,        \* the senders and receivers that were made: their status
    call,           \* the call each client is in
    down            \* shutdown was called

rcVars == <<namespaceMap, ctl, num, maxNum, objects, call, down>>

-----------------------------------------------------------------------------
NoCall == [step |-> "idle", op |-> "none", kind |-> "none", ns |-> "none",
           key |-> "none", c |-> 0, n |-> [k \in Kinds |-> 0], obj |-> 0,
           code |-> "OK"]

Nothing == [k \in Kinds |-> 0]
One(kind) == [k \in Kinds |-> IF k = kind THEN 1 ELSE 0]

NewController(ns) ==
    [ns |-> ns, map |-> [k \in Kinds |-> [x \in {} |-> 0]], num |-> Nothing,
     maxNum |-> NamespaceLimit]

Controllers == DOMAIN ctl
InUse == {namespaceMap[ns] : ns \in Namespaces} \ {0}
Held(c, kind) == DOMAIN ctl[c].map[kind]

InitController ==
    /\ namespaceMap = [ns \in Namespaces |-> 0]
    /\ ctl = <<>>
    /\ num = Nothing
    /\ maxNum = GlobalLimit
    /\ objects = <<>>
    /\ call = [p \in Clients |-> NoCall]
    /\ down = FALSE

Idle(p) == call[p].step = "idle"
CallIs(p, r) == call' = [call EXCEPT ![p] = r]
ReturnsObject(p, code, o) ==
    CallIs(p, [NoCall EXCEPT !.step = "returned", !.code = code, !.obj = o])
Returns(p, code) == ReturnsObject(p, code, 0)

(* A limit of zero or less is none. *)
HasQuota(count, limit) == ~(count >= limit /\ limit > 0)

-----------------------------------------------------------------------------
(* createSender and createReceiver *)

(* createNamespaceController *)
WithNamespace(ns) ==
    IF namespaceMap[ns] # 0
    THEN [map |-> namespaceMap, ctl |-> ctl, c |-> namespaceMap[ns]]
    ELSE LET c == Cardinality(Controllers) + 1
         IN  [map |-> [namespaceMap EXCEPT ![ns] = c],
              ctl |-> [i \in Controllers \cup {c} |->
                          IF i \in Controllers THEN ctl[i] ELSE NewController(ns)],
              c |-> c]

(* Objects in the bound: the ones made and the ones being made. *)
MayMake ==
    Cardinality(DOMAIN objects) + Cardinality({p \in Clients : call[p].step = "create"})
        < MaxObjects

MayGrow(ns) == namespaceMap[ns] # 0 \/ Cardinality(Controllers) < MaxControllers

(* hasSenderQuotaInternal: both limits. *)
QuotaInternal(all, c, kind) ==
    /\ HasQuota(num[kind], maxNum[kind])
    /\ HasQuota(all[c].num[kind], all[c].maxNum[kind])

(* Under the lock of the controller: the count goes up before there is a   *)
(* sender.                                                                 *)
BeginCreate(p, kind, ns, key) ==
    LET r == [NoCall EXCEPT !.op = "create", !.kind = kind, !.ns = ns, !.key = key]
        w == WithNamespace(ns)
    IN  /\ Idle(p) /\ ~down
        /\ MayMake
        /\ \/ /\ Strict /\ namespaceMap[ns] = 0
              /\ Returns(p, "NOT_FOUND")
              /\ UNCHANGED <<namespaceMap, ctl, num>>
           \/ /\ ~Strict \/ namespaceMap[ns] # 0
              /\ MayGrow(ns)
              /\ namespaceMap' = w.map /\ ctl' = w.ctl
              /\ IF QuotaInternal(w.ctl, w.c, kind)
                 THEN /\ num' = [num EXCEPT ![kind] = @ + 1]
                      /\ CallIs(p, [r EXCEPT !.step = "create", !.c = w.c])
                 ELSE /\ Returns(p, "QUOTA_EXCEEDED")
                      /\ UNCHANGED num
        /\ UNCHANGED <<maxNum, objects, down>>

(* Under the lock of the namespace. *)
NamespaceCreate(p) ==
    LET r == call[p]
        c == r.c
        o == Cardinality(DOMAIN objects) + 1
        known == r.key \in Held(c, r.kind)
        undo == [r EXCEPT !.step = "uncount", !.n = One(r.kind)]
    IN  /\ r.step = "create"
        /\ \/ /\ known
              /\ CallIs(p, [undo EXCEPT !.code = "ALREADY_EXISTS",
                                        !.obj = ctl[c].map[r.kind][r.key]])
              /\ UNCHANGED <<ctl, objects>>
           \/ /\ ~known /\ ~HasQuota(ctl[c].num[r.kind], ctl[c].maxNum[r.kind])
              /\ CallIs(p, [undo EXCEPT !.code = "QUOTA_EXCEEDED"])
              /\ UNCHANGED <<ctl, objects>>
           \/ /\ ~known /\ HasQuota(ctl[c].num[r.kind], ctl[c].maxNum[r.kind])
              /\ ctl' = [ctl EXCEPT
                    ![c].map[r.kind] = [x \in DOMAIN @ \cup {r.key} |->
                                           IF x = r.key THEN o ELSE @[x]],
                    ![c].num[r.kind] = @ + 1]
              /\ objects' = [i \in DOMAIN objects \cup {o} |->
                                IF i = o THEN "new" ELSE objects[i]]
              /\ ReturnsObject(p, "OK", o)
        /\ UNCHANGED <<namespaceMap, num, maxNum, down>>

(* The last step of all operations: the count goes down. *)
Uncount_Skipped(p) ==
    /\ call[p].step = "uncount"
    /\ IF call[p].op = "deRegister" THEN CallIs(p, [call[p] EXCEPT !.step = "wait"])
                                    ELSE ReturnsObject(p, call[p].code, call[p].obj)
    /\ UNCHANGED <<namespaceMap, ctl, num, maxNum, objects, down>>

Uncount(p) ==
    /\ call[p].step = "uncount"
    /\ num' = [k \in Kinds |-> num[k] - call[p].n[k]]
    /\ IF call[p].op = "deRegister" THEN CallIs(p, [call[p] EXCEPT !.step = "wait"])
                                    ELSE ReturnsObject(p, call[p].code, call[p].obj)
    /\ UNCHANGED <<namespaceMap, ctl, maxNum, objects, down>>

-----------------------------------------------------------------------------
(* releaseSender, releaseAllSenders, releaseStaleSenders and their twins *)

BeginRelease(p, op, kind, ns, key) ==
    LET r == [NoCall EXCEPT !.op = op, !.kind = kind, !.ns = ns, !.key = key]
    IN  /\ Idle(p) /\ ~down
        /\ IF namespaceMap[ns] = 0
           THEN Returns(p, "ERROR")
           ELSE CallIs(p, [r EXCEPT !.step = "release", !.c = namespaceMap[ns]])
        /\ UNCHANGED <<namespaceMap, ctl, num, maxNum, objects, down>>

(* isStale: FINISHED or THREADS_JOINED. *)
Released(r) ==
    CASE r.op = "release" -> Held(r.c, r.kind) \cap {r.key}
      [] r.op = "releaseAll" -> Held(r.c, r.kind)
      [] OTHER -> {key \in Held(r.c, r.kind) :
                      objects[ctl[r.c].map[r.kind][key]] = "done"}

NumAfterRelease(r) ==
    IF r.op = "releaseAll" THEN 0
    ELSE ctl[r.c].num[r.kind] - Cardinality(Released(r))

NamespaceRelease(p) ==
    LET r == call[p]
        gone == Released(r)
    IN  /\ r.step = "release"
        /\ ctl' = [ctl EXCEPT
               ![r.c].map[r.kind] = [x \in DOMAIN @ \ gone |-> @[x]],
               ![r.c].num[r.kind] = NumAfterRelease(r)]
        /\ \/ /\ gone # {}
              /\ CallIs(p, [r EXCEPT !.step = "uncount",
                                     !.n[r.kind] = Cardinality(gone)])
           \/ /\ gone = {}
              /\ Returns(p, IF r.op = "release" THEN "ERROR" ELSE "OK")
        /\ UNCHANGED <<namespaceMap, num, maxNum, objects, down>>

-----------------------------------------------------------------------------
(* Namespaces *)

RegisterWdtNamespace(ns) ==
    /\ ~down /\ "register" \in Operations /\ MayGrow(ns)
    /\ namespaceMap' = WithNamespace(ns).map
    /\ ctl' = WithNamespace(ns).ctl
    /\ UNCHANGED <<num, maxNum, objects, call, down>>

BeginDeRegister(p, ns) ==
    LET r == [NoCall EXCEPT !.op = "deRegister", !.ns = ns]
    IN  /\ Idle(p) /\ ~down
        /\ IF namespaceMap[ns] = 0
           THEN Returns(p, "ERROR") /\ UNCHANGED namespaceMap
           ELSE /\ CallIs(p, [r EXCEPT !.step = "empty", !.c = namespaceMap[ns]])
                /\ namespaceMap' = [namespaceMap EXCEPT ![ns] = 0]
        /\ UNCHANGED <<ctl, num, maxNum, objects, down>>

Emptied(c) == [ctl EXCEPT ![c].map = NewController(ctl[c].ns).map,
                          ![c].num = Nothing]

(* releaseAllSenders of the namespace, and then releaseAllReceivers. *)
EmptyNamespace(p) ==
    LET r == call[p]
        kind == IF r.step = "empty" THEN "sender" ELSE "receiver"
    IN  /\ r.step \in {"empty", "emptyReceivers"}
        /\ ctl' = [ctl EXCEPT ![r.c].map = [k \in Kinds |-> IF k = kind THEN <<>> ELSE @[k]],
                              ![r.c].num = [k \in Kinds |-> IF k = kind THEN 0 ELSE @[k]]]
        /\ CallIs(p, [r EXCEPT
               !.step = IF kind = "sender" THEN "emptyReceivers" ELSE "uncount",
               !.n = [k \in Kinds |-> IF k = kind THEN Cardinality(Held(r.c, k)) ELSE @[k]]])
        /\ UNCHANGED <<namespaceMap, num, maxNum, objects, down>>

(* use_count() is one: nobody else has the namespace's controller. *)
DeRegisterEnds(p) ==
    /\ call[p].step = "wait"
    /\ \A q \in Clients \ {p} : call[q].c # call[p].c
    /\ Returns(p, "OK")
    /\ UNCHANGED <<namespaceMap, ctl, num, maxNum, objects, down>>

UpdateMaxLimit(kind, limit) ==
    /\ ~down
    /\ maxNum' = [maxNum EXCEPT ![kind] = limit]
    /\ UNCHANGED <<namespaceMap, ctl, num, objects, call, down>>

UpdateNamespaceLimit(ns, kind, limit) ==
    /\ ~down /\ namespaceMap[ns] # 0
    /\ ctl' = [ctl EXCEPT ![namespaceMap[ns]].maxNum[kind] = limit]
    /\ UNCHANGED <<namespaceMap, num, maxNum, objects, call, down>>

(* When no call is in progress. *)
Shutdown ==
    /\ ~down /\ \A p \in Clients : Idle(p)
    /\ down' = TRUE
    /\ num' = [k \in Kinds |->
                 num[k] - Cardinality(UNION {{<<c, x>> : x \in Held(c, k)} : c \in InUse})]
    /\ ctl' = [c \in Controllers |->
                 IF c \in InUse THEN Emptied(c)[c] ELSE ctl[c]]
    /\ namespaceMap' = [ns \in Namespaces |-> 0]
    /\ UNCHANGED <<maxNum, objects, call>>

(* The transfers themselves: transferStatus_ of a sender or receiver. *)
Advance(o) ==
    /\ objects' = [objects EXCEPT ![o] = IF @ = "new" THEN "running" ELSE "done"]
    /\ objects[o] # "done"
    /\ UNCHANGED <<namespaceMap, ctl, num, maxNum, call, down>>

Return(p) ==
    /\ call[p].step = "returned"
    /\ CallIs(p, NoCall)
    /\ UNCHANGED <<namespaceMap, ctl, num, maxNum, objects, down>>

Inside(p) ==
    NamespaceCreate(p) \/ NamespaceRelease(p) \/ EmptyNamespace(p) \/ Uncount(p)
        \/ DeRegisterEnds(p)

-----------------------------------------------------------------------------
Begin(p) ==
    \/ \E kind \in Kinds, ns \in Namespaces, key \in Keys :
          \/ "create" \in Operations /\ BeginCreate(p, kind, ns, key)
          \/ "release" \in Operations /\ BeginRelease(p, "release", kind, ns, key)
    \/ \E kind \in Kinds, ns \in Namespaces, op \in {"releaseAll", "releaseStale"} :
          op \in Operations /\ BeginRelease(p, op, kind, ns, "none")
    \/ \E ns \in Namespaces : "deRegister" \in Operations /\ BeginDeRegister(p, ns)

Next ==
    \/ \E p \in Clients : Begin(p) \/ Inside(p) \/ Return(p)
    \/ \E ns \in Namespaces : RegisterWdtNamespace(ns)
    \/ \E kind \in Kinds, limit \in Limits :
          \/ UpdateMaxLimit(kind, limit)
          \/ \E ns \in Namespaces : UpdateNamespaceLimit(ns, kind, limit)
    \/ \E o \in DOMAIN objects : Advance(o)
    \/ Shutdown

Spec == InitController /\ [][Next]_rcVars

(* A client that is in a call goes on. *)
FairSpec == Spec /\ \A p \in Clients : WF_rcVars(Inside(p)) /\ WF_rcVars(Return(p))

-----------------------------------------------------------------------------
(* How many senders or receivers are in the maps of the namespaces, those  *)
(* that were removed included.                                             *)
InMaps(kind) == Cardinality(UNION {{<<c, x>> : x \in Held(c, kind)} : c \in Controllers})

(***************************************************************************)
(* Every sender or receiver that numSenders_ or numReceivers_ counts is in *)
(* the map of a namespace or in the hands of a call that has counted it    *)
(* before, or will uncount it after, the map changes; it is uncounted      *)
(* once, also when it is released while deRegisterWdtNamespace empties the *)
(* namespace.  What was created after the namespace was emptied stays      *)
(* counted with the namespace it is in.                                    *)
(***************************************************************************)
CountsMatch ==
    \A k \in Kinds :
        num[k] = InMaps(k)
            + Cardinality({p \in Clients : call[p].step = "create" /\ call[p].kind = k})
            + Cardinality(UNION {{<<p, i>> : i \in 1 .. call[p].n[k]} :
                            p \in {q \in Clients : call[q].step \in {"emptyReceivers", "uncount"}}})

(* deRegisterWdtNamespace waits for the calls that still use the namespace *)
(* and then returns, and so does every other call.                         *)
CallsReturn == \A p \in Clients : ~Idle(p) ~> Idle(p)
=============================================================================
