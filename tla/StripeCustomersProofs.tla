------------------------ MODULE StripeCustomersProofs ------------------------
(***************************************************************************)
(* Proofs about StripeCustomers, for any number of accounts of the name, of *)
(* Customers and of failures: the published id is final.                    *)
(***************************************************************************)
EXTENDS StripeCustomers, TLAPS

\* The initial state is well-typed and nobody holds the lock.
LEMMA InitPublished == Init => PublishedInv
<1> SUFFICES ASSUME Init PROVE PublishedInv
  OBVIOUS
<1>1. 0 \in 0 .. MaxUID /\ 1 \in UIDs /\ 1 \in 0 .. MaxUID /\ 0 \in CustomerRefs
      /\ 1 \in Customers /\ 0 \in Stamps /\ Unlisted \in Nat
  BY CustomersAssumption DEF UIDs, CustomerRefs, Customers, Stamps, Unlisted
<1>2. Idle \in CallStates /\ NoSC \in [owner : 0 .. MaxUID, customer : CustomerRefs]
  BY <1>1 DEF Idle, CallStates, PCs, NoSC
<1>3. TypeOK
  <2>1. PICK old \in {{}} \union (IF Legacy THEN {{1}} ELSE {}) :
          /\ recorded = old
          /\ seen = [account |-> 1, recorded |-> old]
          /\ madeFor = [c \in Customers |-> IF c \in old THEN 1 ELSE 0]
          /\ index = [c \in Customers |-> IF c \in old THEN 0 ELSE Unlisted]
    BY DEF Init
  <2>2. old \in SUBSET Customers
    BY <1>1
  <2>3. recorded \in SUBSET Customers
        /\ seen \in [account : 0 .. MaxUID, recorded : SUBSET Customers]
    BY <2>1, <2>2, <1>1
  <2>4. /\ madeFor \in [Customers -> 0 .. MaxUID]
        /\ index \in [Customers -> Stamps \union {Unlisted}]
    BY <2>1, <1>1
  <2>5. call \in [Callers -> CallStates]
    BY <1>2 DEF Init
  <2>6. /\ account \in 0 .. MaxUID /\ uids \in UIDs
        /\ sc \in [owner : 0 .. MaxUID, customer : CustomerRefs]
        /\ lock \in Callers \union {"free"}
        /\ stamp \in [Customers -> Stamps]
        /\ faults \in 0 .. MaxFaults /\ strayed \in SUBSET Customers
    BY <1>1, <1>2, CustomersAssumption DEF Init
  <2> QED
    BY <2>3, <2>4, <2>5, <2>6 DEF TypeOK
<1>4. \A w \in Callers : call[w] = Idle
  BY DEF Init
<1> QED
  BY <1>3, <1>4 DEF PublishedInv, HolderIsAlone, CopyIsCurrent, Holding, Idle

\* What Return leaves is well-typed.
LEMMA ReturnType ==
  ASSUME TypeOK, NEW w \in Callers, Return(w)
  PROVE  call' \in [Callers -> CallStates] /\ lock' \in Callers \union {"free"}
<1>1. Idle \in CallStates
  BY CustomersAssumption DEF Idle, CallStates, PCs, CustomerRefs
<1> QED
  BY <1>1 DEF TypeOK, Return

\* What Created and Stamped leave is well-typed.
LEMMA StripeType ==
  ASSUME TypeOK, NEW c \in Customers, NEW u \in 0 .. MaxUID
  PROVE  /\ Created(c, u) => /\ madeFor' \in [Customers -> 0 .. MaxUID]
                             /\ stamp' \in [Customers -> Stamps]
                             /\ index' \in [Customers -> Stamps \union {Unlisted}]
         /\ Stamped(c, u) => /\ madeFor' \in [Customers -> 0 .. MaxUID]
                             /\ stamp' \in [Customers -> Stamps]
                             /\ index' \in [Customers -> Stamps \union {Unlisted}]
                             /\ strayed' \in SUBSET Customers
  BY DEF TypeOK, Created, Stamped, Stamps

\* Every step keeps every variable well-typed.
LEMMA TypeStep == TypeOK /\ [Next]_vars => TypeOK'
<1> SUFFICES ASSUME TypeOK, [Next]_vars PROVE TypeOK'
  OBVIOUS
<1> USE CustomersAssumption
<1>0. /\ call \in [Callers -> CallStates]
      /\ \A c \in Customers : c \in CustomerRefs
      /\ 0 \in CustomerRefs /\ \A c \in CustomerRefs : c # 0 => c \in Customers
  BY DEF TypeOK, Customers, CustomerRefs
<1>a. \A w \in Callers : /\ call[w] \in CallStates
                         /\ call[w].uid \in 0 .. MaxUID
                         /\ call[w].copy \in CustomerRefs
                         /\ call[w].id \in CustomerRefs
  BY <1>0 DEF CallStates
<1>1. CASE DeleteAccount \/ RecreateAccount \/ CollectGarbage
  <2>1. CASE DeleteAccount
    BY <2>1 DEF TypeOK, DeleteAccount, stripeVars
  <2>2. CASE RecreateAccount
    <3>1. uids + 1 \in UIDs /\ uids + 1 \in 0 .. MaxUID
      BY <2>2 DEF RecreateAccount, TypeOK, UIDs
    <3> QED
      BY <3>1, <2>2 DEF TypeOK, RecreateAccount, stripeVars
  <2>3. CASE CollectGarbage
    BY <2>3 DEF TypeOK, CollectGarbage, stripeVars, accountVars, NoSC, CustomerRefs
  <2> QED
    BY <1>1, <2>1, <2>2, <2>3
<1>2. CASE DeleteSC
  <2>1. strayed' \in SUBSET Customers
    BY <1>2, <1>0 DEF TypeOK, DeleteSC, Unfindable
  <2> QED
    BY <2>1, <1>2 DEF TypeOK, DeleteSC, stripeVars, accountVars, NoSC, CustomerRefs
<1>3. CASE SyncAccount \/ SyncCards
  BY <1>3 DEF TypeOK, SyncAccount, SyncCards, accountVars, stripeVars
<1>4. ASSUME NEW c \in Customers, DeleteCard(c) \/ Index(c) PROVE TypeOK'
  BY <1>4 DEF TypeOK, DeleteCard, Index, accountVars, stripeVars
<1>5. CASE Crash
  <2>1. strayed' \in SUBSET Customers
    BY <1>5, <1>0, <1>a DEF TypeOK, Crash, Lost, Unfindable
  <2>2. Idle \in CallStates
    BY DEF Idle, CallStates, PCs, CustomerRefs
  <2> QED
    BY <2>1, <2>2, <1>5 DEF TypeOK, Crash, Fails, accountVars, stripeVars
<1>6. ASSUME NEW w \in Callers, Start(w) PROVE TypeOK'
  <2>1. [call[w] EXCEPT !.pc = "waiting", !.uid = seen.account] \in CallStates
    BY <1>0, <1>a DEF TypeOK, CallStates, PCs
  <2>2. call' \in [Callers -> CallStates]
    BY <2>1, <1>6, <1>0, <1>a DEF Start
  <2> QED
    BY <2>2, <1>6 DEF TypeOK, Start, accountVars, stripeVars
<1>7. ASSUME NEW w \in Callers, GetOrCreate(w) PROVE TypeOK'
  <2> DEFINE found == IF sc.owner = 0 THEN [owner |-> call[w].uid, customer |-> 0]
                      ELSE sc
  <2>1. found \in [owner : 0 .. MaxUID, customer : CustomerRefs]
    BY <1>0, <1>a DEF TypeOK
  <2>2. sc' = found
    BY <1>7 DEF GetOrCreate
  <2>3. call' \in [Callers -> CallStates] /\ lock' \in Callers \union {"free"}
    <3>1. CASE Owned(found, call[w].uid)
      <4>1. [call[w] EXCEPT !.pc = IF found.customer = 0 THEN "find" ELSE "write",
                            !.copy = found.customer, !.id = found.customer,
                            !.searched = FALSE]
              \in CallStates
        BY <2>1, <1>0, <1>a DEF CallStates, PCs
      <4>2. /\ lock' = w
            /\ call' = [call EXCEPT ![w].pc = IF found.customer = 0 THEN "find"
                                              ELSE "write",
                                    ![w].copy = found.customer,
                                    ![w].id = found.customer,
                                    ![w].searched = FALSE]
        BY <1>7, <3>1 DEF GetOrCreate
      <4> QED
        BY <4>1, <4>2, <1>0, <1>a
    <3>2. CASE ~Owned(found, call[w].uid)
      BY <3>2, <1>7, ReturnType DEF GetOrCreate
    <3> QED
      BY <3>1, <3>2
  <2> QED
    BY <2>1, <2>2, <2>3, <1>7 DEF TypeOK, GetOrCreate, accountVars, stripeVars
<1>8. ASSUME NEW w \in Callers, FindExisting(w) PROVE TypeOK'
  <2>1. PICK c \in CustomerRefs :
          call' = [call EXCEPT ![w].pc = "write", ![w].id = c,
                               ![w].searched = seen.recorded = {}]
    BY <1>8, <1>0, <1>a DEF FindExisting, Matches, TypeOK
  <2>2. [call[w] EXCEPT !.pc = "write", !.id = c,
                        !.searched = seen.recorded = {}] \in CallStates
    BY <1>0, <1>a DEF CallStates, PCs
  <2>3. call' \in [Callers -> CallStates]
    BY <2>1, <2>2, <1>0, <1>a
  <2> QED
    BY <2>3, <1>8 DEF TypeOK, FindExisting, accountVars, stripeVars
<1>9. ASSUME NEW w \in Callers, UpdateCustomer(w) PROVE TypeOK'
  <2>1. call[w].id \in Customers /\ call[w].uid \in 0 .. MaxUID
    BY <1>9, <1>0, <1>a DEF UpdateCustomer
  <2>2. call' \in [Callers -> CallStates]
    <3>1. [call[w] EXCEPT !.pc = "publish", !.ok = TRUE] \in CallStates
      BY <2>1, <1>0, <1>a DEF CallStates, PCs
    <3> QED
      BY <3>1, <1>9, <1>0, <1>a DEF UpdateCustomer
  <2> QED
    BY <2>1, <2>2, <1>9, StripeType DEF TypeOK, UpdateCustomer, accountVars
<1>10. ASSUME NEW w \in Callers, CreateCustomer(w) PROVE TypeOK'
  <2>1. PICK c \in Customers :
          /\ Created(c, call[w].uid)
          /\ call' = [call EXCEPT ![w].pc = "publish", ![w].id = c, ![w].ok = TRUE]
    BY <1>10 DEF CreateCustomer
  <2>2. call' \in [Callers -> CallStates] /\ call[w].uid \in 0 .. MaxUID
    <3>1. [call[w] EXCEPT !.pc = "publish", !.id = c, !.ok = TRUE] \in CallStates
      BY <1>0, <1>a DEF CallStates, PCs, Customers
    <3> QED
      BY <2>1, <3>1, <1>0, <1>a
  <2> QED
    BY <2>1, <2>2, <1>10, StripeType DEF TypeOK, CreateCustomer, accountVars
<1>11. ASSUME NEW w \in Callers, PatchStatus(w) PROVE TypeOK'
  <2>1. sc' \in [owner : 0 .. MaxUID, customer : CustomerRefs]
    BY <1>11, <1>0, <1>a DEF PatchStatus, TypeOK
  <2>2. [Idle EXCEPT !.pc = "record", !.id = call[w].id] \in CallStates
    <3>1. Idle \in CallStates
      BY DEF Idle, CallStates, PCs, CustomerRefs
    <3> QED
      BY <3>1, <1>a DEF CallStates, PCs
  <2>3. call' \in [Callers -> CallStates] /\ lock' \in Callers \union {"free"}
    <3>1. CASE Return(w)
      BY <3>1, ReturnType
    <3>2. CASE /\ call' = [call EXCEPT ![w] = [Idle EXCEPT !.pc = "record",
                                                          !.id = call[w].id]]
               /\ lock' = "free"
      BY <3>2, <2>2, <1>0, <1>a
    <3> QED
      BY <3>1, <3>2, <1>11 DEF PatchStatus
  <2>4. strayed' \in SUBSET Customers
    BY <1>11, <1>0, <1>a DEF PatchStatus, TypeOK, Lost, Unfindable
  <2> QED
    BY <2>1, <2>3, <2>4, <1>11 DEF TypeOK, PatchStatus, accountVars, stripeVars
<1>12. ASSUME NEW w \in Callers, RecordOnCard(w) PROVE TypeOK'
  <2>1. Idle \in CallStates
    BY DEF Idle, CallStates, PCs, CustomerRefs
  <2>2. call' \in [Callers -> CallStates]
    BY <2>1, <1>12, <1>0, <1>a DEF RecordOnCard
  <2> QED
    BY <2>2, <1>12, <1>0, <1>a DEF TypeOK, RecordOnCard, accountVars, stripeVars
<1>13. ASSUME NEW w \in Callers, ReadFails(w) PROVE TypeOK'
  BY <1>13, ReturnType DEF TypeOK, ReadFails, Fails, accountVars, stripeVars
<1>14. ASSUME NEW w \in Callers, StripeFails(w) PROVE TypeOK'
  <2>1. call' \in [Callers -> CallStates] /\ call[w].uid \in 0 .. MaxUID
    <3>1. [call[w] EXCEPT !.pc = "publish", !.ok = FALSE,
                          !.id = IF call[w].searched THEN 0 ELSE @] \in CallStates
      BY <1>0, <1>a DEF CallStates, PCs
    <3> QED
      BY <3>1, <1>14, <1>0, <1>a DEF StripeFails, Failed
  <2>2. /\ madeFor' \in [Customers -> 0 .. MaxUID]
        /\ stamp' \in [Customers -> Stamps]
        /\ index' \in [Customers -> Stamps \union {Unlisted}]
        /\ strayed' \in SUBSET Customers
    <3>1. CASE UNCHANGED <<stripeVars, strayed>>
      BY <3>1 DEF TypeOK, stripeVars
    <3>2. CASE call[w].id # 0 /\ Stamped(call[w].id, call[w].uid)
      BY <3>2, <2>1, <1>0, <1>a, StripeType
    <3>3. CASE \E c \in Customers :
                 Created(c, call[w].uid) /\ strayed' = strayed \union {c}
      BY <3>3, <2>1, StripeType DEF TypeOK
    <3> QED
      BY <3>1, <3>2, <3>3, <1>14 DEF StripeFails
  <2> QED
    BY <2>1, <2>2, <1>14 DEF TypeOK, StripeFails, Fails, accountVars
<1>15. ASSUME NEW w \in Callers, PatchFails(w) PROVE TypeOK'
  <2>1. strayed' \in SUBSET Customers
    BY <1>15, <1>0, <1>a DEF PatchFails, TypeOK, Lost, Unfindable
  <2> QED
    BY <2>1, <1>15, ReturnType DEF TypeOK, PatchFails, Fails, accountVars,
       stripeVars
<1>16. CASE UNCHANGED vars
  BY <1>16 DEF TypeOK, vars, accountVars, stripeVars
<1> QED
  BY <1>1, <1>2, <1>3, <1>4, <1>5, <1>6, <1>7, <1>8, <1>9, <1>10, <1>11, <1>12,
     <1>13, <1>14, <1>15, <1>16 DEF Next, EnsureStep

-----------------------------------------------------------------------------
(* The published id is final                                                *)

\* A step that leaves the lock alone, keeps the others out of the critical section
\* and leaves the StripeCustomer as it is or gone, preserves the two invariants.
LEMMA QuietStep ==
  ASSUME PublishedInv,
         \A w \in Callers :
           Holding(w)' => /\ Holding(w) /\ call'[w] = call[w]
                          /\ lock' = lock,
         sc' = sc \/ sc'.owner = 0
  PROVE  HolderIsAlone' /\ CopyIsCurrent'
  BY DEF PublishedInv, HolderIsAlone, CopyIsCurrent, Holding

\* The same of a step of w that ends its call, whatever becomes of the lock and of
\* the StripeCustomer: nobody else was in the critical section.
LEMMA LastStep ==
  ASSUME PublishedInv, NEW w \in Callers, Holding(w),
         \A v \in Callers \ {w} : call'[v] = call[v],
         ~Holding(w)'
  PROVE  HolderIsAlone' /\ CopyIsCurrent'
<1>1. \A v \in Callers : ~Holding(v)'
  <2> SUFFICES ASSUME NEW v \in Callers, Holding(v)' PROVE FALSE
    OBVIOUS
  <2>1. v # w /\ Holding(v)
    BY DEF Holding
  <2> QED
    BY <2>1 DEF PublishedInv, HolderIsAlone
<1> QED
  BY <1>1 DEF HolderIsAlone, CopyIsCurrent

\* The same of a step of w that goes on with its call.
LEMMA MiddleStep ==
  ASSUME PublishedInv, NEW w \in Callers, Holding(w),
         \A v \in Callers \ {w} : call'[v] = call[v],
         Holding(w)', call'[w].pc # "find", call'[w].uid = call[w].uid,
         call'[w].copy = call[w].copy,
         call[w].copy # 0 => call'[w].id = call[w].id /\ ~call'[w].searched,
         lock' = lock, sc' = sc
  PROVE  HolderIsAlone' /\ CopyIsCurrent'
  BY DEF PublishedInv, HolderIsAlone, CopyIsCurrent, Holding

\* Every step preserves the two invariants.
LEMMA HolderStep == PublishedInv /\ [Next]_vars => HolderIsAlone' /\ CopyIsCurrent'
<1> SUFFICES ASSUME PublishedInv, [Next]_vars
             PROVE  HolderIsAlone' /\ CopyIsCurrent'
  OBVIOUS
<1>0. call \in [Callers -> CallStates]
  BY DEF PublishedInv, TypeOK
<1>1. CASE \/ DeleteAccount \/ RecreateAccount \/ CollectGarbage \/ DeleteSC
           \/ SyncAccount \/ SyncCards \/ UNCHANGED vars
  <2>1. call' = call /\ lock' = lock /\ (sc' = sc \/ sc'.owner = 0)
    BY <1>1 DEF DeleteAccount, RecreateAccount, CollectGarbage, DeleteSC,
       SyncAccount, SyncCards, NoSC, vars
  <2> QED
    BY <2>1, QuietStep DEF Holding
<1>2. ASSUME NEW c \in Customers, DeleteCard(c) \/ Index(c)
      PROVE  HolderIsAlone' /\ CopyIsCurrent'
  BY <1>2, QuietStep DEF DeleteCard, Index, Holding
<1>3. CASE Crash
  <2>1. \A w \in Callers : ~Holding(w)'
    BY <1>3 DEF Crash, Holding, Idle
  <2> QED
    BY <2>1 DEF HolderIsAlone, CopyIsCurrent
<1>4. ASSUME NEW w \in Callers, Start(w)
      PROVE  HolderIsAlone' /\ CopyIsCurrent'
  <2>1. /\ \A v \in Callers \ {w} : call'[v] = call[v]
        /\ ~Holding(w)' /\ lock' = lock /\ sc' = sc
    BY <1>4, <1>0 DEF Start, Holding, CallStates
  <2> QED
    BY <2>1, QuietStep DEF Holding
<1>5. ASSUME NEW w \in Callers, GetOrCreate(w)
      PROVE  HolderIsAlone' /\ CopyIsCurrent'
  <2>1. \A v \in Callers : ~Holding(v)
    BY <1>5 DEF GetOrCreate, LockFree, PublishedInv, HolderIsAlone, Callers
  <2>2. \A v \in Callers \ {w} : call'[v] = call[v] /\ ~Holding(v)'
    BY <1>5, <1>0, <2>1 DEF GetOrCreate, Return, Holding
  <2>3. CASE Holding(w)'
    <3> DEFINE u == call[w].uid
    <3>1. /\ sc'.owner = u /\ lock' = w
          /\ call' = [call EXCEPT ![w].pc = IF sc'.customer = 0 THEN "find"
                                            ELSE "write",
                                  ![w].copy = sc'.customer,
                                  ![w].id = sc'.customer,
                                  ![w].searched = FALSE]
      BY <2>3, <1>5, <1>0 DEF GetOrCreate, Return, Holding, Idle, Owned
    <3>2. /\ call'[w].uid = u /\ call'[w].copy = sc'.customer
          /\ call'[w].id = sc'.customer
          /\ call'[w].copy # 0 => call'[w].pc # "find" /\ ~call'[w].searched
      BY <3>1, <1>0 DEF CallStates
    <3> QED
      BY <3>1, <3>2, <2>2 DEF HolderIsAlone, CopyIsCurrent
  <2>4. CASE ~Holding(w)'
    BY <2>2, <2>4 DEF HolderIsAlone, CopyIsCurrent
  <2> QED
    BY <2>3, <2>4
<1>6. ASSUME NEW w \in Callers, FindExisting(w)
      PROVE  HolderIsAlone' /\ CopyIsCurrent'
  <2>1. PICK c : call' = [call EXCEPT ![w].pc = "write", ![w].id = c,
                                    ![w].searched = seen.recorded = {}]
    BY <1>6 DEF FindExisting
  <2>2. Holding(w) /\ call[w].copy = 0
    BY <1>6 DEF FindExisting, At, Holding, PublishedInv, CopyIsCurrent
  <2>3. /\ \A v \in Callers \ {w} : call'[v] = call[v]
        /\ Holding(w)' /\ call'[w].pc # "find"
        /\ call'[w].uid = call[w].uid /\ call'[w].copy = call[w].copy
    BY <2>1, <1>0 DEF Holding, CallStates
  <2>4. lock' = lock /\ sc' = sc
    BY <1>6 DEF FindExisting
  <2> QED
    BY <2>2, <2>3, <2>4, MiddleStep
<1>7. ASSUME NEW w \in Callers,
             UpdateCustomer(w) \/ CreateCustomer(w) \/ StripeFails(w)
      PROVE  HolderIsAlone' /\ CopyIsCurrent'
  <2>1. Holding(w) /\ lock' = lock /\ sc' = sc
    BY <1>7 DEF UpdateCustomer, CreateCustomer, StripeFails, At, Holding
  <2>2. CASE UpdateCustomer(w) \/ StripeFails(w)
    <3>1. /\ \A v \in Callers \ {w} : call'[v] = call[v]
          /\ Holding(w)' /\ call'[w].pc # "find"
          /\ call'[w].uid = call[w].uid /\ call'[w].copy = call[w].copy
          /\ call'[w].searched = call[w].searched
          /\ ~call[w].searched => call'[w].id = call[w].id
      BY <2>2, <1>0 DEF UpdateCustomer, StripeFails, Failed, Holding, CallStates
    <3>2. call[w].copy # 0 => ~call[w].searched
      BY <2>1 DEF PublishedInv, CopyIsCurrent
    <3> QED
      BY <3>1, <3>2, <2>1, MiddleStep
  <2>3. CASE CreateCustomer(w)
    <3>1. PICK c \in Customers :
            call' = [call EXCEPT ![w].pc = "publish", ![w].id = c, ![w].ok = TRUE]
      BY <2>3 DEF CreateCustomer
    <3>2. call[w].copy = 0
      BY <2>1, <2>3 DEF CreateCustomer, PublishedInv, CopyIsCurrent
    <3>3. /\ \A v \in Callers \ {w} : call'[v] = call[v]
          /\ Holding(w)' /\ call'[w].pc # "find"
          /\ call'[w].uid = call[w].uid /\ call'[w].copy = call[w].copy
      BY <3>1, <1>0 DEF Holding, CallStates
    <3> QED
      BY <3>2, <3>3, <2>1, MiddleStep
  <2> QED
    BY <1>7, <2>2, <2>3
<1>8. ASSUME NEW w \in Callers, PatchStatus(w) \/ PatchFails(w)
      PROVE  HolderIsAlone' /\ CopyIsCurrent'
  <2>1. Holding(w)
    BY <1>8 DEF PatchStatus, PatchFails, At, Holding
  <2>2. (\A v \in Callers \ {w} : call'[v] = call[v]) /\ ~Holding(w)'
    <3>1. CASE PatchFails(w) \/ (PatchStatus(w) /\ Return(w))
      BY <3>1, <1>0 DEF PatchFails, Return, Holding, Idle, CallStates
    <3>2. CASE call' = [call EXCEPT ![w] = [Idle EXCEPT !.pc = "record",
                                                      !.id = call[w].id]]
      BY <3>2, <1>0 DEF Holding, Idle, CallStates
    <3> QED
      BY <1>8, <3>1, <3>2 DEF PatchStatus
  <2> QED
    BY <2>1, <2>2, LastStep
<1>9. ASSUME NEW w \in Callers, RecordOnCard(w)
      PROVE  HolderIsAlone' /\ CopyIsCurrent'
  <2>1. /\ \A v \in Callers \ {w} : call'[v] = call[v]
        /\ ~Holding(w)' /\ lock' = lock /\ sc' = sc
    BY <1>9, <1>0 DEF RecordOnCard, Holding, Idle, CallStates
  <2> QED
    BY <2>1, QuietStep DEF Holding
<1>10. ASSUME NEW w \in Callers, ReadFails(w)
       PROVE  HolderIsAlone' /\ CopyIsCurrent'
  <2>1. /\ \A v \in Callers \ {w} : call'[v] = call[v]
        /\ ~Holding(w)' /\ sc' = sc
    BY <1>10, <1>0 DEF ReadFails, Return, Holding, Idle, CallStates
  <2>2. CASE Holding(w)
    BY <2>1, <2>2, LastStep
  <2>3. CASE ~Holding(w)
    <3>1. \A v \in Callers : ~Holding(v)
      BY <2>3, <1>10 DEF ReadFails, LockFree, At, Holding, PublishedInv,
         HolderIsAlone, Callers
    <3> QED
      BY <3>1, <2>1 DEF HolderIsAlone, CopyIsCurrent, Holding
  <2> QED
    BY <2>2, <2>3
<1> QED
  BY <1>1, <1>2, <1>3, <1>4, <1>5, <1>6, <1>7, <1>8, <1>9, <1>10 DEF Next, EnsureStep

\* Ensure is alone between lock and unlock, with a current copy of its own
\* account's StripeCustomer, whatever fails and whoever else writes.
THEOREM PublishedInvariant == Spec => []PublishedInv
<1>1. Init => PublishedInv
  BY InitPublished
<1>2. PublishedInv /\ [Next]_vars => PublishedInv'
  BY TypeStep, HolderStep DEF PublishedInv
<1> QED
  BY <1>1, <1>2, PTL DEF Spec

\* The published id never changes while its StripeCustomer exists.
THEOREM PublishedIDIsFinal == Spec => PublishedIsFinal
<1>1. ASSUME PublishedInv, [Next]_vars PROVE [KeepsPublishedID]_vars
  <2> SUFFICES ASSUME sc.owner # 0, sc.customer # 0, sc'.owner = sc.owner
               PROVE  sc'.customer = sc.customer
    BY DEF KeepsPublishedID
  <2>1. sc \in [owner : 0 .. MaxUID, customer : CustomerRefs]
    BY <1>1 DEF PublishedInv, TypeOK
  <2>2. ASSUME NEW w \in Callers, PatchStatus(w) PROVE sc'.customer = sc.customer
    <3>1. sc.customer = call[w].copy /\ call[w].id = call[w].copy
      BY <1>1, <2>2 DEF PatchStatus, At, Holding, PublishedInv, CopyIsCurrent
    <3> QED
      BY <3>1, <2>2, <2>1 DEF PatchStatus
  <2>3. ASSUME NEW w \in Callers, GetOrCreate(w) PROVE sc'.customer = sc.customer
    BY <2>3 DEF GetOrCreate
  <2>4. CASE CollectGarbage \/ DeleteSC
    BY <2>4 DEF CollectGarbage, DeleteSC, NoSC
  <2>5. CASE \/ DeleteAccount \/ RecreateAccount \/ SyncAccount \/ SyncCards
             \/ Crash \/ UNCHANGED vars
             \/ \E c \in Customers : DeleteCard(c) \/ Index(c)
             \/ \E w \in Callers : \/ Start(w) \/ FindExisting(w)
                                   \/ UpdateCustomer(w) \/ CreateCustomer(w)
                                   \/ RecordOnCard(w) \/ ReadFails(w)
                                   \/ StripeFails(w) \/ PatchFails(w)
    BY <2>5 DEF DeleteAccount, RecreateAccount, SyncAccount, SyncCards, Crash, vars,
       DeleteCard, Index, Start, FindExisting, UpdateCustomer, CreateCustomer,
       RecordOnCard, ReadFails, StripeFails, PatchFails
  <2> QED
    BY <1>1, <2>2, <2>3, <2>4, <2>5 DEF Next, EnsureStep
<1> QED
  BY <1>1, PublishedInvariant, PTL DEF Spec, PublishedIsFinal
=============================================================================
