--------------------------- MODULE OneCustomerProofs ---------------------------
(***************************************************************************)
(* Proofs about StripeCustomers: an account has one Stripe Customer, short  *)
(* of a lost id, for any number of accounts, Customers and failures.        *)
(***************************************************************************)
EXTENDS StripeCustomersProofs

-----------------------------------------------------------------------------
(* The inductive invariant                                                  *)

Made(c) == madeFor[c] # 0

\* The uid of an account is new, and a call works for an account that was.
Working(w) == call[w].pc \notin {"idle", "record"}

UidsAreFresh ==
  /\ account \in {0, uids} /\ seen.account <= uids
  /\ \A w \in Callers : call[w].uid <= uids /\ (Working(w) => call[w].uid # 0)
  /\ \A c \in Customers : madeFor[c] <= uids

\* Whoever names a Customer names one that Stripe has.
IdsAreOfCustomers ==
  /\ \A c \in recorded \union seen.recorded : Made(c)
  /\ sc.customer # 0 => Made(sc.customer)
  /\ \A w \in Callers : call[w].id # 0 => Made(call[w].id)
  /\ \A c \in Customers : index[c] # Unlisted => Made(c)

\* A Customer carries, and is listed with, the uid it was made for or none,
\* unless another account took it over.
StampsAreTrue ==
  \A c \in Customers \ strayed :
    stamp[c] \in {0, madeFor[c]} /\ index[c] \in {Unlisted, 0, madeFor[c]}

\* The Customer of the account that is there is listed, or published, or in the
\* hands of the call that made it.
InHand(w, c) ==
  /\ At(w, "publish")
  /\ call[w].id = c /\ call[w].copy # c /\ call[w].uid = madeFor[c]

Known(c) ==
  \/ index[c] # Unlisted
  \/ sc.owner = account /\ sc.customer = c
  \/ \E w \in Callers : InHand(w, c)

Current(c) == account # 0 /\ madeFor[c] = account /\ c \notin strayed

NoneIsForgotten == \A c \in Customers : Current(c) => Known(c)

\* Who is about to create a Customer for it creates the first.
Creating(w) == At(w, "write") /\ call[w].id = 0 /\ call[w].uid = account

CreatesTheFirst ==
  \A w \in Callers : Creating(w) => \A c \in Customers : ~Current(c)

OneCustomerInv ==
  /\ UidsAreFresh /\ IdsAreOfCustomers /\ StampsAreTrue
  /\ NoneIsForgotten /\ CreatesTheFirst /\ OneCustomer

\* Initially there is at most the Customer from before StripeCustomers, which the
\* search lists without a uid.
LEMMA InitOneCustomer == Init => OneCustomerInv
<1> SUFFICES ASSUME Init PROVE OneCustomerInv
  OBVIOUS
<1> USE CustomersAssumption
<1>1. PICK old \in {{}} \union (IF Legacy THEN {{1}} ELSE {}) :
        /\ recorded = old
        /\ seen = [account |-> 1, recorded |-> old]
        /\ madeFor = [c \in Customers |-> IF c \in old THEN 1 ELSE 0]
        /\ index = [c \in Customers |-> IF c \in old THEN 0 ELSE Unlisted]
  BY DEF Init
<1>2. /\ old \in {{}, {1}} /\ 1 \in Customers
      /\ account = 1 /\ uids = 1 /\ sc.customer = 0
      /\ \A c \in Customers : stamp[c] = 0
      /\ \A w \in Callers : call[w] = Idle
  BY <1>1 DEF Init, NoSC, Customers
<1>3. UidsAreFresh
  BY <1>1, <1>2 DEF UidsAreFresh, Working, Idle
<1>4. IdsAreOfCustomers
  BY <1>1, <1>2 DEF IdsAreOfCustomers, Made, Idle
<1>5. StampsAreTrue
  BY <1>1, <1>2 DEF StampsAreTrue
<1>6. NoneIsForgotten
  BY <1>1, <1>2 DEF NoneIsForgotten, Current, Known, Unlisted
<1>7. CreatesTheFirst
  BY <1>2 DEF CreatesTheFirst, Creating, At, Idle
<1>8. OneCustomer
  BY <1>1, <1>2 DEF OneCustomer
<1> QED
  BY <1>3, <1>4, <1>5, <1>6, <1>7, <1>8 DEF OneCustomerInv

-----------------------------------------------------------------------------
(* What a step does                                                         *)

\* Only its own steps and a crash change what a caller does.
LEMMA CallWrites ==
  ASSUME TypeOK, [Next]_vars, NEW w \in Callers
  PROVE  \/ call'[w] = call[w] \/ Crash
         \/ Start(w) \/ EnsureStep(w)
         \/ ReadFails(w) \/ StripeFails(w) \/ PatchFails(w)
<1>1. ASSUME NEW v \in Callers, v # w,
             \/ Start(v) \/ EnsureStep(v)
             \/ ReadFails(v) \/ StripeFails(v) \/ PatchFails(v)
      PROVE  call'[w] = call[w]
  <2>1. ASSUME Return(v) PROVE call'[w] = call[w]
    BY <1>1, <2>1 DEF Return, TypeOK
  <2>2. CASE Start(v) \/ StripeFails(v)
    BY <1>1, <2>2 DEF Start, StripeFails, Failed, TypeOK
  <2>3. CASE ReadFails(v) \/ PatchFails(v)
    BY <2>1, <2>3 DEF ReadFails, PatchFails
  <2>4. CASE GetOrCreate(v)
    BY <1>1, <2>1, <2>4 DEF GetOrCreate, TypeOK
  <2>5. CASE FindExisting(v) \/ UpdateCustomer(v) \/ CreateCustomer(v)
    BY <1>1, <2>5 DEF FindExisting, UpdateCustomer, CreateCustomer, TypeOK
  <2>6. CASE PatchStatus(v)
    BY <1>1, <2>1, <2>6 DEF PatchStatus, TypeOK
  <2>7. CASE RecordOnCard(v)
    BY <1>1, <2>7 DEF RecordOnCard, TypeOK
  <2> QED
    BY <1>1, <2>2, <2>3, <2>4, <2>5, <2>6, <2>7 DEF EnsureStep
<1>2. \/ UNCHANGED call \/ Crash
      \/ \E v \in Callers : \/ Start(v) \/ EnsureStep(v)
                            \/ ReadFails(v) \/ StripeFails(v) \/ PatchFails(v)
  BY DEF Next, vars, DeleteAccount, RecreateAccount, CollectGarbage, DeleteSC,
     SyncAccount, SyncCards, DeleteCard, Index
<1> QED
  BY <1>1, <1>2

\* A call keeps its uid and its copy until it ends, and takes its id from where
\* getOrCreate, findExistingCustomerID and EnsureCustomer find it.
LEMMA CallSteps ==
  ASSUME TypeOK, [Next]_vars, NEW w \in Callers
  PROVE  \/ call'[w] = call[w]
         \/ call'[w] = Idle
         \/ /\ call'[w].pc = "record" /\ call'[w].uid = 0
            /\ call'[w].id = call[w].id
         \/ call'[w] = [call[w] EXCEPT !.pc = "waiting", !.uid = seen.account]
            /\ seen.account # 0
         \/ /\ Working(w) /\ call'[w].uid = call[w].uid
            /\ \/ GetOrCreate(w) /\ call'[w].id = sc'.customer
                  /\ (call'[w].pc = "write" => call'[w].id # 0)
               \/ FindExisting(w) /\ call'[w].pc = "write"
               \/ /\ At(w, "write") \/ At(w, "find")
                  /\ call'[w].pc = "publish" /\ call'[w].copy = call[w].copy
                  /\ \/ call'[w].id \in {0, call[w].id}
                     \/ \E c \in Customers :
                          call'[w].id = c /\ Created(c, call[w].uid)
<1> USE DEF TypeOK, CallStates, Working, At
<1>1. CASE Crash
  BY <1>1 DEF Crash
<1>2. ASSUME Return(w) PROVE call'[w] = Idle
  BY <1>2 DEF Return
<1>3. CASE Start(w)
  BY <1>3 DEF Start
<1>4. CASE ReadFails(w) \/ PatchFails(w)
  BY <1>2, <1>4 DEF ReadFails, PatchFails
<1>5. CASE GetOrCreate(w)
  <2> DEFINE found == IF sc.owner = 0 THEN [owner |-> call[w].uid, customer |-> 0]
                      ELSE sc
  <2>1. sc' = found /\ call[w].pc = "waiting"
    BY <1>5 DEF GetOrCreate
  <2>2. CASE Owned(found, call[w].uid)
    <3>1. call' = [call EXCEPT ![w].pc = IF found.customer = 0 THEN "find"
                                         ELSE "write",
                               ![w].copy = found.customer,
                               ![w].id = found.customer,
                               ![w].searched = FALSE]
      BY <1>5, <2>2 DEF GetOrCreate
    <3>2. /\ call'[w].uid = call[w].uid /\ call'[w].id = found.customer
          /\ call'[w].pc = "write" => found.customer # 0
      BY <3>1
    <3> QED
      BY <1>5, <2>1, <3>2
  <2>3. CASE ~Owned(found, call[w].uid)
    BY <1>2, <1>5, <2>3 DEF GetOrCreate
  <2> QED
    BY <2>2, <2>3
<1>6. CASE FindExisting(w)
  <2>1. PICK c : call' = [call EXCEPT ![w].pc = "write", ![w].id = c,
                                    ![w].searched = seen.recorded = {}]
    BY <1>6 DEF FindExisting
  <2>2. call'[w].uid = call[w].uid /\ call'[w].pc = "write" /\ call[w].pc = "find"
    BY <1>6, <2>1 DEF FindExisting
  <2> QED
    BY <1>6, <2>2
<1>7. CASE UpdateCustomer(w)
  BY <1>7 DEF UpdateCustomer
<1>8. CASE CreateCustomer(w)
  <2>1. PICK c \in Customers :
          /\ Created(c, call[w].uid)
          /\ call' = [call EXCEPT ![w].pc = "publish", ![w].id = c, ![w].ok = TRUE]
    BY <1>8 DEF CreateCustomer
  <2>2. /\ call'[w].uid = call[w].uid /\ call'[w].pc = "publish"
        /\ call'[w].id = c /\ call'[w].copy = call[w].copy /\ call[w].pc = "write"
    BY <1>8, <2>1 DEF CreateCustomer
  <2> QED
    BY <2>1, <2>2
<1>9. CASE StripeFails(w)
  <2>1. (At(w, "write") \/ At(w, "find")) /\ Failed(w)
    BY <1>9 DEF StripeFails
  <2>2. /\ call'[w].uid = call[w].uid /\ call'[w].pc = "publish"
        /\ call'[w].copy = call[w].copy /\ call'[w].id \in {0, call[w].id}
    BY <2>1 DEF Failed
  <2> QED
    BY <2>1, <2>2
<1>10. CASE PatchStatus(w)
  <2>1. \/ call' = [call EXCEPT ![w] = [Idle EXCEPT !.pc = "record",
                                                  !.id = call[w].id]]
        \/ Return(w)
    BY <1>10 DEF PatchStatus
  <2>2. /\ [Idle EXCEPT !.pc = "record", !.id = call[w].id].pc = "record"
        /\ [Idle EXCEPT !.pc = "record", !.id = call[w].id].uid = 0
        /\ [Idle EXCEPT !.pc = "record", !.id = call[w].id].id = call[w].id
    BY DEF Idle
  <2> QED
    BY <1>2, <2>1, <2>2
<1>11. CASE RecordOnCard(w)
  BY <1>11 DEF RecordOnCard
<1> QED
  BY <1>1, <1>3, <1>4, <1>5, <1>6, <1>7, <1>8, <1>9, <1>10, <1>11, CallWrites
     DEF EnsureStep

\* Only the holder of the lock changes what Stripe knows of its Customers, and the
\* search catches up.
LEMMA StripeWrites ==
  ASSUME TypeOK, [Next]_vars
  PROVE  \/ UNCHANGED stripeVars
         \/ \E c \in Customers : Index(c)
         \/ \E w \in Callers :
              /\ At(w, "write") /\ call[w].id # 0
              /\ Stamped(call[w].id, call[w].uid)
         \/ \E w \in Callers, c \in Customers :
              /\ At(w, "write") /\ call[w].id = 0 /\ Created(c, call[w].uid)
              /\ \/ strayed' = strayed \union {c}
                 \/ /\ UNCHANGED strayed
                    /\ call' = [call EXCEPT ![w].pc = "publish", ![w].id = c,
                                            ![w].ok = TRUE]
<1>1. ASSUME NEW w \in Callers, StripeFails(w)
      PROVE  \/ UNCHANGED stripeVars
             \/ At(w, "write") /\ call[w].id # 0 /\ Stamped(call[w].id, call[w].uid)
             \/ \E c \in Customers :
                  /\ At(w, "write") /\ call[w].id = 0 /\ Created(c, call[w].uid)
                  /\ strayed' = strayed \union {c}
  BY <1>1 DEF StripeFails
<1>2. ASSUME NEW w \in Callers, UpdateCustomer(w)
      PROVE  At(w, "write") /\ call[w].id # 0 /\ Stamped(call[w].id, call[w].uid)
  BY <1>2 DEF UpdateCustomer
<1>3. ASSUME NEW w \in Callers, CreateCustomer(w)
      PROVE  \E c \in Customers :
               /\ At(w, "write") /\ call[w].id = 0 /\ Created(c, call[w].uid)
               /\ UNCHANGED strayed
               /\ call' = [call EXCEPT ![w].pc = "publish", ![w].id = c,
                                       ![w].ok = TRUE]
  BY <1>3 DEF CreateCustomer
<1>4. \/ UNCHANGED stripeVars
      \/ \E c \in Customers : Index(c)
      \/ \E w \in Callers : StripeFails(w) \/ UpdateCustomer(w) \/ CreateCustomer(w)
  BY DEF Next, vars, EnsureStep, DeleteAccount, RecreateAccount, CollectGarbage,
     DeleteSC, SyncAccount, SyncCards, Crash, DeleteCard, Start, GetOrCreate,
     FindExisting, PatchStatus, RecordOnCard, ReadFails, PatchFails
<1> QED
  BY <1>1, <1>2, <1>3, <1>4

\* A Customer is made once, for the uid of the call that makes it.
LEMMA MadeOnce ==
  ASSUME TypeOK, UidsAreFresh, [Next]_vars, NEW c \in Customers
  PROVE  \/ madeFor'[c] = madeFor[c]
         \/ \E w \in Callers :
              /\ At(w, "write") /\ call[w].id = 0
              /\ madeFor[c] = 0 /\ madeFor'[c] = call[w].uid /\ Made(c)'
              /\ \A d \in Customers \ {c} : madeFor'[d] = madeFor[d]
              /\ \/ c \in strayed'
                 \/ call' = [call EXCEPT ![w].pc = "publish", ![w].id = c,
                                         ![w].ok = TRUE]
<1>1. ASSUME NEW w \in Callers, NEW d \in Customers,
             At(w, "write"), Created(d, call[w].uid)
      PROVE  /\ madeFor[d] = 0 /\ madeFor'[d] = call[w].uid /\ call[w].uid # 0
             /\ \A e \in Customers \ {d} : madeFor'[e] = madeFor[e]
  BY <1>1 DEF Created, TypeOK, UidsAreFresh, Working, At
<1>2. CASE UNCHANGED stripeVars
  BY <1>2 DEF stripeVars
<1>3. CASE \E d \in Customers : Index(d)
  BY <1>3 DEF Index
<1>4. CASE \E w \in Callers : Stamped(call[w].id, call[w].uid)
  BY <1>4 DEF Stamped
<1>5. ASSUME NEW w \in Callers, NEW d \in Customers,
             At(w, "write"), call[w].id = 0, Created(d, call[w].uid),
             \/ d \in strayed'
             \/ call' = [call EXCEPT ![w].pc = "publish", ![w].id = d,
                                     ![w].ok = TRUE]
      PROVE  \/ madeFor'[c] = madeFor[c]
             \/ /\ madeFor[c] = 0 /\ madeFor'[c] = call[w].uid /\ Made(c)'
                /\ \A e \in Customers \ {c} : madeFor'[e] = madeFor[e]
                /\ \/ c \in strayed'
                   \/ call' = [call EXCEPT ![w].pc = "publish", ![w].id = c,
                                           ![w].ok = TRUE]
  <2>1. CASE c = d
    BY <1>1, <1>5, <2>1 DEF Made
  <2>2. CASE c # d
    BY <1>1, <1>5, <2>2
  <2> QED
    BY <2>1, <2>2
<1> QED
  BY <1>2, <1>3, <1>4, <1>5, StripeWrites

\* A Customer that Stripe has, it has for good.
LEMMA MadeStays ==
  ASSUME TypeOK, UidsAreFresh, [Next]_vars, NEW c \in Customers, Made(c)
  PROVE  madeFor'[c] = madeFor[c]
  BY MadeOnce DEF Made

\* What went astray did.
LEMMA StrayedGrows ==
  ASSUME [Next]_vars
  PROVE  strayed \subseteq strayed'
  BY DEF Next, vars, stripeVars, EnsureStep, DeleteAccount, RecreateAccount,
     CollectGarbage, DeleteSC, SyncAccount, SyncCards, Crash, DeleteCard, Index,
     Start, GetOrCreate, FindExisting, UpdateCustomer, CreateCustomer, Stamped,
     PatchStatus, RecordOnCard, ReadFails, StripeFails, PatchFails

\* The account is deleted, or comes back with another uid; the cache follows.
LEMMA AccountWrites ==
  ASSUME TypeOK, [Next]_vars
  PROVE  /\ \/ UNCHANGED accountVars
            \/ account' = 0 /\ UNCHANGED uids
            \/ account' = uids + 1 /\ uids' = uids + 1
         /\ seen'.account \in {seen.account, account}
<1>1. \/ UNCHANGED accountVars
      \/ account' = 0 /\ UNCHANGED uids
      \/ account' = uids + 1 /\ uids' = uids + 1
  BY DEF Next, vars, EnsureStep, DeleteAccount, RecreateAccount,
     CollectGarbage, DeleteSC, SyncAccount, SyncCards, Crash, DeleteCard, Index,
     Start, GetOrCreate, FindExisting, UpdateCustomer, CreateCustomer,
     PatchStatus, RecordOnCard, ReadFails, StripeFails, PatchFails
<1>2. ASSUME SyncAccount \/ SyncCards \/ Crash
      PROVE  seen'.account \in {seen.account, account}
  BY <1>2 DEF SyncAccount, SyncCards, Crash, TypeOK
<1>3. UNCHANGED seen \/ SyncAccount \/ SyncCards \/ Crash
  BY DEF Next, vars, EnsureStep, DeleteAccount, RecreateAccount,
     CollectGarbage, DeleteSC, DeleteCard, Index,
     Start, GetOrCreate, FindExisting, UpdateCustomer, CreateCustomer,
     PatchStatus, RecordOnCard, ReadFails, StripeFails, PatchFails
<1> QED
  BY <1>1, <1>2, <1>3

\* The StripeCustomer is removed, created without an id, or given its first.
LEMMA CustomerWrites ==
  ASSUME PublishedInv, [Next]_vars
  PROVE  \/ UNCHANGED sc
         \/ CollectGarbage \/ DeleteSC
         \/ sc.owner = 0 /\ sc'.customer = 0
         \/ \E w \in Callers :
              /\ PatchStatus(w) /\ sc.owner # 0 /\ sc.customer = 0
              /\ sc'.owner = sc.owner /\ sc'.customer = call[w].id
<1>1. ASSUME NEW w \in Callers, GetOrCreate(w)
      PROVE  UNCHANGED sc \/ (sc.owner = 0 /\ sc'.customer = 0)
  BY <1>1 DEF GetOrCreate
<1>2. ASSUME NEW w \in Callers, PatchStatus(w)
      PROVE  \/ UNCHANGED sc
             \/ /\ sc.owner # 0 /\ sc.customer = 0
                /\ sc'.owner = sc.owner /\ sc'.customer = call[w].id
  <2>1. sc \in [owner : 0 .. MaxUID, customer : CustomerRefs]
    BY DEF PublishedInv, TypeOK
  <2>2. CASE call[w].id = call[w].copy
    BY <1>2, <2>1, <2>2 DEF PatchStatus
  <2>3. CASE call[w].id # call[w].copy
    <3>1. sc.owner # 0 => sc.customer = call[w].copy /\ call[w].copy = 0
      BY <1>2, <2>3 DEF PatchStatus, At, Holding, PublishedInv, CopyIsCurrent
    <3> QED
      BY <1>2, <2>1, <2>3, <3>1 DEF PatchStatus
  <2> QED
    BY <2>2, <2>3
<1>3. \/ UNCHANGED sc \/ CollectGarbage \/ DeleteSC
      \/ \E w \in Callers : GetOrCreate(w) \/ PatchStatus(w)
  BY DEF Next, vars, EnsureStep, DeleteAccount, RecreateAccount,
     SyncAccount, SyncCards, Crash, DeleteCard, Index,
     Start, FindExisting, UpdateCustomer, CreateCustomer,
     RecordOnCard, ReadFails, StripeFails, PatchFails
<1> QED
  BY <1>1, <1>2, <1>3

-----------------------------------------------------------------------------
(* The invariant is inductive                                               *)

\* A call takes its uid from the cache, a Customer from its call.
LEMMA UidsStep ==
  ASSUME TypeOK, UidsAreFresh, [Next]_vars
  PROVE  UidsAreFresh'
<1>1. uids \in Nat /\ uids <= uids' /\ uids' \in Nat
      /\ account' \in {0, uids'} /\ account <= uids /\ account \in Nat
  BY AccountWrites DEF TypeOK, UIDs, UidsAreFresh, accountVars
<1>2. seen'.account <= uids' /\ seen.account \in Nat
  BY <1>1, AccountWrites DEF TypeOK, UidsAreFresh
<1>3. ASSUME NEW w \in Callers
      PROVE  call'[w].uid <= uids' /\ (Working(w)' => call'[w].uid # 0)
  <2>1. call[w] \in CallStates /\ call[w].uid \in Nat /\ call[w].uid <= uids
        /\ (Working(w) => call[w].uid # 0)
    BY DEF TypeOK, CallStates, UidsAreFresh
  <2>2. CASE \/ call'[w] \in {call[w], Idle}
             \/ call'[w].pc = "record" /\ call'[w].uid = 0
    BY <1>1, <2>1, <2>2 DEF Idle, Working
  <2>3. CASE call'[w] = [call[w] EXCEPT !.pc = "waiting", !.uid = seen.account]
             /\ seen.account # 0
    BY <1>1, <1>2, <2>1, <2>3 DEF CallStates, UidsAreFresh
  <2>4. CASE Working(w) /\ call'[w].uid = call[w].uid
    BY <1>1, <2>1, <2>4
  <2> QED
    BY <2>2, <2>3, <2>4, CallSteps
<1>4. ASSUME NEW c \in Customers PROVE madeFor'[c] <= uids'
  <2>1. CASE madeFor'[c] = madeFor[c]
    BY <1>1, <2>1 DEF TypeOK, UidsAreFresh
  <2>2. CASE \E w \in Callers : madeFor'[c] = call[w].uid
    BY <1>1, <2>2 DEF TypeOK, CallStates, UidsAreFresh
  <2> QED
    BY <2>1, <2>2, MadeOnce
<1> QED
  BY <1>1, <1>2, <1>3, <1>4 DEF UidsAreFresh, Working

\* Ids come from the objects, from the search, or from Stripe's answer.
LEMMA IdsStep ==
  ASSUME PublishedInv, UidsAreFresh, IdsAreOfCustomers, [Next]_vars
  PROVE  IdsAreOfCustomers'
<1> USE DEF IdsAreOfCustomers
<1>0. TypeOK
  BY DEF PublishedInv
<1> DEFINE Has(c) == madeFor'[c] # 0
<1>1. ASSUME NEW c \in Customers, Made(c) PROVE Has(c)
  BY <1>0, <1>1, MadeStays DEF Made
<1>2. ASSUME NEW w \in Callers, call[w].id # 0 PROVE Has(call[w].id)
  <2>1. call[w].id \in Customers
    BY <1>0, <1>2 DEF TypeOK, CallStates, CustomerRefs, Customers
  <2> QED
    BY <1>1, <1>2, <2>1
<1>3. sc.customer # 0 => Has(sc.customer)
  <2>1. sc.customer # 0 => sc.customer \in Customers
    BY <1>0 DEF TypeOK, CustomerRefs, Customers
  <2> QED
    BY <1>1, <2>1
<1>4. \A c \in recorded' \union seen'.recorded : Has(c)
  <2>1. \/ recorded' \subseteq recorded
        \/ \E w \in Callers : recorded' \subseteq recorded \union ({call[w].id} \ {0})
    BY DEF Next, vars, EnsureStep, DeleteAccount, RecreateAccount,
       CollectGarbage, DeleteSC, SyncAccount, SyncCards, Crash, DeleteCard, Index,
       Start, GetOrCreate, FindExisting, UpdateCustomer, CreateCustomer,
       PatchStatus, RecordOnCard, ReadFails, StripeFails, PatchFails
  <2>3. seen'.recorded \in {seen.recorded, recorded}
    <3>1. UNCHANGED seen \/ SyncAccount \/ SyncCards \/ Crash
      BY DEF Next, vars, EnsureStep, DeleteAccount, RecreateAccount,
         CollectGarbage, DeleteSC, DeleteCard, Index,
         Start, GetOrCreate, FindExisting, UpdateCustomer, CreateCustomer,
         PatchStatus, RecordOnCard, ReadFails, StripeFails, PatchFails
    <3> QED
      BY <1>0, <3>1 DEF SyncAccount, SyncCards, Crash, TypeOK
  <2>4. \A c \in recorded \union seen.recorded : Has(c)
    BY <1>0, <1>1 DEF TypeOK
  <2> QED
    BY <1>2, <2>1, <2>3, <2>4
<1>5. sc'.customer # 0 => Has(sc'.customer)
  <2>1. CASE CollectGarbage \/ DeleteSC
    BY <2>1 DEF CollectGarbage, DeleteSC, NoSC
  <2> QED
    BY <1>2, <1>3, <2>1, CustomerWrites
<1>6. ASSUME NEW w \in Callers, call'[w].id # 0 PROVE Has(call'[w].id)
  <2>0. call[w] \in CallStates
    BY <1>0 DEF TypeOK
  <2>1. CASE call'[w] = Idle
    BY <1>6, <2>1 DEF Idle
  <2>2. CASE call'[w] = [call[w] EXCEPT !.pc = "waiting", !.uid = seen.account]
    BY <1>2, <1>6, <2>0, <2>2 DEF CallStates
  <2>3. CASE call'[w].id = sc'.customer
    BY <1>5, <1>6, <2>3
  <2>4. CASE FindExisting(w)
    <3>1. PICK c \in seen.recorded \union Matches(call[w].uid) \union {0} :
            call' = [call EXCEPT ![w].pc = "write", ![w].id = c,
                                 ![w].searched = seen.recorded = {}]
      BY <2>4 DEF FindExisting
    <3>2. call'[w].id = c
      BY <1>0, <2>0, <3>1 DEF TypeOK, CallStates
    <3>3. c \in Matches(call[w].uid) => c \in Customers /\ index[c] # Unlisted
      BY <1>0, <2>0, CustomersAssumption DEF Matches, CallStates, Unlisted
    <3>4. c = 0 \/ (c \in Customers /\ Made(c))
      BY <1>0, <3>3 DEF TypeOK
    <3> QED
      BY <1>1, <1>6, <3>2, <3>4
  <2>5. CASE call'[w].id \in {0, call[w].id}
    BY <1>2, <1>6, <2>5
  <2>6. ASSUME NEW c \in Customers, call'[w].id = c, Created(c, call[w].uid),
               Working(w)
        PROVE  Has(call'[w].id)
    BY <1>0, <2>6 DEF Created, TypeOK, UidsAreFresh
  <2> QED
    BY <1>0, <2>1, <2>2, <2>3, <2>4, <2>5, <2>6, CallSteps
<1>7. ASSUME NEW c \in Customers, index'[c] # Unlisted PROVE Has(c)
  <2>1. CASE index'[c] = index[c]
    BY <1>1, <1>7, <2>1
  <2>2. CASE Index(c)
    BY <1>1, <2>2 DEF Index, Made
  <2>3. index'[c] = index[c] \/ Index(c)
    BY <1>0, StripeWrites DEF stripeVars, Stamped, Created, Index, TypeOK
  <2> QED
    BY <2>1, <2>2, <2>3
<1> QED
  BY <1>4, <1>5, <1>6, <1>7 DEF Made

\* A Customer gets another uid than its own only when another account takes it.
LEMMA StampsStep ==
  ASSUME TypeOK, UidsAreFresh, IdsAreOfCustomers, StampsAreTrue, [Next]_vars
  PROVE  StampsAreTrue'
<1> SUFFICES ASSUME NEW c \in Customers, c \notin strayed'
             PROVE  /\ stamp'[c] \in {0, madeFor'[c]}
                    /\ index'[c] \in {Unlisted, 0, madeFor'[c]}
  BY DEF StampsAreTrue
<1>1. /\ stamp[c] \in {0, madeFor[c]} /\ index[c] \in {Unlisted, 0, madeFor[c]}
  BY StrayedGrows DEF StampsAreTrue
<1>2. CASE UNCHANGED stripeVars
  BY <1>1, <1>2 DEF stripeVars
<1>3. ASSUME NEW d \in Customers, Index(d)
      PROVE  /\ stamp'[c] \in {0, madeFor'[c]}
             /\ index'[c] \in {Unlisted, 0, madeFor'[c]}
  BY <1>1, <1>3 DEF Index, TypeOK
<1>4. ASSUME NEW d, NEW u, Stamped(d, u)
      PROVE  /\ stamp'[c] \in {0, madeFor'[c]}
             /\ index'[c] \in {Unlisted, 0, madeFor'[c]}
  <2>1. madeFor' = madeFor /\ index' = index /\ stamp' = [stamp EXCEPT ![d] = u]
        /\ (d = c => madeFor[c] = u)
    BY <1>4 DEF Stamped
  <2> QED
    BY <1>1, <2>1 DEF TypeOK
<1>5. ASSUME NEW d \in Customers, NEW u, Created(d, u)
      PROVE  /\ stamp'[c] \in {0, madeFor'[c]}
             /\ index'[c] \in {Unlisted, 0, madeFor'[c]}
  <2>1. madeFor[d] = 0 /\ index[d] = Unlisted
    BY <1>5 DEF Created, IdsAreOfCustomers, Made
  <2> QED
    BY <1>1, <1>5, <2>1 DEF Created, TypeOK
<1> QED
  BY <1>2, <1>3, <1>4, <1>5, StripeWrites

\* Whose Customers there are already, is there already.
LEMMA AccountIsOld ==
  ASSUME TypeOK, UidsAreFresh, [Next]_vars, account' # 0, account' <= uids
  PROVE  account = account'
  BY AccountWrites DEF TypeOK, UIDs, accountVars

\* The id of a Customer is handed from the call to the StripeCustomer, or else
\* the search has it, or it is lost.
LEMMA KnownStep ==
  ASSUME PublishedInv, UidsAreFresh, NoneIsForgotten, [Next]_vars
  PROVE  NoneIsForgotten'
<1> SUFFICES ASSUME NEW c \in Customers, account' # 0, madeFor'[c] = account',
                    c \notin strayed'
             PROVE  Known(c)'
  BY DEF NoneIsForgotten, Current
<1> USE CustomersAssumption
<1>0. TypeOK /\ c # 0 /\ c \notin strayed
  BY StrayedGrows DEF PublishedInv, Customers
<1>1. CASE madeFor'[c] # madeFor[c]
  <2>1. PICK w \in Callers :
          /\ At(w, "write") /\ call[w].id = 0 /\ madeFor'[c] = call[w].uid
          /\ call' = [call EXCEPT ![w].pc = "publish", ![w].id = c, ![w].ok = TRUE]
    BY <1>0, <1>1, MadeOnce
  <2>2. call[w].copy = 0
    BY <2>1 DEF PublishedInv, CopyIsCurrent, Holding, At
  <2>3. call'[w].pc = "publish" /\ call'[w].id = c
        /\ call'[w].copy = call[w].copy /\ call'[w].uid = call[w].uid
    BY <1>0, <2>1 DEF TypeOK, CallStates
  <2> QED
    BY <1>0, <2>1, <2>2, <2>3 DEF Known, InHand, At
<1>2. CASE madeFor'[c] = madeFor[c]
  <2>1. account = account' /\ madeFor[c] = account /\ account # 0
    <3>1. madeFor[c] <= uids
      BY DEF UidsAreFresh
    <3> QED
      BY <1>0, <1>2, <3>1, AccountIsOld
  <2>2. Known(c)
    BY <1>0, <2>1 DEF NoneIsForgotten, Current
  <2>3. index[c] # Unlisted => index'[c] # Unlisted
    <3>1. index'[c] \in {index[c], stamp[c]}
      BY <1>0, StripeWrites DEF stripeVars, Stamped, Created, Index, TypeOK
    <3>2. stamp[c] \in 0 .. MaxUID
      BY <1>0 DEF TypeOK, Stamps
    <3> QED
      BY <3>1, <3>2 DEF Unlisted
  <2>4. CASE index[c] # Unlisted
    BY <2>3, <2>4 DEF Known
  <2>5. CASE sc.owner = account /\ sc.customer = c
    <3>1. CASE CollectGarbage
      BY <2>1, <2>5, <3>1 DEF CollectGarbage
    <3>2. CASE DeleteSC
      <4>1. ~Unfindable(c)
        BY <2>5, <3>2 DEF DeleteSC
      <4> QED
        BY <1>0, <2>3, <4>1 DEF Unfindable, Known
    <3>3. CASE UNCHANGED sc
      BY <2>1, <2>5, <3>3 DEF Known
    <3> QED
      BY <1>0, <2>1, <2>5, <3>1, <3>2, <3>3, CustomerWrites
  <2>6. ASSUME NEW w \in Callers, InHand(w, c) PROVE Known(c)'
    <3>1. /\ call[w].pc = "publish" /\ call[w].id = c /\ call[w].copy # c
          /\ call[w].uid = account
      BY <2>1, <2>6 DEF InHand, At
    <3>2. CASE call'[w] = call[w]
      BY <1>2, <2>1, <3>1, <3>2 DEF Known, InHand, At
    <3>3. ASSUME Lost(w) \subseteq strayed' PROVE Known(c)'
      <4>1. ~Unfindable(c)
        BY <1>0, <3>1, <3>3 DEF Lost
      <4> QED
        BY <1>0, <2>3, <4>1 DEF Unfindable, Known
    <3>4. CASE Crash
      <4>1. Lost(w) \subseteq strayed'
        BY <3>1, <3>4 DEF Crash, At
      <4> QED
        BY <3>3, <4>1
    <3>5. CASE PatchFails(w)
      BY <3>3, <3>5 DEF PatchFails
    <3>6. CASE PatchStatus(w)
      <4>1. CASE sc.owner # 0 /\ sc' = [sc EXCEPT !.customer = call[w].id]
        <5>1. sc.owner = account
          BY <3>1, <4>1 DEF PublishedInv, CopyIsCurrent, Holding
        <5>2. sc'.owner = account' /\ sc'.customer = c
          BY <1>0, <2>1, <3>1, <4>1, <5>1 DEF TypeOK
        <5> QED
          BY <5>2 DEF Known
      <4>2. CASE Lost(w) \subseteq strayed'
        BY <3>3, <4>2
      <4> QED
        BY <3>1, <3>6, <4>1, <4>2 DEF PatchStatus
    <3>7. ~(Start(w) \/ GetOrCreate(w) \/ FindExisting(w) \/ UpdateCustomer(w)
            \/ CreateCustomer(w) \/ RecordOnCard(w) \/ ReadFails(w)
            \/ StripeFails(w))
      BY <3>1 DEF Start, GetOrCreate, FindExisting, UpdateCustomer,
                  CreateCustomer, RecordOnCard, ReadFails, StripeFails, At
    <3> QED
      BY <1>0, <3>2, <3>4, <3>5, <3>6, <3>7, CallWrites DEF EnsureStep
  <2> QED
    BY <2>2, <2>4, <2>5, <2>6 DEF Known
<1> QED
  BY <1>1, <1>2

\* A search that finds nothing, in a call without an id, means that there is
\* nothing to find: the lock keeps everyone else from creating meanwhile.
LEMMA FirstStep ==
  ASSUME PublishedInv, UidsAreFresh, StampsAreTrue, NoneIsForgotten,
         CreatesTheFirst, [Next]_vars
  PROVE  CreatesTheFirst'
<1> SUFFICES ASSUME NEW w \in Callers, NEW c \in Customers,
                    call'[w].pc = "write", call'[w].id = 0,
                    call'[w].uid = account', account' # 0,
                    madeFor'[c] = account', c \notin strayed'
             PROVE  FALSE
  BY DEF CreatesTheFirst, Creating, Current, At
<1> USE CustomersAssumption
<1>0. TypeOK /\ c # 0 /\ c \notin strayed /\ call[w].uid <= uids
  BY StrayedGrows DEF PublishedInv, Customers, UidsAreFresh
<1>1. CASE call'[w] = call[w]
  <2>1. account = account'
    BY <1>0, <1>1, AccountIsOld
  <2>2. Creating(w) /\ Holding(w)
    BY <1>1, <2>1 DEF Creating, Holding, At
  <2>3. CASE madeFor'[c] = madeFor[c]
    BY <1>0, <2>1, <2>2, <2>3 DEF CreatesTheFirst, Current
  <2>4. CASE madeFor'[c] # madeFor[c]
    <3>1. PICK v \in Callers :
            /\ At(v, "write")
            /\ call' = [call EXCEPT ![v].pc = "publish", ![v].id = c, ![v].ok = TRUE]
      BY <1>0, <2>4, MadeOnce
    <3>2. v = w
      BY <2>2, <3>1 DEF PublishedInv, HolderIsAlone, Holding, At
    <3>3. call'[w].pc = "publish"
      BY <1>0, <3>1, <3>2 DEF TypeOK, CallStates
    <3> QED
      BY <3>3
  <2> QED
    BY <2>3, <2>4
<1>2. CASE FindExisting(w)
  <2>1. /\ UNCHANGED <<account, stripeVars>>
        /\ call[w].pc = "find" /\ call[w].uid = account
    <3>1. UNCHANGED <<account, stripeVars>> /\ call[w].pc = "find"
      BY <1>2 DEF FindExisting, At, accountVars
    <3>2. call'[w].uid = call[w].uid
      <4>1. PICK d : call' = [call EXCEPT ![w].pc = "write", ![w].id = d,
                                        ![w].searched = seen.recorded = {}]
        BY <1>2 DEF FindExisting
      <4> QED
        BY <1>0, <4>1 DEF TypeOK, CallStates
    <3> QED
      BY <3>1, <3>2
  <2>2. Holding(w) /\ call[w].copy = 0
    BY <2>1 DEF Holding, PublishedInv, CopyIsCurrent
  <2>3. Known(c)
    BY <1>0, <2>1 DEF NoneIsForgotten, Current, stripeVars
  <2>4. Matches(account) = {}
    <3>1. PICK d \in IF (IF seen.recorded # {} THEN seen.recorded
                         ELSE Matches(call[w].uid)) = {}
                     THEN {0}
                     ELSE IF seen.recorded # {} THEN seen.recorded
                          ELSE Matches(call[w].uid) :
            call' = [call EXCEPT ![w].pc = "write", ![w].id = d,
                                 ![w].searched = seen.recorded = {}]
      BY <1>2 DEF FindExisting
    <3>2. d = 0
      BY <1>0, <3>1 DEF TypeOK, CallStates
    <3>3. 0 \notin seen.recorded /\ 0 \notin Matches(call[w].uid)
      BY <1>0 DEF TypeOK, Customers, Matches
    <3> QED
      BY <2>1, <3>1, <3>2, <3>3
  <2>5. index[c] = Unlisted
    <3>1. index[c] \in {Unlisted, 0, account}
      BY <1>0, <2>1 DEF StampsAreTrue, stripeVars
    <3> QED
      BY <2>4, <3>1 DEF Matches
  <2>6. ~(sc.owner = account /\ sc.customer = c)
    BY <1>0, <2>1, <2>2 DEF PublishedInv, CopyIsCurrent
  <2>7. ASSUME NEW v \in Callers PROVE ~InHand(v, c)
    BY <2>1, <2>2 DEF InHand, At, PublishedInv, HolderIsAlone, Holding
  <2> QED
    BY <2>3, <2>5, <2>6, <2>7 DEF Known
<1>3. call'[w] # Idle
  BY DEF Idle
<1>4. call'[w] # [call[w] EXCEPT !.pc = "waiting", !.uid = seen.account]
  <2>1. call[w] \in CallStates
    BY <1>0 DEF TypeOK
  <2> QED
    BY <2>1 DEF CallStates
<1> QED
  BY <1>0, <1>1, <1>2, <1>3, <1>4, CallSteps

\* So there is never a second one.
LEMMA OneStep ==
  ASSUME TypeOK, UidsAreFresh, CreatesTheFirst, OneCustomer, [Next]_vars
  PROVE  OneCustomer'
<1> SUFFICES ASSUME NEW c \in Customers, NEW d \in Customers, c # d,
                    account' # 0, madeFor'[c] = account', madeFor'[d] = account',
                    c \notin strayed', d \notin strayed'
             PROVE  FALSE
  BY DEF OneCustomer
<1>1. c \notin strayed /\ d \notin strayed
  BY StrayedGrows
<1>2. ASSUME NEW a \in Customers, NEW b \in Customers, a # b,
             madeFor'[a] = account', madeFor'[b] = account',
             b \notin strayed, madeFor'[a] # madeFor[a]
      PROVE  FALSE
  <2>1. PICK w \in Callers :
          /\ At(w, "write") /\ call[w].id = 0 /\ madeFor'[a] = call[w].uid
          /\ madeFor'[b] = madeFor[b]
    BY <1>2, MadeOnce
  <2>2. account = account'
    BY <1>2, <2>1, AccountIsOld DEF UidsAreFresh
  <2> QED
    BY <1>2, <2>1, <2>2 DEF CreatesTheFirst, Creating, Current
<1>3. madeFor'[c] = madeFor[c] /\ madeFor'[d] = madeFor[d]
  BY <1>1, <1>2
<1>4. account = account'
  BY <1>3, AccountIsOld DEF UidsAreFresh
<1> QED
  BY <1>1, <1>3, <1>4 DEF OneCustomer

\* The inductive invariant: the Customer of the account is known to somebody who
\* will be asked, and who creates one asked everybody, under the lock.
THEOREM OneCustomerInvariant == Spec => []OneCustomerInv
<1>1. PublishedInv /\ OneCustomerInv /\ [Next]_vars => OneCustomerInv'
  BY UidsStep, IdsStep, StampsStep, KnownStep, FirstStep, OneStep
     DEF OneCustomerInv, PublishedInv
<1> QED
  BY <1>1, InitOneCustomer, PublishedInvariant, PTL DEF Spec

-----------------------------------------------------------------------------
(* What follows                                                             *)

\* An account gets a second Stripe Customer only after the id of one was lost
\* while the search did not list it, or another account took it over.
THEOREM NoSecondCustomer == Spec => []OneCustomer
<1>1. OneCustomerInv => OneCustomer
  BY DEF OneCustomerInv
<1> QED
  BY <1>1, OneCustomerInvariant, PTL

\* All cards of the first account of the name are on the Customer that its
\* StripeCustomer names, as long as no Customer went astray.
THEOREM CardsAreOnOneCustomer == Spec => []CardsShareTheCustomer
<1>1. TypeOK /\ OneCustomerInv => CardsShareTheCustomer
  <2> SUFFICES ASSUME TypeOK, OneCustomerInv, account = 1, strayed = {}
               PROVE  /\ \A c, d \in recorded : c = d
                      /\ \A c \in recorded : sc.customer \in {0, c}
    BY DEF CardsShareTheCustomer
  <2>1. uids = 1
    BY DEF OneCustomerInv, UidsAreFresh
  <2>2. ASSUME NEW c \in Customers, Made(c) PROVE madeFor[c] = account
    <3>1. madeFor[c] \in Nat /\ madeFor[c] # 0 /\ madeFor[c] <= 1
      BY <2>1, <2>2 DEF TypeOK, OneCustomerInv, UidsAreFresh, Made
    <3> QED
      BY <3>1
  <2>3. ASSUME NEW c \in Customers, NEW d \in Customers, Made(c), Made(d)
        PROVE  c = d
    BY <2>2, <2>3 DEF OneCustomerInv, OneCustomer
  <2>4. \A c \in recorded : c \in Customers /\ Made(c)
    BY DEF TypeOK, OneCustomerInv, IdsAreOfCustomers
  <2>5. sc.customer # 0 => sc.customer \in Customers /\ Made(sc.customer)
    BY DEF TypeOK, CustomerRefs, Customers, OneCustomerInv, IdsAreOfCustomers
  <2> QED
    BY <2>3, <2>4, <2>5
<1>2. PublishedInv => TypeOK
  BY DEF PublishedInv
<1> QED
  BY <1>1, <1>2, OneCustomerInvariant, PublishedInvariant, PTL

-----------------------------------------------------------------------------
(* As long as nothing fails                                                 *)

\* What went astray is a Customer.
StrayedAreMade == \A c \in strayed : Made(c)

\* The StripeCustomer that a call for the account works on is there ...
HolderHasEntry ==
  \A w \in Callers : Holding(w) /\ call[w].uid = account => sc.owner = account

\* ... and names a Customer made for the account, or the call that made it will.
MadeIsEntered ==
  account > 1 =>
    \A c \in Customers : madeFor[c] = account =>
      /\ sc.owner = account
      /\ sc.customer = c \/ \E w \in Callers : InHand(w, c)

\* So no other account gets hold of it.
OwnIsNotStrayed == \A c \in Customers : madeFor[c] = account => c \notin strayed

Untroubled ==
  faults = 0 /\ account # 0 => HolderHasEntry /\ MadeIsEntered /\ OwnIsNotStrayed

UntroubledInv == StrayedAreMade /\ Untroubled

LEMMA InitUntroubled == Init => UntroubledInv
<1> SUFFICES ASSUME Init PROVE UntroubledInv
  OBVIOUS
<1>1. account = 1 /\ strayed = {} /\ \A w \in Callers : call[w] = Idle
  BY DEF Init
<1> QED
  BY <1>1 DEF UntroubledInv, StrayedAreMade, Untroubled, HolderHasEntry,
              MadeIsEntered, OwnIsNotStrayed, Holding, Idle

\* A Customer goes astray from the StripeCustomer, from a call, or as it is made.
LEMMA StrayedComes ==
  ASSUME [Next]_vars, NEW c \in strayed' \ strayed
  PROVE  \/ c = sc.customer /\ c # 0
         \/ \E w \in Callers : c = call[w].id /\ c # 0
         \/ c \in Customers /\ \E w \in Callers :
              At(w, "write") /\ Created(c, call[w].uid)
<1>1. CASE DeleteSC
  BY <1>1 DEF DeleteSC, Unfindable
<1>2. ASSUME NEW w \in Callers, UpdateCustomer(w) \/ StripeFails(w)
      PROVE  \/ c = call[w].id /\ c # 0
             \/ c \in Customers /\ At(w, "write") /\ Created(c, call[w].uid)
  BY <1>2 DEF UpdateCustomer, StripeFails, Stamped
<1>3. ASSUME NEW w \in Callers, PatchStatus(w) \/ PatchFails(w)
      PROVE  c = call[w].id /\ c # 0
  BY <1>3 DEF PatchStatus, PatchFails, Lost, Unfindable
<1>4. CASE Crash
  BY <1>4 DEF Crash, Lost, Unfindable
<1>5. \/ UNCHANGED strayed \/ DeleteSC \/ Crash
      \/ \E w \in Callers : \/ UpdateCustomer(w) \/ StripeFails(w)
                            \/ PatchStatus(w) \/ PatchFails(w)
  BY DEF Next, vars, EnsureStep, DeleteAccount, RecreateAccount, CollectGarbage,
     SyncAccount, SyncCards, DeleteCard, Index, Start, GetOrCreate, FindExisting,
     CreateCustomer, RecordOnCard, ReadFails
<1> QED
  BY <1>1, <1>2, <1>3, <1>4, <1>5

LEMMA StrayedStep ==
  ASSUME TypeOK, UidsAreFresh, IdsAreOfCustomers, StrayedAreMade, [Next]_vars
  PROVE  StrayedAreMade'
<1> SUFFICES ASSUME NEW c \in strayed' PROVE madeFor'[c] # 0
  BY DEF StrayedAreMade, Made
<1> USE CustomersAssumption
<1>1. ASSUME c \in Customers, Made(c) PROVE madeFor'[c] # 0
  BY <1>1, MadeStays DEF Made
<1>2. CASE c \in strayed
  BY <1>1, <1>2 DEF StrayedAreMade, TypeOK
<1>3. CASE c = sc.customer /\ c # 0
  BY <1>1, <1>3 DEF IdsAreOfCustomers, TypeOK, CustomerRefs, Customers
<1>4. ASSUME NEW w \in Callers, c = call[w].id, c # 0 PROVE madeFor'[c] # 0
  BY <1>1, <1>4 DEF IdsAreOfCustomers, TypeOK, CallStates, CustomerRefs, Customers
<1>5. ASSUME c \in Customers, NEW w \in Callers,
             At(w, "write"), Created(c, call[w].uid)
      PROVE  madeFor'[c] # 0
  BY <1>5 DEF Created, TypeOK, UidsAreFresh, Working, At
<1> QED
  BY <1>2, <1>3, <1>4, <1>5, StrayedComes

\* A step that is not a failure.
LEMMA CalmStep ==
  ASSUME TypeOK, [Next]_vars, faults' = 0
  PROVE  /\ faults = 0
         /\ ~DeleteSC /\ ~Crash
         /\ \A w \in Callers : ~ReadFails(w) /\ ~StripeFails(w) /\ ~PatchFails(w)
<1>1. faults \in Nat
  BY CustomersAssumption DEF TypeOK
<1>2. faults' = faults \/ faults' = faults + 1
  BY DEF Next, vars, Fails, EnsureStep, DeleteAccount, RecreateAccount,
     CollectGarbage, DeleteSC, SyncAccount, SyncCards, Crash, DeleteCard, Index,
     Start, GetOrCreate, FindExisting, UpdateCustomer, CreateCustomer,
     PatchStatus, RecordOnCard, ReadFails, StripeFails, PatchFails
<1>3. ASSUME faults' = faults + 1 PROVE FALSE
  BY <1>1, <1>3
<1>4. ~DeleteSC /\ ~Crash
      /\ \A w \in Callers : ~ReadFails(w) /\ ~StripeFails(w) /\ ~PatchFails(w)
  BY <1>3 DEF DeleteSC, Crash, ReadFails, StripeFails, PatchFails, Fails
<1> QED
  BY <1>1, <1>2, <1>3, <1>4

\* What the account has in its StripeCustomer it keeps.
LEMMA EntryStays ==
  ASSUME PublishedInv, [Next]_vars, faults' = 0, account # 0, sc.owner = account
  PROVE  /\ sc'.owner = account
         /\ sc.customer # 0 => sc'.customer = sc.customer
<1>1. ~DeleteSC
  BY CalmStep DEF PublishedInv
<1>2. ~CollectGarbage
  BY DEF CollectGarbage
<1> QED
  BY <1>1, <1>2, CustomerWrites

LEMMA HolderHasEntryStep ==
  ASSUME PublishedInv, HolderHasEntry, [Next]_vars, faults' = 0,
         account # 0, UNCHANGED account
  PROVE  HolderHasEntry'
<1> SUFFICES ASSUME NEW w \in Callers, Holding(w)', call'[w].uid = account
             PROVE  sc'.owner = account
  BY DEF HolderHasEntry
<1>0. TypeOK
  BY DEF PublishedInv
<1>1. CASE Holding(w) /\ call[w].uid = account
  BY <1>1, EntryStays DEF HolderHasEntry
<1>2. CASE GetOrCreate(w)
  <2> DEFINE found == IF sc.owner = 0 THEN [owner |-> call[w].uid, customer |-> 0]
                      ELSE sc
  <2>1. sc' = found
    BY <1>2 DEF GetOrCreate
  <2>2. CASE Owned(found, call[w].uid)
    <3>1. call'[w].uid = call[w].uid
      BY <1>0, <1>2, <2>2 DEF GetOrCreate, TypeOK, CallStates
    <3> QED
      BY <2>1, <2>2, <3>1 DEF Owned
  <2>3. CASE ~Owned(found, call[w].uid)
    BY <1>0, <1>2, <2>3 DEF GetOrCreate, Return, TypeOK, Holding, Idle
  <2> QED
    BY <2>2, <2>3
<1>3. CASE call'[w] = call[w]
  BY <1>1, <1>3 DEF Holding
<1>4. CASE call'[w] = Idle \/ call'[w].pc = "record"
  BY <1>4 DEF Holding, Idle
<1>5. CASE call'[w] = [call[w] EXCEPT !.pc = "waiting", !.uid = seen.account]
  <2>1. call[w] \in CallStates
    BY <1>0 DEF TypeOK
  <2>2. call'[w].pc = "waiting"
    BY <1>5, <2>1 DEF CallStates
  <2> QED
    BY <2>2 DEF Holding
<1>6. CASE (FindExisting(w) \/ At(w, "write") \/ At(w, "find"))
           /\ call'[w].uid = call[w].uid
  BY <1>1, <1>6 DEF FindExisting, Holding, At
<1> QED
  BY <1>0, <1>2, <1>3, <1>4, <1>5, <1>6, CallSteps

LEMMA MadeIsEnteredStep ==
  ASSUME PublishedInv, UidsAreFresh, HolderHasEntry, MadeIsEntered, [Next]_vars,
         faults' = 0, account # 0, UNCHANGED account
  PROVE  MadeIsEntered'
<1> SUFFICES ASSUME account > 1, NEW c \in Customers, madeFor'[c] = account
             PROVE  /\ sc'.owner = account
                    /\ sc'.customer = c \/ \E w \in Callers : InHand(w, c)'
  BY DEF MadeIsEntered
<1> USE CustomersAssumption
<1>0. TypeOK /\ c # 0
  BY DEF PublishedInv, Customers
<1>1. CASE madeFor'[c] = madeFor[c]
  <2>1. sc.owner = account
    BY <1>1 DEF MadeIsEntered
  <2>2. CASE sc.customer = c
    BY <1>0, <2>1, <2>2, EntryStays
  <2>3. ASSUME NEW w \in Callers, InHand(w, c)
        PROVE  sc'.customer = c \/ InHand(w, c)'
    <3>1. call[w].pc = "publish" /\ call[w].id = c /\ call[w].copy # c
      BY <2>3 DEF InHand, At
    <3>2. CASE call'[w] = call[w]
      BY <1>1, <2>3, <3>2 DEF InHand, At
    <3>3. CASE PatchStatus(w)
      BY <1>0, <2>1, <3>1, <3>3 DEF PatchStatus, TypeOK
    <3>4. ~(Start(w) \/ GetOrCreate(w) \/ FindExisting(w) \/ UpdateCustomer(w)
            \/ CreateCustomer(w) \/ RecordOnCard(w))
      BY <3>1 DEF Start, GetOrCreate, FindExisting, UpdateCustomer,
                  CreateCustomer, RecordOnCard, At
    <3> QED
      BY <1>0, <3>2, <3>3, <3>4, CallWrites, CalmStep DEF EnsureStep
  <2> QED
    BY <1>1, <2>1, <2>2, <2>3, EntryStays DEF MadeIsEntered
<1>2. CASE madeFor'[c] # madeFor[c]
  <2>1. PICK w \in Callers : CreateCustomer(w)
    <3>1. \/ UNCHANGED madeFor
          \/ \E w \in Callers : CreateCustomer(w) \/ StripeFails(w)
      BY DEF Next, vars, stripeVars, EnsureStep, DeleteAccount, RecreateAccount,
         CollectGarbage, DeleteSC, SyncAccount, SyncCards, Crash, DeleteCard,
         Index, Start, GetOrCreate, FindExisting, UpdateCustomer, Stamped,
         PatchStatus, RecordOnCard, ReadFails, PatchFails
    <3> QED
      BY <1>0, <1>2, <3>1, CalmStep
  <2>2. /\ call[w].pc = "write" /\ call[w].id = 0
        /\ Created(c, call[w].uid)
        /\ call' = [call EXCEPT ![w].pc = "publish", ![w].id = c, ![w].ok = TRUE]
    <3>1. PICK d \in Customers :
            /\ Created(d, call[w].uid)
            /\ call' = [call EXCEPT ![w].pc = "publish", ![w].id = d,
                                    ![w].ok = TRUE]
      BY <2>1 DEF CreateCustomer
    <3>2. d = c
      BY <1>0, <1>2, <3>1 DEF Created, TypeOK
    <3> QED
      BY <2>1, <3>1, <3>2 DEF CreateCustomer, At
  <2>3. call[w].uid = account /\ Holding(w) /\ call[w].copy = 0
    BY <1>0, <2>2 DEF Created, TypeOK, Holding, PublishedInv, CopyIsCurrent
  <2>4. sc'.owner = account
    BY <2>3, EntryStays DEF HolderHasEntry
  <2>5. InHand(w, c)'
    BY <1>0, <2>2, <2>3 DEF InHand, At, TypeOK, CallStates
  <2> QED
    BY <2>4, <2>5
<1> QED
  BY <1>1, <1>2

LEMMA OwnIsNotStrayedStep ==
  ASSUME PublishedInv, UidsAreFresh, StrayedAreMade, HolderHasEntry,
         MadeIsEntered, OwnIsNotStrayed, [Next]_vars,
         faults' = 0, account # 0, UNCHANGED account
  PROVE  OwnIsNotStrayed'
<1> SUFFICES ASSUME NEW c \in Customers, madeFor'[c] = account, c \in strayed'
             PROVE  FALSE
  BY DEF OwnIsNotStrayed
<1>0. TypeOK
  BY DEF PublishedInv
<1>1. CASE c \in strayed
  BY <1>0, <1>1, MadeStays DEF OwnIsNotStrayed, StrayedAreMade
<1>2. ASSUME NEW w \in Callers, Holding(w), call[w].uid # account,
             madeFor[c] = account
      PROVE  FALSE
  <2>1. call[w].uid \in 1 .. uids /\ account = uids
    BY <1>0, <1>2 DEF UidsAreFresh, Working, Holding, TypeOK, CallStates, UIDs
  <2>2. account > 1 /\ sc.owner = account
    BY <1>0, <1>2, <2>1 DEF MadeIsEntered, TypeOK, UIDs
  <2> QED
    BY <1>2, <2>2 DEF PublishedInv, CopyIsCurrent
<1>3. ASSUME NEW w \in Callers, UpdateCustomer(w), c \notin strayed PROVE FALSE
  <2>1. Holding(w) /\ madeFor' = madeFor /\ madeFor[c] # call[w].uid
    BY <1>3 DEF UpdateCustomer, Stamped, Holding, At
  <2> QED
    BY <1>2, <2>1
<1>4. ASSUME NEW w \in Callers, PatchStatus(w), c \notin strayed PROVE FALSE
  <2>1. Holding(w) /\ madeFor' = madeFor /\ sc.owner = 0
    BY <1>4 DEF PatchStatus, stripeVars, Holding, At
  <2>2. call[w].uid # account
    BY <2>1 DEF HolderHasEntry
  <2> QED
    BY <1>2, <2>1, <2>2
<1>5. \/ UNCHANGED strayed
      \/ \E w \in Callers : UpdateCustomer(w) \/ PatchStatus(w)
  <2>1. \/ UNCHANGED strayed \/ DeleteSC \/ Crash
        \/ \E w \in Callers : \/ UpdateCustomer(w) \/ PatchStatus(w)
                              \/ StripeFails(w) \/ PatchFails(w)
    BY DEF Next, vars, EnsureStep, DeleteAccount, RecreateAccount, CollectGarbage,
       SyncAccount, SyncCards, DeleteCard, Index, Start, GetOrCreate,
       FindExisting, CreateCustomer, RecordOnCard, ReadFails
  <2> QED
    BY <1>0, <2>1, CalmStep
<1> QED
  BY <1>1, <1>3, <1>4, <1>5

\* A new account has no Customer, and nobody works for it.
LEMMA UntroubledStep ==
  ASSUME PublishedInv, UidsAreFresh, StrayedAreMade, Untroubled, [Next]_vars
  PROVE  Untroubled'
<1> SUFFICES ASSUME faults' = 0, account' # 0
             PROVE  HolderHasEntry' /\ MadeIsEntered' /\ OwnIsNotStrayed'
  BY DEF Untroubled
<1>0. TypeOK /\ faults = 0
  BY CalmStep DEF PublishedInv
<1>1. CASE UNCHANGED account
  BY <1>0, <1>1, HolderHasEntryStep, MadeIsEnteredStep, OwnIsNotStrayedStep
     DEF Untroubled
<1>2. CASE RecreateAccount
  <2>1. /\ account' = uids + 1 /\ uids \in Nat
        /\ UNCHANGED <<call, madeFor>>
    BY <1>0, <1>2 DEF RecreateAccount, TypeOK, UIDs, stripeVars
  <2>2. \A w \in Callers : call[w].uid \in Nat /\ call[w].uid <= uids
    BY <1>0 DEF TypeOK, CallStates, UidsAreFresh
  <2>3. \A c \in Customers : madeFor[c] \in Nat /\ madeFor[c] <= uids
    BY <1>0 DEF TypeOK, UidsAreFresh
  <2>4. /\ \A w \in Callers : call'[w].uid # account'
        /\ \A c \in Customers : madeFor'[c] # account'
    BY <2>1, <2>2, <2>3
  <2> QED
    BY <2>4 DEF HolderHasEntry, MadeIsEntered, OwnIsNotStrayed
<1>3. UNCHANGED account \/ DeleteAccount \/ RecreateAccount
  BY DEF Next, vars, accountVars, EnsureStep, CollectGarbage, DeleteSC,
     SyncAccount, SyncCards, Crash, DeleteCard, Index, Start, GetOrCreate,
     FindExisting, UpdateCustomer, CreateCustomer, PatchStatus, RecordOnCard,
     ReadFails, StripeFails, PatchFails
<1> QED
  BY <1>1, <1>2, <1>3 DEF DeleteAccount

\* Short of a failure, a Customer made for the account that is there stays its own.
THEOREM UntroubledInvariant == Spec => []UntroubledInv
<1>1. PublishedInv /\ OneCustomerInv /\ UntroubledInv /\ [Next]_vars
        => UntroubledInv'
  BY StrayedStep, UntroubledStep DEF UntroubledInv, OneCustomerInv, PublishedInv
<1> QED
  BY <1>1, InitUntroubled, PublishedInvariant, OneCustomerInvariant, PTL DEF Spec

\* As long as nothing fails, the account that is there has one Customer made for it,
\* whatever went on with earlier accounts of the name.
THEOREM OneCustomerWithoutFailure == Spec => []OneWithoutFailure
<1>1. OneCustomerInv /\ UntroubledInv => OneWithoutFailure
  BY DEF OneCustomerInv, OneCustomer, UntroubledInv, Untroubled, OwnIsNotStrayed,
         OneWithoutFailure
<1> QED
  BY <1>1, OneCustomerInvariant, UntroubledInvariant, PTL

-----------------------------------------------------------------------------
(* StripeCustomers implements CustomerRegistry                              *)

RegistryStep == Registry!Next \/ UNCHANGED Registry!registryVars

KnownInv == PublishedInv /\ OneCustomerInv /\ UntroubledInv

LEMMA RegistryInit == Init => Registry!Init
<1> SUFFICES ASSUME Init PROVE Registry!Init
  OBVIOUS
<1>1. PICK old \in {{}} \union (IF Legacy THEN {{1}} ELSE {}) :
        madeFor = [c \in Customers |-> IF c \in old THEN 1 ELSE 0]
  BY DEF Init
<1>2. old \in SUBSET ({1} \cap Customers)
  BY <1>1, CustomersAssumption DEF Customers
<1>3. account = 1 /\ uids = 1 /\ sc = Registry!NoEntry /\ ~(faults > 0)
  BY DEF Init, NoSC, Registry!NoEntry
<1> QED
  BY <1>1, <1>2, <1>3 DEF Registry!Init

\* Failures add up.
LEMMA FaultSteps ==
  ASSUME TypeOK, [Next]_vars
  PROVE  faults > 0 => faults' > 0
<1>1. faults' = faults \/ faults' = faults + 1
  BY DEF Next, vars, Fails, EnsureStep, DeleteAccount, RecreateAccount,
     CollectGarbage, DeleteSC, SyncAccount, SyncCards, Crash, DeleteCard, Index,
     Start, GetOrCreate, FindExisting, UpdateCustomer, CreateCustomer,
     PatchStatus, RecordOnCard, ReadFails, StripeFails, PatchFails
<1>2. faults \in Nat
  BY CustomersAssumption DEF TypeOK
<1> QED
  BY <1>1, <1>2

LEMMA FailureIsSeen ==
  ASSUME TypeOK, Fails
  PROVE  faults' > 0
<1>1. faults \in Nat /\ faults' = faults + 1
  BY CustomersAssumption DEF TypeOK, Fails
<1> QED
  BY <1>1

\* Whoever makes a Customer for the account that is there makes its first.
LEMMA MakesTheFirst ==
  ASSUME KnownInv, NEW w \in Callers, NEW c \in Customers,
         At(w, "write"), call[w].id = 0, Created(c, call[w].uid),
         UNCHANGED <<accountVars, sc>>, faults > 0 => faults' > 0
  PROVE  Registry!Next
<1>1. TypeOK /\ call[w].uid \in 1 .. uids
  BY DEF KnownInv, PublishedInv, OneCustomerInv, UidsAreFresh, Working, At,
         TypeOK, CallStates, UIDs
<1>2. ASSUME faults = 0, call[w].uid = account
      PROVE  Registry!Of(call[w].uid) = {}
  <2>1. account # 0 /\ Creating(w)
    BY <1>1, <1>2 DEF Creating
  <2>2. ASSUME NEW d \in Customers, madeFor[d] = account PROVE FALSE
    BY <1>2, <2>1, <2>2 DEF KnownInv, OneCustomerInv, CreatesTheFirst, Current,
                           UntroubledInv, Untroubled, OwnIsNotStrayed
  <2> QED
    BY <1>2, <2>2 DEF Registry!Of
<1>3. faults > 0 \/ faults = 0
  BY <1>1, CustomersAssumption DEF TypeOK
<1>4. Registry!Make(c, call[w].uid)
  BY <1>2, <1>3 DEF Created, accountVars, Registry!Make, Registry!MayFail
<1> QED
  BY <1>1, <1>4 DEF Registry!Next

\* A status patch publishes nothing, or the Customer that the call has in hand.
LEMMA PublishesOwn ==
  ASSUME KnownInv, NEW w \in Callers, PatchStatus(w)
  PROVE  RegistryStep
<1> USE CustomersAssumption
<1>0. TypeOK /\ call[w] \in CallStates
      /\ sc \in [owner : 0 .. MaxUID, customer : CustomerRefs]
  BY DEF KnownInv, PublishedInv, TypeOK
<1>1. /\ UNCHANGED <<account, uids, madeFor, faults>>
      /\ Holding(w) /\ At(w, "publish")
  BY DEF PatchStatus, accountVars, stripeVars, Holding, At
<1>2. CASE UNCHANGED sc
  BY <1>1, <1>2 DEF RegistryStep, Registry!registryVars
<1>3. CASE sc' # sc
  <2> DEFINE id == call[w].id
  <2>1. /\ sc.owner # 0 /\ id # call[w].copy
        /\ sc' = [sc EXCEPT !.customer = id]
    BY <1>0, <1>3 DEF PatchStatus
  <2>2. /\ sc.owner = call[w].uid /\ sc.customer = 0 /\ call[w].copy = 0
        /\ id \in Customers /\ Made(id)
    BY <1>0, <1>1, <2>1
       DEF KnownInv, PublishedInv, CopyIsCurrent, OneCustomerInv,
           IdsAreOfCustomers, CallStates, CustomerRefs, Customers
  <2>3. ASSUME faults = 0, sc.owner = account, NEW d \in Customers,
               madeFor[d] = account
        PROVE  d = id
    <3>1. CASE account > 1
      <4>1. sc.customer = d \/ \E v \in Callers : InHand(v, d)
        BY <2>1, <2>3, <3>1
           DEF KnownInv, UntroubledInv, Untroubled, MadeIsEntered
      <4>2. d # 0
        BY DEF Customers
      <4> QED
        BY <1>1, <2>2, <4>1, <4>2
           DEF KnownInv, PublishedInv, HolderIsAlone, Holding, InHand, At
    <3>2. CASE ~(account > 1)
      <4>1. account = 1 /\ uids = 1
        BY <1>0, <2>1, <2>3, <3>2 DEF TypeOK, KnownInv, OneCustomerInv, UidsAreFresh
      <4>2. madeFor[id] \in Nat /\ madeFor[id] # 0 /\ madeFor[id] <= 1
        BY <1>0, <2>2, <4>1
           DEF TypeOK, KnownInv, OneCustomerInv, UidsAreFresh, Made
      <4>3. madeFor[id] = account
        BY <4>1, <4>2
      <4> QED
        BY <2>2, <2>3, <4>1, <4>3
           DEF KnownInv, OneCustomerInv, OneCustomer, UntroubledInv, Untroubled,
               OwnIsNotStrayed
    <3> QED
      BY <3>1, <3>2
  <2>4. faults > 0 \/ sc.owner # account \/ Registry!Of(account) \subseteq {id}
    <3>1. faults > 0 \/ faults = 0
      BY <1>0 DEF TypeOK
    <3> QED
      BY <2>3, <3>1 DEF Registry!Of
  <2>5. Registry!Publish(id)
    BY <1>1, <2>1, <2>2, <2>4 DEF Registry!Publish, Made
  <2> QED
    BY <2>2, <2>5 DEF RegistryStep, Registry!Next
<1> QED
  BY <1>2, <1>3

\* The steps of one caller.
LEMMA CallerSteps ==
  ASSUME KnownInv, [Next]_vars, NEW w \in Callers,
         \/ Start(w) \/ EnsureStep(w)
         \/ ReadFails(w) \/ StripeFails(w) \/ PatchFails(w)
  PROVE  RegistryStep
<1> USE DEF accountVars, stripeVars, RegistryStep, Registry!registryVars
<1>0. TypeOK /\ (faults > 0 => faults' > 0)
  BY FaultSteps DEF KnownInv, PublishedInv
<1>1. CASE Start(w) \/ FindExisting(w) \/ RecordOnCard(w)
  BY <1>1 DEF Start, FindExisting, RecordOnCard
<1>2. CASE UpdateCustomer(w)
  BY <1>2 DEF UpdateCustomer, Stamped
<1>3. CASE GetOrCreate(w)
  <2>1. UNCHANGED <<account, uids, madeFor, faults>>
    BY <1>3 DEF GetOrCreate
  <2>2. call[w].uid \in 1 .. uids
    BY <1>0, <1>3 DEF GetOrCreate, KnownInv, OneCustomerInv, UidsAreFresh,
                      Working, At, TypeOK, CallStates, UIDs
  <2>3. CASE sc.owner = 0
    <3>1. Registry!Enter(call[w].uid)
      BY <1>3, <2>1, <2>3 DEF GetOrCreate, Registry!Enter
    <3> QED
      BY <2>2, <3>1 DEF Registry!Next
  <2>4. CASE sc.owner # 0
    BY <1>3, <2>1, <2>4 DEF GetOrCreate
  <2> QED
    BY <2>3, <2>4
<1>4. CASE CreateCustomer(w)
  <2>1. PICK c \in Customers : Created(c, call[w].uid)
    BY <1>4 DEF CreateCustomer
  <2>2. /\ At(w, "write") /\ call[w].id = 0
        /\ UNCHANGED <<account, uids, sc, faults>>
    BY <1>4 DEF CreateCustomer
  <2> QED
    BY <1>0, <2>1, <2>2, MakesTheFirst
<1>5. CASE PatchStatus(w)
  BY <1>5, PublishesOwn
<1>6. CASE ReadFails(w) \/ PatchFails(w)
  <2>1. faults' > 0 /\ UNCHANGED <<account, uids, sc, madeFor>>
    BY <1>0, <1>6, FailureIsSeen DEF ReadFails, PatchFails
  <2> QED
    BY <2>1 DEF Registry!Next, Registry!Fail
<1>7. CASE StripeFails(w)
  <2>1. faults' > 0 /\ UNCHANGED <<account, uids, sc>>
    BY <1>0, <1>7, FailureIsSeen DEF StripeFails
  <2>2. \/ UNCHANGED madeFor
        \/ At(w, "write") /\ call[w].id = 0
           /\ \E c \in Customers : Created(c, call[w].uid)
    BY <1>7 DEF StripeFails, Stamped
  <2>3. CASE UNCHANGED madeFor
    BY <2>1, <2>3 DEF Registry!Next, Registry!Fail
  <2> QED
    BY <2>1, <2>2, <2>3, MakesTheFirst
<1> QED
  BY <1>1, <1>2, <1>3, <1>4, <1>5, <1>6, <1>7 DEF EnsureStep

\* Every step of the callers, the cluster and Stripe is one of the registry, or
\* shows nothing of it.
THEOREM RegistryImplemented == Spec => ImplementsRegistry
<1>1. KnownInv /\ [Next]_vars => RegistryStep
  <2> SUFFICES ASSUME KnownInv, [Next]_vars PROVE RegistryStep
    OBVIOUS
  <2> USE DEF accountVars, stripeVars, RegistryStep, Registry!registryVars
  <2>0. TypeOK /\ (faults > 0 => faults' > 0)
    BY FaultSteps DEF KnownInv, PublishedInv
  <2>1. CASE DeleteAccount
    BY <2>1 DEF DeleteAccount, Registry!Next, Registry!Delete
  <2>2. CASE RecreateAccount
    BY <2>2 DEF RecreateAccount, Registry!Next, Registry!Recreate
  <2>3. CASE CollectGarbage
    <3>1. Registry!Vanish
      BY <2>0, <2>3 DEF CollectGarbage, NoSC, Registry!Vanish, Registry!MayFail,
                        Registry!NoEntry
    <3> QED
      BY <3>1 DEF Registry!Next
  <2>4. CASE DeleteSC
    <3>1. faults' > 0
      BY <2>0, <2>4, FailureIsSeen DEF DeleteSC, Fails
    <3>2. Registry!Vanish
      BY <2>4, <3>1 DEF DeleteSC, NoSC, Registry!Vanish, Registry!MayFail,
                        Registry!NoEntry
    <3> QED
      BY <3>2 DEF Registry!Next
  <2>5. CASE Crash
    <3>1. faults' > 0
      BY <2>0, <2>5, FailureIsSeen DEF Crash
    <3> QED
      BY <2>5, <3>1 DEF Crash, Registry!Next, Registry!Fail
  <2>6. CASE SyncAccount \/ SyncCards \/ \E c \in Customers : DeleteCard(c) \/ Index(c)
    BY <2>6 DEF SyncAccount, SyncCards, DeleteCard, Index
  <2>7. CASE UNCHANGED vars
    BY <2>7 DEF vars
  <2> QED
    BY <2>1, <2>2, <2>3, <2>4, <2>5, <2>6, <2>7, CallerSteps DEF Next
<1>2. Spec => []KnownInv
  BY PublishedInvariant, OneCustomerInvariant, UntroubledInvariant, PTL DEF KnownInv
<1>3. KnownInv /\ [Next]_vars => [Registry!Next]_(Registry!registryVars)
  BY <1>1 DEF RegistryStep
<1> QED
  BY <1>2, <1>3, RegistryInit, PTL DEF Spec, ImplementsRegistry, Registry!Spec
=============================================================================
