-------------------------- MODULE AccountSyncProofs --------------------------
(***************************************************************************)
(* Proofs about AccountSync, for every set of names, projects and tax ids   *)
(* and every number of edits and failures: no reconcile, however late, is   *)
(* the last to write what it read before a change.                          *)
(***************************************************************************)
EXTENDS AccountSync, TLAPS

-----------------------------------------------------------------------------
(* What the operators of CustomerDetails return                             *)

\* The details of an account that can exist are details.
LEMMA DetailsOfType ==
  ASSUME NEW a \in Accounts, NEW b \in SUBSET Projects, NEW c \in BOOLEAN
  PROVE  DetailsOf(a, b, c) \in Details
BY DEF DetailsOf, Accounts, Details

\* The ids that Stripe can have after reconcileTaxIDs, finished or not.
LEMMA TaxIDsType ==
  ASSUME NEW desired \in Seq(TaxIDs), NEW existing \in SUBSET TaxIDs
  PROVE  /\ ReconcileTaxIDs(desired, existing) \in SUBSET TaxIDs
         /\ InterruptedTaxIDs(desired, existing) \subseteq SUBSET TaxIDs
<1>1. \A k \in DOMAIN desired : desired[k] \in TaxIDs
  OBVIOUS
<1>2. Values(desired) \subseteq TaxIDs /\ Created(desired) \subseteq TaxIDs
  BY <1>1 DEF Values, Created
<1>3. ReconcileTaxIDs(desired, existing) \in SUBSET TaxIDs
  BY <1>2 DEF ReconcileTaxIDs
<1>4. \A ids \in InterruptedTaxIDs(desired, existing) : ids \subseteq TaxIDs
  <2> SUFFICES ASSUME NEW ids \in InterruptedTaxIDs(desired, existing)
               PROVE  ids \subseteq TaxIDs
    OBVIOUS
  <2>1. CASE \E k \in DOMAIN desired :
               ids = existing \union {desired[i] : i \in {j \in DOMAIN desired : j < k}}
    BY <1>1, <2>1
  <2>2. CASE \E left \in SUBSET existing : ids = Values(desired) \union left
    BY <1>2, <2>2
  <2> QED
    BY <2>1, <2>2 DEF InterruptedTaxIDs
<1> QED
  BY <1>3, <1>4

\* A Customer that is written shows the card, the projects and the arrangement of
\* the details, and their name if they have one.
LEMMA Written ==
  ASSUME NEW cu \in Customers, NEW d \in Details, NEW ids \in SUBSET TaxIDs
  PROVE  LET w == WithDetails(cu, d)
             t == [w EXCEPT !.tax = ids] IN
           /\ w \in Customers /\ t \in Customers
           /\ w.card = d.card /\ t.card = d.card
           /\ t.made /\ t.tax = ids /\ t.projects = JoinNames[d.projects]
           /\ t.invoice = d.invoice
           /\ t.name \in IF d.name = NoName THEN Names ELSE {d.name}
BY DetailsAssumption DEF WithDetails, NameAfter, Customers, Details

\* A call that failed leaves a Customer, with the card it had or the one written.
LEMMA Interrupted ==
  ASSUME NEW w \in Workers, task[w].details \in Details, customer \in Customers,
         EnsureFails(w)
  PROVE  /\ customer' \in Customers
         /\ customer'.card => customer.card \/ task[w].details.card
<1>1. task[w].details.tax \in Seq(TaxIDs) /\ customer.tax \in SUBSET TaxIDs
  BY DEF Details, Customers
<1>2. CASE customer' = customer
  BY <1>2
<1>3. CASE \E ids \in {customer.tax, ReconcileTaxIDs(task[w].details.tax, customer.tax)} :
             customer' = [WithDetails(customer, task[w].details) EXCEPT !.tax = ids]
  <2>1. PICK ids \in {customer.tax, ReconcileTaxIDs(task[w].details.tax, customer.tax)} :
          customer' = [WithDetails(customer, task[w].details) EXCEPT !.tax = ids]
    BY <1>3
  <2>2. ids \in SUBSET TaxIDs
    BY <1>1, TaxIDsType
  <2>3. /\ [WithDetails(customer, task[w].details) EXCEPT !.tax = ids] \in Customers
        /\ [WithDetails(customer, task[w].details) EXCEPT !.tax = ids].card
             = task[w].details.card
    <3> DEFINE t == [WithDetails(customer, task[w].details) EXCEPT !.tax = ids]
    <3>1. t \in Customers
      BY <2>2, Written
    <3>2. t.card = task[w].details.card
      BY DEF WithDetails, Customers
    <3> QED
      BY <3>1, <3>2
  <2> QED
    BY <2>1, <2>3
<1> QED
  BY <1>2, <1>3 DEF EnsureFails

-----------------------------------------------------------------------------
(* Types                                                                    *)

\* What the reconcilers, the account and Stripe start from.
LEMMA Constants ==
  /\ NewAccount \in Accounts /\ NoDetails \in Details /\ ~NoDetails.card
  /\ NoCustomer \in Customers /\ Idle \in Tasks /\ NoChild \in Children
<1>1. NewAccount \in Accounts
  BY DetailsAssumption DEF NewAccount, Accounts
<1>2. NoDetails \in Details /\ ~NoDetails.card
  BY <1>1, DetailsOfType DEF NoDetails, DetailsOf
<1>3. NoCustomer \in Customers
  BY DetailsAssumption DEF NoCustomer, Customers
<1>4. Idle \in Tasks
  BY <1>1, <1>2 DEF Idle, Tasks
<1>5. NoChild \in Children
  BY DEF NoChild, Children
<1> QED
  BY <1>1, <1>2, <1>3, <1>4, <1>5

\* What a worker can be doing.
LEMMA TaskTypes ==
  ASSUME NEW a \in Accounts, NEW d \in Details, NEW b \in {"none", "new", "awaiting",
  "active"}
  PROVE  /\ [Idle EXCEPT !.pc = "waiting", !.account = a] \in Tasks
         /\ [Idle EXCEPT !.pc = "waiting", !.account = a, !.base = b] \in Tasks
         /\ [Idle EXCEPT !.pc = "writing", !.base = b, !.details = d] \in Tasks
         /\ [Idle EXCEPT !.pc = "minting", !.base = b] \in Tasks
<1>1. Idle \in Tasks
  BY Constants
<1> QED
  BY <1>1 DEF Tasks

\* However Ensure returns, its worker is idle or mints, and may be queued.
ReturnedOrRetried(w) ==
  /\ task' \in [Workers -> Tasks]
  /\ queued' \in BOOLEAN /\ cardQueued' \in BOOLEAN

\* However patchStatus ends: Ensure returns or is retried, and the StripeCustomer, if
\* it is there, says whether the tax ids were accepted.
LEMMA Published ==
  ASSUME NEW w \in Workers, NEW accepted \in BOOLEAN,
         sc \in [exists : BOOLEAN, taxes : BOOLEAN], Publish(w, accepted)
  PROVE  /\ Retried(w) \/ Continues(w)
         /\ sc' \in [exists : BOOLEAN, taxes : BOOLEAN] /\ sc'.exists = sc.exists
         /\ sc.exists => Continues(w) /\ sc'.taxes = accepted
         /\ ~sc.exists => sc' = sc
BY DEF Publish, Returned

\* Both ways to return are typed.
LEMMA TasksOfReturns ==
  ASSUME NEW w \in Workers, task \in [Workers -> Tasks], queued \in BOOLEAN,
         cardQueued \in BOOLEAN, Retried(w) \/ Continues(w)
  PROVE  ReturnedOrRetried(w)
<1>1. task[w].base \in {"none", "new", "awaiting", "active"}
  BY DEF Tasks
<1>2. [Idle EXCEPT !.pc = "minting", !.base = task[w].base] \in Tasks /\ Idle \in Tasks
  BY <1>1, Constants, TaskTypes
<1> QED
  BY <1>2 DEF ReturnedOrRetried, Retried, Continues, Goto, queueVars

\* Initially, every variable holds a value of its kind.
LEMMA InitType == Init => TypeOK
<1> SUFFICES ASSUME Init PROVE TypeOK
  OBVIOUS
<1>1. account \in Accounts /\ child \in Children /\ customer \in Customers
  BY Constants DEF Init
<1>2. sc \in [exists : BOOLEAN, taxes : BOOLEAN] /\ bindings \subseteq Projects
  BY DEF Init, NoSC
<1>3. cache \in Caches
  BY <1>1, <1>2 DEF Init, Cluster, Caches
<1>4. task \in [Workers -> Tasks]
  BY Constants DEF Init
<1>5. upsets \in 0 .. MaxUpsets
  BY SyncAssumption DEF Init
<1> QED
  BY <1>1, <1>2, <1>3, <1>4, <1>5 DEF Init, TypeOK

\* Edits and failures are counted up to their bound.
LEMMA UpsetsStep == TypeOK /\ [Next]_vars => upsets' \in 0 .. MaxUpsets
<1> SUFFICES ASSUME TypeOK, [Next]_vars PROVE upsets' \in 0 .. MaxUpsets
  OBVIOUS
<1>1. upsets \in 0 .. MaxUpsets /\ MaxUpsets \in Nat
  BY SyncAssumption DEF TypeOK
<1>2. upsets' = upsets \/ (upsets < MaxUpsets /\ upsets' = upsets + 1)
  BY DEF Next, Informers, AccountWorker, CardWorker, Environment, Webhook, Failures,
         Ensure, vars, SyncAccount, SyncBindings, SyncParent, SyncChild, SyncSC, Told,
         StartAccount, StartCard, Lock, Write, WriteRejected, Mint, CleanUp, EditAccount,
         EditTerms, EditBindings, DeletePM, DeleteSC, Lapse, Edit, CreateChild,
         CollectGarbage, Confirm, ReadName, WriteName, PatchChild, MintFails, HookFails,
         Crash, EnsureFails, TaxOutage, Fails
<1> QED
  BY <1>1, <1>2

\* The history variable is only set or reset.
LEMMA MissedStep == TypeOK /\ [Next]_vars => missed' \in BOOLEAN
BY DEF TypeOK, Next, Informers, AccountWorker, CardWorker, Environment, Webhook,
       Failures, Ensure, vars, SyncAccount, SyncBindings, SyncParent, SyncChild, SyncSC,
       Told, StartAccount, StartCard, Lock, Write, WriteRejected, Mint, CleanUp,
       EditAccount, EditTerms, EditBindings, DeletePM, DeleteSC, Lapse, Edit,
       CreateChild, CollectGarbage, Confirm, ReadName, WriteName, PatchChild, MintFails,
       HookFails, Crash, EnsureFails, TaxOutage, Leaves

\* Each step keeps the types.
LEMMA TypeStep == TypeOK /\ [Next]_vars => TypeOK'
<1> SUFFICES ASSUME TypeOK, [Next]_vars PROVE TypeOK'
  OBVIOUS
<1>0. /\ Idle \in Tasks /\ NoChild \in Children
      /\ upsets' \in 0 .. MaxUpsets /\ missed' \in BOOLEAN
  BY Constants, UpsetsStep, MissedStep
<1>1. CASE EditAccount
  <2>1. account' \in Accounts
    <3>1. account \in Accounts
      BY DEF TypeOK
    <3>2. \/ \E n \in Names : account' = [account EXCEPT !.name = n]
          \/ \E t \in Seq(TaxIDs) : account' = [account EXCEPT !.tax = t]
          \/ account' = [account EXCEPT !.default = ~@]
      BY <1>1, SyncAssumption DEF EditAccount
    <3> QED
      BY <3>1, <3>2 DEF Accounts
  <2> QED
    BY <1>0, <1>1, <2>1 DEF TypeOK, EditAccount, Edit, stripeVars, queueVars, Kinds
<1>2. CASE EditTerms
  BY <1>0, <1>2 DEF TypeOK, EditTerms, Edit, stripeVars, queueVars, Kinds, Accounts
<1>3. CASE EditBindings
  BY <1>0, <1>3 DEF TypeOK, EditBindings, Edit, stripeVars, queueVars, Kinds
<1>4. CASE DeletePM
  BY <1>0, <1>4 DEF TypeOK, DeletePM, Edit, stripeVars, queueVars, Kinds
<1>5. CASE DeleteSC
  BY <1>0, <1>5 DEF TypeOK, DeleteSC, Edit, stripeVars, queueVars, Kinds, NoSC
<1>6. CASE Lapse
  BY <1>0, <1>6 DEF TypeOK, Lapse, Edit, stripeVars, clusterVars, Kinds
<1>7. CASE CreateChild
  BY <1>0, <1>7 DEF TypeOK, CreateChild, ChildChanges, stripeVars, queueVars, Kinds,
     Children, NoChild
<1>8. CASE CollectGarbage
  BY <1>0, <1>8 DEF TypeOK, CollectGarbage, ChildChanges, stripeVars, queueVars, Kinds,
     Children
<1>9. CASE SyncAccount
  BY <1>0, <1>9 DEF TypeOK, SyncAccount, Told, stripeVars, clusterVars, Kinds, Caches,
     Cluster, Passes
<1>10. CASE SyncBindings
  BY <1>0, <1>10 DEF TypeOK, SyncBindings, Told, stripeVars, clusterVars, Kinds, Caches,
     Cluster
<1>11. CASE SyncParent
  BY <1>0, <1>11 DEF TypeOK, SyncParent, Told, stripeVars, clusterVars, queueVars, Kinds,
     Caches, Cluster
<1>12. CASE SyncChild
  BY <1>0, <1>12 DEF TypeOK, SyncChild, Told, stripeVars, clusterVars, Kinds, Caches,
     Cluster
<1>13. CASE SyncSC
  BY <1>0, <1>13 DEF TypeOK, SyncSC, Told, stripeVars, clusterVars, Kinds, Caches, Cluster
<1>14. CASE StartAccount
  <2>1. cache.account \in Accounts
    BY DEF TypeOK, Caches
  <2>2. task' \in [Workers -> Tasks]
    BY <1>14, <2>1, TaskTypes, Constants DEF StartAccount, Goto, TypeOK
  <2> QED
    BY <1>0, <1>14, <2>2 DEF TypeOK, StartAccount, stripeVars, clusterVars
<1>15. CASE StartCard
  <2>1. /\ cache.account \in Accounts
        /\ cache.child.phase \in {"none", "new", "awaiting", "active"}
    BY DEF TypeOK, Caches, Children
  <2>2. task' \in [Workers -> Tasks]
    <3> DEFINE t == [Idle EXCEPT !.pc = "waiting", !.account = cache.account,
                                 !.base = cache.child.phase]
    <3>1. t \in Tasks
      BY <2>1, TaskTypes, Constants
    <3>2. task' = task \/ task' = [task EXCEPT !["card"] = t]
      BY <1>15 DEF StartCard, Goto
    <3> HIDE DEF t
    <3> QED
      BY <3>1, <3>2 DEF TypeOK
  <2> QED
    BY <1>0, <1>15, <2>2 DEF TypeOK, StartCard, stripeVars, clusterVars
<1>16. CASE Mint
  <2>1. child' \in Children /\ news' \subseteq Kinds
    BY <1>16 DEF TypeOK, Mint, ChildChanges, Children, Kinds
  <2>2. task' \in [Workers -> Tasks]
    BY <1>0, <1>16 DEF TypeOK, Mint, Goto, Retried
  <2>3. expired' \in BOOLEAN /\ queued' \in BOOLEAN /\ cardQueued' \in BOOLEAN
    BY <1>16 DEF TypeOK, Mint, queueVars, Retried
  <2> QED
    BY <1>0, <1>16, <2>1, <2>2, <2>3 DEF TypeOK, Mint, stripeVars
<1>17. CASE CleanUp
  BY <1>0, <1>17 DEF TypeOK, CleanUp, At, ChildChanges, Kinds, Customers
<1>18. CASE Confirm
  BY <1>0, <1>18 DEF TypeOK, Confirm, clusterVars, queueVars
<1>19. CASE ReadName
  BY <1>0, <1>19 DEF TypeOK, ReadName, clusterVars, stripeVars, queueVars
<1>20. CASE WriteName
  <2>1. customer' \in Customers
    BY <1>20, SyncAssumption DEF TypeOK, WriteName, Customers
  <2> QED
    BY <1>0, <1>20, <2>1 DEF TypeOK, WriteName, clusterVars, queueVars
<1>21. CASE PatchChild
  BY <1>0, <1>21 DEF TypeOK, PatchChild, queueVars, ChildChanges, Kinds, Children
<1>22. CASE MintFails
  BY <1>0, <1>22 DEF TypeOK, MintFails, Fails, clusterVars, stripeVars, Retried, Goto, At
<1>23. CASE HookFails
  BY <1>0, <1>23 DEF TypeOK, HookFails, Fails, clusterVars, queueVars
<1>24. CASE Crash
  BY <1>0, <1>24 DEF TypeOK, Crash, Fails, clusterVars, stripeVars, Cluster, Caches
<1>25. ASSUME NEW w \in Workers, Lock(w) PROVE TypeOK'
  <2>1. DetailsOf(task[w].account, cache.bindings, cache.child.card) \in Details
    BY DetailsOfType DEF TypeOK, Tasks, Caches, Children
  <2>2. task[w].base \in {"none", "new", "awaiting", "active"}
    BY DEF TypeOK, Tasks
  <2>3. task' \in [Workers -> Tasks]
    BY <1>25, <2>1, <2>2, TaskTypes, Constants DEF Lock, Goto, TypeOK
  <2>4. sc' \in [exists : BOOLEAN, taxes : BOOLEAN] /\ news' \subseteq Kinds
    BY <1>25 DEF Lock, TypeOK, NoSC, Kinds
  <2> QED
    BY <1>0, <1>25, <2>3, <2>4 DEF TypeOK, Lock, stripeVars, queueVars
<1>26. ASSUME NEW w \in Workers, Write(w) PROVE TypeOK'
  <2>1. task[w].details \in Details /\ task[w].details.tax \in Seq(TaxIDs)
    BY DEF TypeOK, Tasks, Details
  <2>2. customer \in Customers /\ customer.tax \in SUBSET TaxIDs
    BY DEF TypeOK, Customers
  <2>3. customer' \in Customers
    BY <1>26, <2>1, <2>2, TaxIDsType, Written DEF Write
  <2>p. (Retried(w) \/ Continues(w)) /\ sc' \in [exists : BOOLEAN, taxes : BOOLEAN]
    BY <1>26, Published DEF Write, TypeOK, TaxIDsAccepted
  <2>4. ReturnedOrRetried(w)
    BY <2>p, TasksOfReturns DEF TypeOK
  <2>5. sc' \in [exists : BOOLEAN, taxes : BOOLEAN]
    BY <2>p
  <2> QED
    BY <1>0, <1>26, <2>3, <2>4, <2>5 DEF TypeOK, Write, ReturnedOrRetried
<1>27. ASSUME NEW w \in Workers, WriteRejected(w) PROVE TypeOK'
  BY <1>0, <1>27 DEF TypeOK, WriteRejected, Retried, Goto, clusterVars, stripeVars
<1>28. ASSUME NEW w \in Workers, EnsureFails(w) PROVE TypeOK'
  <2>1. customer' \in Customers
    <3>1. task[w].details \in Details /\ customer \in Customers
      BY DEF TypeOK, Tasks
    <3> QED
      BY <1>28, <3>1, Interrupted DEF EnsureFails
  <2>2. ReturnedOrRetried(w)
    BY <1>28, TasksOfReturns DEF EnsureFails, TypeOK
  <2> QED
    BY <1>0, <1>28, <2>1, <2>2
    DEF TypeOK, EnsureFails, ReturnedOrRetried, clusterVars
<1>29. ASSUME NEW w \in Workers, TaxOutage(w) PROVE TypeOK'
  <2>1. task[w].details \in Details /\ task[w].details.tax \in Seq(TaxIDs)
    BY DEF TypeOK, Tasks, Details
  <2>2. customer \in Customers /\ customer.tax \in SUBSET TaxIDs
    BY DEF TypeOK, Customers
  <2>3. customer' \in Customers
    <3>1. PICK ids \in InterruptedTaxIDs(task[w].details.tax, customer.tax) :
            customer' = [WithDetails(customer, task[w].details) EXCEPT !.tax = ids]
      BY <1>29 DEF TaxOutage
    <3>2. ids \in SUBSET TaxIDs
      BY <2>1, <2>2, TaxIDsType
    <3> QED
      BY <2>1, <2>2, <3>1, <3>2, Written
  <2>p. (Retried(w) \/ Continues(w)) /\ sc' \in [exists : BOOLEAN, taxes : BOOLEAN]
    BY <1>29, Published DEF TaxOutage, TypeOK
  <2>4. ReturnedOrRetried(w)
    BY <2>p, TasksOfReturns DEF TypeOK
  <2>5. sc' \in [exists : BOOLEAN, taxes : BOOLEAN]
    BY <2>p
  <2> QED
    BY <1>0, <1>29, <2>3, <2>4, <2>5 DEF TypeOK, TaxOutage, ReturnedOrRetried
<1>30. CASE UNCHANGED vars
  BY <1>30 DEF TypeOK, vars, clusterVars, stripeVars, queueVars
<1> QED
  BY <1>1, <1>2, <1>3, <1>4, <1>5, <1>6, <1>7, <1>8, <1>9, <1>10, <1>11, <1>12, <1>13,
     <1>14, <1>15, <1>16, <1>17, <1>18, <1>19, <1>20, <1>21, <1>22, <1>23, <1>24, <1>25,
     <1>26, <1>27, <1>28, <1>29, <1>30
     DEF Next, Informers, AccountWorker, CardWorker, Environment, Webhook, Failures, Ensure,
         Workers


-----------------------------------------------------------------------------
(* The invariant                                                            *)

\* The cache follows the cluster, as long as events are delivered.
LEMMA FollowsStep == TypeOK /\ CacheFollows /\ [Next]_vars => CacheFollows'
<1> SUFFICES ASSUME TypeOK, CacheFollows, [Next]_vars PROVE CacheFollows'
  OBVIOUS
<1>1. CASE EditAccount
  BY <1>1 DEF TypeOK, CacheFollows, EditAccount, Edit
<1>2. CASE EditTerms
  BY <1>2 DEF TypeOK, CacheFollows, EditTerms, Edit
<1>3. CASE EditBindings
  BY <1>3 DEF TypeOK, CacheFollows, EditBindings, Edit
<1>4. CASE DeletePM
  BY <1>4 DEF TypeOK, CacheFollows, DeletePM, Edit
<1>5. CASE DeleteSC
  BY <1>5 DEF TypeOK, CacheFollows, DeleteSC, Edit
<1>6. CASE Lapse
  BY <1>6 DEF TypeOK, CacheFollows, Lapse, Edit, clusterVars
<1>7. CASE CreateChild
  BY <1>7 DEF TypeOK, CacheFollows, CreateChild, ChildChanges, NoChild
<1>8. CASE CollectGarbage
  BY <1>8 DEF TypeOK, CacheFollows, CollectGarbage, ChildChanges
<1>9. CASE SyncAccount
  BY <1>9 DEF TypeOK, CacheFollows, SyncAccount, Told, clusterVars, Cluster, Caches
<1>10. CASE SyncBindings
  BY <1>10 DEF TypeOK, CacheFollows, SyncBindings, Told, clusterVars, Cluster, Caches
<1>11. CASE SyncParent
  BY <1>11 DEF TypeOK, CacheFollows, SyncParent, Told, clusterVars, Cluster, Caches
<1>12. CASE SyncChild
  BY <1>12 DEF TypeOK, CacheFollows, SyncChild, Told, clusterVars, Cluster, Caches
<1>13. CASE SyncSC
  BY <1>13 DEF TypeOK, CacheFollows, SyncSC, Told, clusterVars, Cluster, Caches
<1>14. CASE StartAccount
  BY <1>14 DEF TypeOK, CacheFollows, StartAccount, clusterVars
<1>15. CASE StartCard
  BY <1>15 DEF TypeOK, CacheFollows, StartCard, clusterVars
<1>16. CASE Mint
  BY <1>16 DEF TypeOK, CacheFollows, Mint, ChildChanges, Children
<1>17. CASE CleanUp
  BY <1>17 DEF TypeOK, CacheFollows, CleanUp, ChildChanges, NoChild
<1>18. CASE Confirm
  BY <1>18 DEF TypeOK, CacheFollows, Confirm, clusterVars
<1>19. CASE ReadName
  BY <1>19 DEF TypeOK, CacheFollows, ReadName, clusterVars
<1>20. CASE WriteName
  BY <1>20 DEF TypeOK, CacheFollows, WriteName, clusterVars
<1>21. CASE PatchChild
  BY <1>21 DEF TypeOK, CacheFollows, PatchChild, ChildChanges, Children
<1>22. CASE MintFails
  BY <1>22 DEF TypeOK, CacheFollows, MintFails, clusterVars
<1>23. CASE HookFails
  BY <1>23 DEF TypeOK, CacheFollows, HookFails, clusterVars
<1>24. CASE Crash
  BY <1>24 DEF TypeOK, CacheFollows, Crash, clusterVars, Cluster
<1>25. ASSUME NEW w \in Workers, Lock(w) PROVE CacheFollows'
  BY <1>25 DEF TypeOK, CacheFollows, Lock
<1>26. ASSUME NEW w \in Workers, Write(w) PROVE CacheFollows'
  <2>1. sc'.exists = sc.exists
    BY <1>26, Published DEF Write, TypeOK, TaxIDsAccepted
  <2> QED
    BY <1>26, <2>1 DEF TypeOK, CacheFollows, Write
<1>27. ASSUME NEW w \in Workers, WriteRejected(w) PROVE CacheFollows'
  BY <1>27 DEF TypeOK, CacheFollows, WriteRejected, clusterVars
<1>28. ASSUME NEW w \in Workers, EnsureFails(w) PROVE CacheFollows'
  BY <1>28 DEF TypeOK, CacheFollows, EnsureFails, clusterVars
<1>29. ASSUME NEW w \in Workers, TaxOutage(w) PROVE CacheFollows'
  <2>1. sc'.exists = sc.exists
    BY <1>29, Published DEF TaxOutage, TypeOK
  <2> QED
    BY <1>29, <2>1 DEF TypeOK, CacheFollows, TaxOutage
<1>30. CASE UNCHANGED vars
  BY <1>30 DEF TypeOK, CacheFollows, vars, clusterVars
<1> QED
  BY <1>1, <1>2, <1>3, <1>4, <1>5, <1>6, <1>7, <1>8, <1>9, <1>10, <1>11, <1>12, <1>13,
     <1>14, <1>15,
     <1>16, <1>17, <1>18, <1>19, <1>20, <1>21, <1>22, <1>23, <1>24, <1>25, <1>26, <1>27,
     <1>28, <1>29, <1>30
     DEF Next, Informers, AccountWorker, CardWorker, Environment, Webhook, Failures, Ensure,
         Workers

\* However Ensure returns, it keeps no details.
LEMMA CardsOfReturns ==
  ASSUME NEW w \in Workers, task \in [Workers -> Tasks], Retried(w) \/ Continues(w)
  PROVE  \A v \in Workers : task'[v].details.card => task[v].details.card
<1>1. Idle \in Tasks /\ Idle.details.card = FALSE
  BY Constants DEF Idle
<1>2. [Idle EXCEPT !.pc = "minting", !.base = task[w].base].details.card = FALSE
  BY <1>1 DEF Tasks
<1> QED
  BY <1>1, <1>2 DEF Retried, Continues, Goto

\* The card of a child that is gone is nobody's default.
LEMMA CardStep == TypeOK /\ CacheFollows /\ CardIsTold /\ [Next]_vars => CardIsTold'
<1> SUFFICES ASSUME TypeOK, CacheFollows, CardIsTold, [Next]_vars PROVE CardIsTold'
  OBVIOUS
<1>0. /\ Idle \in Tasks /\ Idle.details.card = FALSE
      /\ \A w \in Workers : task[w] \in Tasks
  BY Constants DEF TypeOK, Idle
<1>1. CASE EditAccount
  BY <1>1 DEF TypeOK, CardIsTold, EditAccount, Edit, stripeVars
<1>2. CASE EditTerms
  BY <1>2 DEF TypeOK, CardIsTold, EditTerms, Edit, stripeVars
<1>3. CASE EditBindings
  BY <1>3 DEF TypeOK, CardIsTold, EditBindings, Edit, stripeVars
<1>4. CASE DeletePM
  BY <1>4 DEF TypeOK, CardIsTold, DeletePM, Edit, stripeVars
<1>5. CASE DeleteSC
  BY <1>5 DEF TypeOK, CardIsTold, DeleteSC, Edit, stripeVars
<1>6. CASE Lapse
  BY <1>6 DEF TypeOK, CardIsTold, Lapse, Edit, clusterVars, stripeVars
<1>7. CASE CreateChild
  BY <1>7 DEF TypeOK, CardIsTold, CreateChild, ChildChanges, stripeVars, Children,
     NoChild, CacheFollows
<1>8. CASE CollectGarbage
  BY <1>8 DEF TypeOK, CardIsTold, CollectGarbage, ChildChanges, stripeVars, Children
<1>9. CASE SyncAccount
  BY <1>9 DEF TypeOK, CardIsTold, SyncAccount, Told, clusterVars, stripeVars, Cluster,
     Caches
<1>10. CASE SyncBindings
  BY <1>10 DEF TypeOK, CardIsTold, SyncBindings, Told, clusterVars, stripeVars, Cluster,
     Caches
<1>11. CASE SyncParent
  BY <1>11 DEF TypeOK, CardIsTold, SyncParent, Told, clusterVars, stripeVars, Cluster,
     Caches
<1>12. CASE SyncChild
  BY <1>12 DEF TypeOK, CardIsTold, SyncChild, Told, clusterVars, stripeVars, Cluster, Caches
<1>13. CASE SyncSC
  BY <1>13 DEF TypeOK, CardIsTold, SyncSC, Told, clusterVars, stripeVars, Cluster, Caches
<1>14. CASE StartAccount
  <2>1. \A v \in Workers : task'[v].details.card => task[v].details.card
    <3> DEFINE t == [Idle EXCEPT !.pc = "waiting", !.account = cache.account]
    <3>1. t.details.card = FALSE
      BY <1>0 DEF Tasks
    <3>2. task' = task \/ task' = [task EXCEPT !["account"] = t]
      BY <1>14 DEF StartAccount, Goto
    <3> HIDE DEF t
    <3> QED
      BY <3>1, <3>2 DEF TypeOK
  <2> QED
    BY <1>14, <2>1 DEF CardIsTold, StartAccount, clusterVars, stripeVars
<1>15. CASE StartCard
  <2>1. \A v \in Workers : task'[v].details.card => task[v].details.card
    <3> DEFINE t == [Idle EXCEPT !.pc = "waiting", !.account = cache.account,
                                 !.base = cache.child.phase]
    <3>1. t.details.card = FALSE
      BY <1>0 DEF Tasks
    <3>2. task' = task \/ task' = [task EXCEPT !["card"] = t]
      BY <1>15 DEF StartCard, Goto
    <3> HIDE DEF t
    <3> QED
      BY <3>1, <3>2 DEF TypeOK
  <2> QED
    BY <1>15, <2>1 DEF CardIsTold, StartCard, clusterVars, stripeVars
<1>16. CASE Mint
  BY <1>16, <1>0 DEF TypeOK, CardIsTold, Mint, ChildChanges, Children, stripeVars, Goto,
     Retried
<1>17. CASE CleanUp
  BY <1>17 DEF TypeOK, CardIsTold, CleanUp, ChildChanges, NoChild, Customers, Children
<1>18. CASE Confirm
  BY <1>18 DEF TypeOK, CardIsTold, Confirm, clusterVars
<1>19. CASE ReadName
  BY <1>19 DEF TypeOK, CardIsTold, ReadName, clusterVars, stripeVars
<1>20. CASE WriteName
  BY <1>20 DEF TypeOK, CardIsTold, WriteName, clusterVars, Customers
<1>21. CASE PatchChild
  BY <1>21 DEF TypeOK, CardIsTold, PatchChild, ChildChanges, Children
<1>22. CASE MintFails
  BY <1>22, <1>0 DEF TypeOK, CardIsTold, MintFails, clusterVars, stripeVars, Retried, Goto
<1>23. CASE HookFails
  BY <1>23 DEF TypeOK, CardIsTold, HookFails, clusterVars
<1>24. CASE Crash
  BY <1>24, <1>0 DEF TypeOK, CardIsTold, Crash, clusterVars, stripeVars, Cluster
<1>25. ASSUME NEW w \in Workers, Lock(w) PROVE CardIsTold'
  <2>1. \A v \in Workers :
          task'[v].details.card => task[v].details.card \/ cache.child.card
    BY <1>0, <1>25 DEF TypeOK, Lock, Goto, Tasks, DetailsOf, Caches, Children
  <2> QED
    BY <1>25, <2>1 DEF CardIsTold, Lock, stripeVars
<1>26. ASSUME NEW w \in Workers, Write(w) PROVE CardIsTold'
  <2>1. task[w].details \in Details /\ task[w].details.tax \in Seq(TaxIDs)
    BY <1>0 DEF Tasks, Details
  <2>2. customer \in Customers /\ customer.tax \in SUBSET TaxIDs
    BY DEF TypeOK, Customers
  <2>3. customer'.card = task[w].details.card
    <3> DEFINE ids == ReconcileTaxIDs(task[w].details.tax, customer.tax)
               t == [WithDetails(customer, task[w].details) EXCEPT !.tax = ids]
    <3>1. customer' = t
      BY <1>26 DEF Write
    <3>2. t.card = task[w].details.card
      BY <2>1, <2>2 DEF WithDetails, Customers, Details
    <3> HIDE DEF t
    <3> QED
      BY <3>1, <3>2
  <2>4. \A v \in Workers : task'[v].details.card => task[v].details.card
    <3>1. Retried(w) \/ Continues(w)
      BY <1>26, Published DEF Write, TypeOK, TaxIDsAccepted
    <3>2. task \in [Workers -> Tasks]
      BY DEF TypeOK
    <3> QED
      BY <3>1, <3>2, CardsOfReturns
  <2> QED
    BY <1>26, <2>3, <2>4 DEF CardIsTold, Write
<1>27. ASSUME NEW w \in Workers, WriteRejected(w) PROVE CardIsTold'
  BY <1>27, <1>0 DEF TypeOK, CardIsTold, WriteRejected, clusterVars, stripeVars, Retried,
     Goto
<1>28. ASSUME NEW w \in Workers, EnsureFails(w) PROVE CardIsTold'
  <2>1. customer'.card => customer.card \/ task[w].details.card
    <3>1. task[w].details \in Details /\ customer \in Customers
      BY <1>0 DEF Tasks, TypeOK
    <3> QED
      BY <1>28, <3>1, Interrupted DEF EnsureFails
  <2>2. \A v \in Workers : task'[v].details.card => task[v].details.card
    <3>1. Retried(w) \/ Continues(w)
      BY <1>28 DEF EnsureFails
    <3>2. task \in [Workers -> Tasks]
      BY DEF TypeOK
    <3> QED
      BY <3>1, <3>2, CardsOfReturns
  <2> QED
    BY <1>28, <2>1, <2>2 DEF CardIsTold, EnsureFails, clusterVars
<1>29. ASSUME NEW w \in Workers, TaxOutage(w) PROVE CardIsTold'
  <2>1. task[w].details \in Details /\ task[w].details.tax \in Seq(TaxIDs)
    BY <1>0 DEF Tasks, Details
  <2>2. customer \in Customers /\ customer.tax \in SUBSET TaxIDs
    BY DEF TypeOK, Customers
  <2>3. customer'.card = task[w].details.card
    <3> DEFINE t(ids) == [WithDetails(customer, task[w].details) EXCEPT !.tax = ids]
    <3>1. PICK ids \in InterruptedTaxIDs(task[w].details.tax, customer.tax) :
            customer' = t(ids)
      BY <1>29 DEF TaxOutage
    <3>2. t(ids).card = task[w].details.card
      BY <2>1, <2>2 DEF WithDetails, Customers, Details
    <3> HIDE DEF t
    <3> QED
      BY <3>1, <3>2
  <2>4. \A v \in Workers : task'[v].details.card => task[v].details.card
    <3>1. Retried(w) \/ Continues(w)
      BY <1>29, Published DEF TaxOutage, TypeOK
    <3>2. task \in [Workers -> Tasks]
      BY DEF TypeOK
    <3> QED
      BY <3>1, <3>2, CardsOfReturns
  <2> QED
    BY <1>29, <2>3, <2>4 DEF CardIsTold, TaxOutage
<1>30. CASE UNCHANGED vars
  BY <1>30 DEF TypeOK, CardIsTold, vars, clusterVars, stripeVars
<1> QED
  BY <1>1, <1>2, <1>3, <1>4, <1>5, <1>6, <1>7, <1>8, <1>9, <1>10, <1>11, <1>12, <1>13,
     <1>14, <1>15,
     <1>16, <1>17, <1>18, <1>19, <1>20, <1>21, <1>22, <1>23, <1>24, <1>25, <1>26, <1>27,
     <1>28, <1>29, <1>30
     DEF Next, Informers, AccountWorker, CardWorker, Environment, Webhook, Failures, Ensure,
         Workers

\* What the account's reconcile has read is current, or it is queued again.
LEMMA ReadsStep ==
  TypeOK /\ CacheFollows /\ ReadsAreCurrent /\ [Next]_vars => ReadsAreCurrent'
<1> SUFFICES ASSUME TypeOK, CacheFollows, ReadsAreCurrent,
[Next]_vars PROVE ReadsAreCurrent'
  OBVIOUS
<1>0. Idle \in Tasks /\ Idle.pc = "idle" /\ task \in [Workers -> Tasks]
  BY Constants DEF TypeOK, Idle
<1>1. CASE EditAccount
  BY <1>1 DEF TypeOK, ReadsAreCurrent, EditAccount, Edit, queueVars, At, BuiltFromCache
<1>2. CASE EditTerms
  BY <1>2 DEF TypeOK, ReadsAreCurrent, EditTerms, Edit, queueVars, At, BuiltFromCache
<1>3. CASE EditBindings
  BY <1>3 DEF TypeOK, ReadsAreCurrent, EditBindings, Edit, queueVars, At, BuiltFromCache
<1>4. CASE DeletePM
  BY <1>4 DEF TypeOK, ReadsAreCurrent, DeletePM, Edit, queueVars, At, BuiltFromCache
<1>5. CASE DeleteSC
  BY <1>5 DEF TypeOK, ReadsAreCurrent, DeleteSC, Edit, queueVars, At, BuiltFromCache
<1>6. CASE Lapse
  BY <1>6 DEF TypeOK, ReadsAreCurrent, Lapse, Edit, At, BuiltFromCache
<1>7. CASE CreateChild
  BY <1>7 DEF TypeOK, ReadsAreCurrent, CreateChild, At, BuiltFromCache, queueVars
<1>8. CASE CollectGarbage
  BY <1>8 DEF TypeOK, ReadsAreCurrent, CollectGarbage, At, BuiltFromCache, queueVars
<1>9. CASE SyncAccount
  BY <1>9 DEF TypeOK, ReadsAreCurrent, SyncAccount, Told, Passes, At, BuiltFromCache
<1>10. CASE SyncBindings
  BY <1>10 DEF TypeOK, ReadsAreCurrent, SyncBindings
<1>11. CASE SyncParent
  <2>1. /\ cache'.account = cache.account /\ cache'.bindings = cache.bindings
        /\ cache'.child = cache.child /\ cache'.parent = parent
    BY <1>11 DEF TypeOK, SyncParent, Told, Cluster, Caches
  <2>2. parent => cache.parent
    BY DEF CacheFollows
  <2>3. ASSUME NEW d, BuiltFromCache(d) PROVE BuiltFromCache(d)'
    BY <2>1, <2>2, <2>3 DEF BuiltFromCache
  <2> QED
    BY <1>11, <2>1, <2>3 DEF ReadsAreCurrent, SyncParent, Told, queueVars, At
<1>12. CASE SyncChild
  BY <1>12 DEF TypeOK, ReadsAreCurrent, SyncChild, Told, EnqueuesAccount, Cluster,
     Caches, DetailsOf, At, BuiltFromCache
<1>13. CASE SyncSC
  BY <1>13 DEF TypeOK, ReadsAreCurrent, SyncSC
<1>14. CASE StartAccount
  <2>1. task'["account"].pc # "writing"
    BY <1>0, <1>14 DEF StartAccount, Goto, At, Workers, Tasks
  <2>2. task'["account"].pc = "waiting" => task'["account"].account = cache.account
    BY <1>0, <1>14 DEF StartAccount, Goto, At, Workers, Tasks
  <2> QED
    BY <1>14, <2>1, <2>2 DEF ReadsAreCurrent, StartAccount, At
<1>15. CASE StartCard
  BY <1>15, <1>0 DEF TypeOK, ReadsAreCurrent, StartCard, Goto, Workers, At, BuiltFromCache
<1>16. CASE Mint
  BY <1>16, <1>0 DEF TypeOK, ReadsAreCurrent, Mint, Goto, Retried, queueVars, Workers,
     At, BuiltFromCache
<1>17. CASE CleanUp
  BY <1>17 DEF TypeOK, ReadsAreCurrent, CleanUp, At, BuiltFromCache
<1>18. CASE Confirm
  BY <1>18 DEF TypeOK, ReadsAreCurrent, Confirm, At, BuiltFromCache, queueVars
<1>19. CASE ReadName
  BY <1>19 DEF TypeOK, ReadsAreCurrent, ReadName, At, BuiltFromCache, queueVars
<1>20. CASE WriteName
  BY <1>20 DEF TypeOK, ReadsAreCurrent, WriteName, At, BuiltFromCache, queueVars
<1>21. CASE PatchChild
  BY <1>21 DEF TypeOK, ReadsAreCurrent, PatchChild, At, BuiltFromCache, queueVars
<1>22. CASE MintFails
  BY <1>22, <1>0 DEF TypeOK, ReadsAreCurrent, MintFails, Goto, Retried, Workers, At,
     BuiltFromCache
<1>23. CASE HookFails
  BY <1>23 DEF TypeOK, ReadsAreCurrent, HookFails, At, BuiltFromCache, queueVars
<1>24. CASE Crash
  BY <1>24, <1>0 DEF TypeOK, ReadsAreCurrent, Crash, At, BuiltFromCache
<1>25. ASSUME NEW w \in Workers, Lock(w) PROVE ReadsAreCurrent'
  BY <1>25, <1>0 DEF TypeOK, ReadsAreCurrent, Lock, Goto, queueVars, Workers, Tasks, At,
     BuiltFromCache
<1>26. ASSUME NEW w \in Workers, Write(w) PROVE ReadsAreCurrent'
  <2>1. Retried(w) \/ Continues(w)
    BY <1>26, Published DEF Write, TypeOK, TaxIDsAccepted
  <2> QED
    BY <1>26, <2>1, <1>0 DEF TypeOK, ReadsAreCurrent, Write, Goto, Retried, Continues,
       queueVars, Workers, At, BuiltFromCache
<1>27. ASSUME NEW w \in Workers, WriteRejected(w) PROVE ReadsAreCurrent'
  BY <1>27, <1>0 DEF TypeOK, ReadsAreCurrent, WriteRejected, Goto, Retried, Workers, At,
     BuiltFromCache
<1>28. ASSUME NEW w \in Workers, EnsureFails(w) PROVE ReadsAreCurrent'
  BY <1>28, <1>0 DEF TypeOK, ReadsAreCurrent, EnsureFails, Goto, Retried, Workers, At,
     BuiltFromCache
<1>29. ASSUME NEW w \in Workers, TaxOutage(w) PROVE ReadsAreCurrent'
  <2>1. Retried(w) \/ Continues(w)
    BY <1>29, Published DEF TaxOutage, TypeOK
  <2> QED
    BY <1>29, <2>1, <1>0 DEF TypeOK, ReadsAreCurrent, TaxOutage, Goto, Retried, Continues,
       queueVars, Workers, At, BuiltFromCache
<1>30. CASE UNCHANGED vars
  BY <1>30 DEF TypeOK, ReadsAreCurrent, vars, At, BuiltFromCache, queueVars
<1> QED
  BY <1>1, <1>2, <1>3, <1>4, <1>5, <1>6, <1>7, <1>8, <1>9, <1>10, <1>11, <1>12, <1>13,
     <1>14, <1>15,
     <1>16, <1>17, <1>18, <1>19, <1>20, <1>21, <1>22, <1>23, <1>24, <1>25, <1>26, <1>27,
     <1>28, <1>29, <1>30
     DEF Next, Informers, AccountWorker, CardWorker, Environment, Webhook, Failures, Ensure,
         Workers

\* A StripeCustomer that goes away under the lock of the account's reconcile queues it
\* again.
LEMMA GoneStep == TypeOK /\ GoneIsTold /\ [Next]_vars => GoneIsTold'
<1> SUFFICES ASSUME TypeOK, GoneIsTold, [Next]_vars, At("account", "writing")'
             PROVE  sc'.exists \/ queued' \/ "sc" \in news'
  BY DEF GoneIsTold
<1>0. /\ Idle.pc = "idle" /\ task \in [Workers -> Tasks] /\ Idle \in Tasks
      /\ sc \in [exists : BOOLEAN, taxes : BOOLEAN]
      /\ task'["account"].pc = "writing"
  BY Constants DEF Idle, TypeOK, At
<1>g. task["account"].pc = "writing" => sc.exists \/ queued \/ "sc" \in news
  BY DEF GoneIsTold, At
<1>1. CASE EditAccount
  BY <1>0, <1>g, <1>1 DEF EditAccount, Edit, stripeVars, queueVars, clusterVars
<1>2. CASE EditTerms
  BY <1>0, <1>g, <1>2 DEF EditTerms, Edit, stripeVars, queueVars, clusterVars
<1>3. CASE EditBindings
  BY <1>0, <1>g, <1>3 DEF EditBindings, Edit, stripeVars, queueVars, clusterVars
<1>4. CASE DeletePM
  BY <1>0, <1>g, <1>4 DEF DeletePM, Edit, stripeVars, queueVars, clusterVars
<1>5. CASE DeleteSC
  BY <1>0, <1>g, <1>5 DEF DeleteSC, Edit, stripeVars, queueVars, clusterVars
<1>6. CASE Lapse
  BY <1>0, <1>g, <1>6 DEF Lapse, Edit, stripeVars, queueVars, clusterVars
<1>7. CASE CreateChild
  BY <1>0, <1>g, <1>7 DEF CreateChild, ChildChanges, queueVars
<1>8. CASE CollectGarbage
  BY <1>0, <1>g, <1>8 DEF CollectGarbage, ChildChanges, queueVars
<1>9. CASE SyncAccount
  BY <1>0, <1>g, <1>9 DEF SyncAccount, Told, clusterVars
<1>10. CASE SyncBindings
  BY <1>0, <1>g, <1>10 DEF SyncBindings, Told, clusterVars
<1>11. CASE SyncParent
  <2>1. "sc" \in news => "sc" \in news'
    BY <1>11 DEF SyncParent, Told
  <2> QED
    BY <1>0, <1>g, <1>11, <2>1 DEF SyncParent, Told, clusterVars, queueVars
<1>12. CASE SyncChild
  BY <1>0, <1>g, <1>12 DEF SyncChild, Told, clusterVars
<1>13. CASE SyncSC
  BY <1>0, <1>g, <1>13 DEF SyncSC, Told, clusterVars
<1>14. CASE StartAccount
  <2> DEFINE r == [Idle EXCEPT !.pc = "waiting", !.account = cache.account]
  <2>1. r.pc = "waiting"
    BY <1>0 DEF Tasks
  <2>2. task' = task \/ task' = [task EXCEPT !["account"] = r]
    BY <1>14 DEF StartAccount, Goto
  <2> HIDE DEF r
  <2>3. task' = task
    BY <1>0, <2>1, <2>2 DEF Workers
  <2>4. ~(task["account"].pc = "writing")
    BY <1>14 DEF StartAccount, At
  <2> QED
    BY <1>0, <2>3, <2>4
<1>15. CASE StartCard
  BY <1>0, <1>g, <1>15 DEF StartCard, Goto, Workers, clusterVars
<1>16. CASE Mint
  BY <1>0, <1>g, <1>16 DEF Mint, Goto, Retried, ChildChanges, queueVars, Workers
<1>17. CASE CleanUp
  BY <1>0, <1>g, <1>17 DEF CleanUp, ChildChanges
<1>18. CASE Confirm
  BY <1>0, <1>g, <1>18 DEF Confirm, clusterVars, queueVars
<1>19. CASE ReadName
  BY <1>0, <1>g, <1>19 DEF ReadName, clusterVars, queueVars
<1>20. CASE WriteName
  BY <1>0, <1>g, <1>20 DEF WriteName, clusterVars, queueVars
<1>21. CASE PatchChild
  BY <1>0, <1>g, <1>21 DEF PatchChild, ChildChanges, queueVars
<1>22. CASE MintFails
  BY <1>0, <1>g, <1>22 DEF MintFails, Retried, Goto, clusterVars, Workers
<1>23. CASE HookFails
  BY <1>0, <1>g, <1>23 DEF HookFails, clusterVars, queueVars
<1>24. CASE Crash
  BY <1>0, <1>g, <1>24 DEF Crash
<1>25. ASSUME NEW w \in Workers, Lock(w)
       PROVE  sc'.exists \/ queued' \/ "sc" \in news'
  BY <1>0, <1>g, <1>25 DEF Lock, Goto, Workers, queueVars, NoSC, Tasks
<1>26. ASSUME NEW w \in Workers, Write(w)
       PROVE  sc'.exists \/ queued' \/ "sc" \in news'
  <2>1. (Retried(w) \/ Continues(w)) /\ sc'.exists = sc.exists
    BY <1>0, <1>26, Published DEF Write, TaxIDsAccepted
  <2>2. w = "card"
    BY <1>0, <2>1 DEF Retried, Continues, Goto, Workers
  <2> QED
    BY <1>0, <1>g, <1>26, <2>1, <2>2 DEF Write, Retried, Continues, Goto, queueVars,
       Workers
<1>27. ASSUME NEW w \in Workers, WriteRejected(w)
       PROVE  sc'.exists \/ queued' \/ "sc" \in news'
  BY <1>0, <1>g, <1>27 DEF WriteRejected, Retried, Goto, Workers, clusterVars
<1>28. ASSUME NEW w \in Workers, EnsureFails(w)
       PROVE  sc'.exists \/ queued' \/ "sc" \in news'
  BY <1>0, <1>g, <1>28 DEF EnsureFails, Retried, Goto, Workers, clusterVars
<1>29. ASSUME NEW w \in Workers, TaxOutage(w)
       PROVE  sc'.exists \/ queued' \/ "sc" \in news'
  <2>1. (Retried(w) \/ Continues(w)) /\ sc'.exists = sc.exists
    BY <1>0, <1>29, Published DEF TaxOutage
  <2>2. w = "card"
    BY <1>0, <2>1 DEF Retried, Continues, Goto, Workers
  <2> QED
    BY <1>0, <1>g, <1>29, <2>1, <2>2 DEF TaxOutage, Retried, Continues, Goto, queueVars,
       Workers
<1>30. CASE UNCHANGED vars
  BY <1>0, <1>g, <1>30 DEF vars, clusterVars, queueVars
<1> QED
  BY <1>1, <1>2, <1>3, <1>4, <1>5, <1>6, <1>7, <1>8, <1>9, <1>10, <1>11, <1>12, <1>13,
     <1>14, <1>15, <1>16, <1>17, <1>18, <1>19, <1>20, <1>21, <1>22, <1>23, <1>24, <1>25,
     <1>26, <1>27, <1>28, <1>29, <1>30
     DEF Next, Informers, AccountWorker, CardWorker, Environment, Webhook, Failures, Ensure,
         Workers

-----------------------------------------------------------------------------
(* Nothing is forgotten                                                     *)

\* What a step leaves of what is compared, it leaves of the difference.
LEMMA StaleUnchanged ==
  UNCHANGED <<account, bindings, parent, child, sc, customer>> => (Stale' <=> Stale)
BY DEF Stale, Needs, Wanted, Shows, TaxesSettled

\* A PaymentMethod without a child makes no difference.
LEMMA ParentUnneeded ==
  ASSUME child.phase = "none", UNCHANGED <<account, bindings, child, sc, customer>>
  PROVE  Stale' <=> Stale
BY DEF Stale, Needs, Wanted, Shows, TaxesSettled

\* A Customer that is written with what the cluster has, and Stripe accepts, shows it.
LEMMA WrittenIsSynced ==
  ASSUME TypeOK, NEW w \in Workers, Write(w), sc.exists,
         NEW d \in Details, task[w].details = d, Wanted' = d, bindings' = d.projects
  PROVE  ~Stale'
<1> DEFINE ids == ReconcileTaxIDs(d.tax, customer.tax)
           t == [WithDetails(customer, d) EXCEPT !.tax = ids]
<1>1. d.tax \in Seq(TaxIDs) /\ customer \in Customers
  BY DEF TypeOK, Details
<1>2. /\ t.made /\ t.card = d.card /\ t.invoice = d.invoice /\ t.tax = ids
      /\ t.projects = JoinNames[d.projects]
  BY <1>1 DEF WithDetails, Customers, Details
<1>3. t.name \in IF d.name = NoName THEN Names ELSE {d.name}
  BY <1>1 DEF WithDetails, NameAfter, Customers, Details
<1>4. customer' = t
  BY DEF Write
<1>5. sc'.exists /\ sc'.taxes = TaxIDsAccepted(d.tax)
  BY Published DEF Write, TypeOK, TaxIDsAccepted
<1>6. TaxIDsAccepted(d.tax) => ids = Values(d.tax)
  BY DEF TaxIDsAccepted, ReconcileTaxIDs
<1> HIDE DEF ids, t
<1>7. TaxesSettled(d)'
  BY <1>2, <1>4, <1>5, <1>6 DEF TaxesSettled
<1>8. Shows(d, JoinNames[d.projects])'
  BY <1>2, <1>3, <1>4, <1>5, <1>7 DEF Shows
<1> QED
  BY <1>8 DEF Stale



\* Each step that ends what was to mend a difference leaves none, or says so.
LEMMA ForgottenStep == SyncInv /\ NothingForgotten /\ [Next]_vars => NothingForgotten'
<1> SUFFICES ASSUME SyncInv, NothingForgotten, [Next]_vars, ~missed', ~BeingMended'
             PROVE  ~Stale'
  BY DEF NothingForgotten
<1>0. /\ ~queued' /\ news' \subseteq {"parent"} /\ task'["account"].pc = "idle"
      /\ task'["card"].pc # "minting" /\ hook' # "patching"
      /\ child'.phase # "none" => parent'
  BY DEF BeingMended, At
<1>q. \/ missed \/ queued \/ ~(news \subseteq {"parent"})
      \/ task["account"].pc # "idle" \/ task["card"].pc = "minting"
      \/ hook = "patching" \/ (child.phase # "none" /\ ~parent) \/ ~Stale
  BY DEF NothingForgotten, BeingMended, At
<1>t. /\ TypeOK /\ Idle.pc = "idle" /\ Idle \in Tasks
      /\ task \in [Workers -> Tasks]
  BY Constants DEF SyncInv, TypeOK, Idle
<1>1. CASE EditAccount
  BY <1>0, <1>1 DEF EditAccount, Edit
<1>2. CASE EditTerms
  BY <1>0, <1>2 DEF EditTerms, Edit
<1>3. CASE EditBindings
  BY <1>0, <1>3 DEF EditBindings, Edit
<1>4. CASE DeleteSC
  BY <1>0, <1>4 DEF DeleteSC, Edit
<1>5. CASE DeletePM
  <2>1. child.phase = "none"
    BY <1>0, <1>5 DEF DeletePM
  <2>2. UNCHANGED <<account, bindings, child, sc, customer>>
    BY <1>5 DEF DeletePM, Edit, stripeVars
  <2>3. ~Stale
    BY <1>0, <1>q, <1>5, <2>1 DEF DeletePM, Edit, queueVars
  <2> QED
    BY <2>1, <2>2, <2>3, ParentUnneeded
<1>6. CASE Lapse
  <2>1. ~Stale
    BY <1>0, <1>q, <1>6 DEF Lapse, Edit, clusterVars
  <2> QED
    BY <1>6, <2>1, StaleUnchanged DEF Lapse, Edit, clusterVars, stripeVars
<1>7. CASE CreateChild
  BY <1>0, <1>7 DEF CreateChild, ChildChanges
<1>8. CASE CollectGarbage
  BY <1>0, <1>8 DEF CollectGarbage, ChildChanges
<1>9. CASE SyncAccount
  BY <1>0, <1>9 DEF SyncAccount, Told, Passes
<1>10. CASE SyncBindings
  BY <1>0, <1>10 DEF SyncBindings
<1>11. CASE SyncParent
  <2>1. ~Stale
    BY <1>0, <1>q, <1>11 DEF SyncParent, Told, queueVars, clusterVars
  <2> QED
    BY <1>11, <2>1, StaleUnchanged DEF SyncParent, Told, clusterVars, stripeVars
<1>12. CASE SyncChild
  BY <1>0, <1>12 DEF SyncChild, Leaves
<1>13. CASE SyncSC
  BY <1>0, <1>13 DEF SyncSC
<1>14. CASE StartAccount
  <2>1. ~Needs(cache.account, cache.parent, cache.child, cache.sc)
    BY <1>0, <1>t, <1>14 DEF StartAccount, Goto, Tasks, Workers
  <2>2. /\ cache.account = account /\ cache.child = child /\ cache.sc = sc.exists
        /\ parent => cache.parent
    BY <1>0, <1>14 DEF StartAccount, SyncInv, CacheFollows
  <2>3. ~Stale
    BY <2>1, <2>2 DEF Stale, Needs
  <2> QED
    BY <1>14, <2>3, StaleUnchanged DEF StartAccount, clusterVars, stripeVars
<1>15. CASE StartCard
  <2>1. ~Stale
    BY <1>0, <1>t, <1>q, <1>15 DEF StartCard, Goto, At, Workers, clusterVars
  <2> QED
    BY <1>15, <2>1, StaleUnchanged DEF StartCard, clusterVars, stripeVars
<1>16. CASE Mint
  <2>1. CASE child.phase # "none"
    BY <1>0, <1>16, <2>1 DEF Mint, ChildChanges
  <2>2. CASE child.phase = "none"
    <3>1. Leaves
      BY <1>16, <2>2 DEF Mint
    <3> QED
      BY <3>1 DEF Leaves
  <2> QED
    BY <2>1, <2>2
<1>17. CASE CleanUp
  <2>1. cache.child # child
    <3>1. cache.child = child => news' = news \union {"child"}
      BY <1>17, Zenon DEF CleanUp, ChildChanges
    <3> QED
      BY <1>0, <3>1
  <2>2. "child" \in news'
    BY <1>17, <2>1 DEF CleanUp, SyncInv, CacheFollows
  <2> QED
    BY <1>0, <2>2
<1>18. CASE Confirm
  <2>1. ~Stale
    BY <1>0, <1>q, <1>18 DEF Confirm, queueVars, clusterVars
  <2> QED
    BY <1>18, <2>1, StaleUnchanged DEF Confirm, clusterVars, stripeVars
<1>19. CASE ReadName
  <2>1. ~Stale
    BY <1>0, <1>q, <1>19 DEF ReadName, queueVars, clusterVars
  <2> QED
    BY <1>19, <2>1, StaleUnchanged DEF ReadName, clusterVars, stripeVars
<1>20. CASE WriteName
  BY <1>0, <1>20 DEF WriteName
<1>21. CASE PatchChild
  <2>1. CASE child.phase # "none"
    BY <1>0, <1>21, <2>1 DEF PatchChild, ChildChanges
  <2>2. CASE child.phase = "none"
    <3>1. Leaves
      BY <1>21, <2>2 DEF PatchChild
    <3> QED
      BY <3>1 DEF Leaves
  <2> QED
    BY <2>1, <2>2
<1>22. CASE MintFails
  BY <1>22 DEF MintFails, Leaves
<1>23. CASE HookFails
  BY <1>23 DEF HookFails, Leaves
<1>24. CASE Crash
  BY <1>0, <1>24 DEF Crash
<1>25. ASSUME NEW w \in Workers, Lock(w) PROVE ~Stale'
  <2>1. w = "card" /\ UNCHANGED <<sc, news>>
    BY <1>0, <1>t, <1>25 DEF Lock, Goto, Workers, Tasks
  <2>2. ~Stale
    BY <1>0, <1>t, <1>q, <1>25, <2>1 DEF Lock, Goto, At, Workers, queueVars
  <2> QED
    BY <1>25, <2>1, <2>2, StaleUnchanged DEF Lock, stripeVars
<1>26. ASSUME NEW w \in Workers, Write(w) PROVE ~Stale'
  <2>1. UNCHANGED <<account, bindings, parent, child, news, hook, upstream, missed, cache>>
    BY <1>26 DEF Write
  <2>2. CASE ~sc.exists
    <3>p. sc' = sc /\ (Retried(w) \/ Continues(w))
      BY <1>26, <2>2, Published DEF Write, SyncInv, TypeOK, TaxIDsAccepted
    <3>a. w = "card"
      <4> SUFFICES ASSUME w = "account" PROVE FALSE
        BY DEF Workers
      <4>1. queued \/ "sc" \in news
        BY <1>26, <2>2 DEF Write, SyncInv, GoneIsTold
      <4>2. queued \/ "sc" \in news => queued' \/ "sc" \in news'
        BY <2>1, <3>p DEF Retried, Continues, queueVars
      <4> QED
        BY <1>0, <4>1, <4>2
    <3>b. Retried(w)
      <4>1. ~Continues(w)
        <5> DEFINE m == [Idle EXCEPT !.pc = "minting", !.base = task[w].base]
        <5>1. m.pc = "minting"
          BY <1>t DEF Tasks
        <5>2. Continues(w) => task' = [task EXCEPT !["card"] = m]
          BY <3>a DEF Continues, Goto
        <5> HIDE DEF m
        <5> QED
          BY <1>0, <1>t, <5>1, <5>2 DEF Workers
      <4> QED
        BY <3>p, <4>1
    <3>1. w = "card" /\ sc' = sc /\ Retried(w)
      BY <3>p, <3>a, <3>b
    <3>2. ~Stale
      BY <1>0, <1>t, <1>q, <1>26, <2>1, <3>1 DEF Write, Retried, Goto, At, Workers
    <3>3. ~Needs(account, parent, child, sc.exists)
      BY <2>2, <3>2 DEF Stale, Shows
    <3> QED
      BY <2>1, <3>1, <3>3 DEF Stale, Needs
  <2>3. CASE sc.exists
    <3>1. w = "account" /\ queued' = queued
      <4>1. Continues(w)
        BY <1>26, <2>3, Published DEF Write, SyncInv, TypeOK, TaxIDsAccepted
      <4> QED
        BY <1>0, <1>t, <4>1 DEF Continues, Goto, queueVars, Workers, Tasks
    <3>2. PICK d \in Details : d = task[w].details
      BY <1>t DEF Tasks
    <3>3. BuiltFromCache(d)
      BY <1>0, <1>26, <3>1, <3>2 DEF SyncInv, ReadsAreCurrent, Write
    <3>4. /\ cache.account = account /\ cache.bindings = bindings /\ cache.child = child
          /\ parent => cache.parent
      BY <1>0, <2>1 DEF SyncInv, CacheFollows
    <3>5. d = Wanted
      <4>1. CASE cache.parent
        BY <3>3, <3>4, <4>1 DEF BuiltFromCache, Wanted
      <4>2. CASE ~cache.parent
        <5>1. child = NoChild
          BY <1>0, <2>1, <3>4, <4>2 DEF SyncInv, CacheFollows
        <5>2. d.card => upstream = "attached"
          BY <1>26, <3>2 DEF Write, Accepted
        <5>3. d.card => child.card \/ upstream = "detached"
          BY <3>2 DEF SyncInv, CardIsTold
        <5>4. d.card = FALSE
          BY <5>1, <5>2, <5>3 DEF NoChild, Details
        <5>5. [d EXCEPT !.card = FALSE] = d
          BY <5>4 DEF Details
        <5>6. Wanted.card = FALSE
          BY <5>1, <1>t DEF Wanted, DetailsOf, NoChild, TypeOK, Accounts
        <5> QED
          BY <3>3, <3>4, <5>5, <5>6 DEF BuiltFromCache, Wanted
      <4> QED
        BY <4>1, <4>2
    <3>6. Wanted' = d /\ bindings' = d.projects
      BY <2>1, <3>5 DEF Wanted, DetailsOf
    <3> QED
      BY <1>t, <1>26, <2>3, <3>2, <3>6, WrittenIsSynced
  <2> QED
    BY <2>2, <2>3
<1>27. ASSUME NEW w \in Workers, WriteRejected(w) PROVE ~Stale'
  <2>1. w = "card" /\ queued' = queued
    BY <1>0, <1>27 DEF WriteRejected, Retried, Workers
  <2>2. ~Stale
    BY <1>0, <1>t, <1>q, <1>27, <2>1
    DEF WriteRejected, Retried, Goto, At, Workers, clusterVars
  <2> QED
    BY <1>27, <2>2, StaleUnchanged DEF WriteRejected, clusterVars, stripeVars
<1>28. ASSUME NEW w \in Workers, EnsureFails(w) PROVE ~Stale'
  BY <1>0, <1>28 DEF EnsureFails, Retried, Leaves, Workers
<1>29. ASSUME NEW w \in Workers, TaxOutage(w) PROVE ~Stale'
  BY <1>0, <1>29 DEF TaxOutage, Leaves
<1>30. CASE UNCHANGED vars
  <2>1. ~Stale
    BY <1>0, <1>q, <1>30 DEF vars, clusterVars, queueVars
  <2> QED
    BY <1>30, <2>1, StaleUnchanged DEF vars, clusterVars, stripeVars
<1> QED
  BY <1>1, <1>2, <1>3, <1>4, <1>5, <1>6, <1>7, <1>8, <1>9, <1>10, <1>11, <1>12, <1>13,
     <1>14, <1>15,
     <1>16, <1>17, <1>18, <1>19, <1>20, <1>21, <1>22, <1>23, <1>24, <1>25, <1>26, <1>27,
     <1>28, <1>29, <1>30
     DEF Next, Informers, AccountWorker, CardWorker, Environment, Webhook, Failures, Ensure,
         Workers

-----------------------------------------------------------------------------
(* The theorems                                                             *)

\* At the start the account is queued and the cache is that of the cluster.
LEMMA InitInv == Init => SyncInv /\ NothingForgotten
<1> SUFFICES ASSUME Init PROVE SyncInv /\ NothingForgotten
  OBVIOUS
<1>1. TypeOK
  BY InitType
<1>2. CacheFollows
  BY DEF Init, Cluster, NoChild, CacheFollows
<1>3. CardIsTold
  <2>1. \A w \in Workers : task[w].details.card = FALSE
    BY Constants DEF Init, Idle
  <2>2. cache.child.card = FALSE /\ customer.card = FALSE
    BY DEF Init, Cluster, NoChild, NoCustomer
  <2> QED
    BY <2>1, <2>2 DEF CardIsTold
<1>4. queued
  BY DEF Init
<1> QED
  BY <1>1, <1>2, <1>3, <1>4
  DEF SyncInv, ReadsAreCurrent, GoneIsTold, NothingForgotten, BeingMended

\* The reads of a reconcile that an event has made stale are followed by another
\* reconcile: SyncInv holds in every state.
THEOREM ReadsStayCurrent == Spec => []SyncInv
<1>1. SyncInv /\ [Next]_vars => SyncInv'
  BY TypeStep, FollowsStep, CardStep, ReadsStep, GoneStep DEF SyncInv
<1> QED
  BY <1>1, InitInv, PTL DEF Spec

\* Whenever the Customer differs from the cluster, somebody is on the way to mend it,
\* except where no event follows a failure.
THEOREM DifferencesAreMended == Spec => []NothingForgotten
<1>1. SyncInv /\ NothingForgotten /\ [Next]_vars => NothingForgotten'
  BY ForgottenStep
<1> QED
  BY <1>1, InitInv, ReadsStayCurrent, PTL DEF Spec
=============================================================================
