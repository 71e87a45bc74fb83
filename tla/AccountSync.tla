----------------------------- MODULE AccountSync -----------------------------
(***************************************************************************)
(* How the Stripe Customer of one BillingAccount follows the account, its   *)
(* bindings and its card.  The BillingAccount reconciler syncs it when a    *)
(* watch enqueues the account; the StripePaymentMethod reconciler syncs it  *)
(* on its way to a SetupIntent; both write, under the lock of Ensure, what  *)
(* they read before it.  The webhook makes the card known and fills in the  *)
(* name.  Stripe has one Customer here: StripeCustomers shows how it comes   *)
(* about, PaymentMethodSetup the setup and the deletion of the card.        *)
(***************************************************************************)
EXTENDS CustomerDetails

CONSTANTS Holder,    \* the cardholder's name
          TaxLists,  \* lists of tax ids that an account can have
          MaxUpsets  \* edits, deletions, failed calls and restarts of the leader

ASSUME SyncAssumption ==
  /\ Holder \in Names \ {NoName}
  /\ TaxLists \subseteq Seq(TaxIDs)
  /\ MaxUpsets \in Nat

VARIABLES
  account,   \* the BillingAccount: spec, and whether it is billed by invoice
  bindings,  \* the projects with an active BillingAccountBinding
  parent,    \* does the PaymentMethod exist?
  child,     \* the StripePaymentMethod
  expired,   \* is its SetupIntent past its expiry?
  sc,        \* the StripeCustomer
  customer,  \* Stripe: the Customer
  upstream,  \* Stripe: the card
  event,     \* Stripe: is setup_intent.succeeded still to be delivered?
  cache,     \* the leader's informer cache
  news,      \* the kinds of which it has not had the last event
  queued,    \* is the account in the reconciler's queue?
  cardQueued,\* is the child in its reconciler's queue?
  task,      \* what the worker of each reconciler is doing
  hook,      \* the delivery that a webhook handles
  upsets,    \* how many there were so far
  missed     \* history: a difference was left that no event follows

clusterVars == <<account, bindings, parent, child, sc>>
stripeVars == <<customer, upstream, event>>
queueVars == <<queued, cardQueued>>
vars == <<clusterVars, expired, stripeVars, cache, news, queueVars, task, hook,
          upsets, missed>>

Workers == {"account", "card"}

\* The kinds of events that the leader's watches bring: the account's spec (and
\* generation) or its payment arrangement changed, or another object did.
Kinds == {"spec", "terms", "bindings", "parent", "child", "sc"}

Children == [phase : {"none", "new", "awaiting", "active"}, card : BOOLEAN,
             deleting : BOOLEAN]
NoChild == [phase |-> "none", card |-> FALSE, deleting |-> FALSE]

NewAccount == [name |-> NoName, default |-> TRUE, tax |-> << >>, invoice |-> FALSE]
NoDetails == DetailsOf(NewAccount, {}, FALSE)
NoCustomer == [made |-> FALSE, name |-> NoName, card |-> FALSE, projects |-> NoList,
               tax |-> {}, invoice |-> FALSE]
NoSC == [exists |-> FALSE, taxes |-> FALSE]
Idle == [pc |-> "idle", account |-> NewAccount, details |-> NoDetails, base |-> "new"]

Cluster == [account |-> account, bindings |-> bindings, parent |-> parent,
            child |-> child, sc |-> sc.exists]

Init ==
  /\ account = NewAccount /\ bindings = Projects /\ parent = TRUE
  /\ child = NoChild /\ expired = FALSE /\ sc = NoSC
  /\ customer = NoCustomer /\ upstream = "none" /\ event = FALSE
  /\ cache = Cluster /\ news = {}
  /\ queued = TRUE /\ cardQueued = FALSE
  /\ task = [w \in Workers |-> Idle] /\ hook = "idle"
  /\ upsets = 0 /\ missed = FALSE

-----------------------------------------------------------------------------
(* What should be, and what is                                              *)

\* needsStripeCustomer, of account a with child c, whose parent exists if p, and a
\* StripeCustomer if s.
Needs(a, p, c, s) == a.invoice \/ s \/ (c.phase # "none" /\ p)

Wanted == DetailsOf(account, bindings, child.card)

\* Stripe has the tax ids of d, or the StripeCustomer says that it has not.
TaxesSettled(d) ==
  IF TaxIDsAccepted(d.tax) THEN customer.tax = Values(d.tax) /\ sc.taxes
                           ELSE ~sc.taxes

Shows(d, list) ==
  /\ customer.made /\ customer.name \in (IF d.name = NoName THEN Names ELSE {d.name})
  /\ customer.card = d.card /\ customer.invoice = d.invoice
  /\ customer.projects = list
  /\ sc.exists /\ TaxesSettled(d)

\* The Customer differs from what the cluster says of it.
Stale ==
  /\ Needs(account, parent, child, sc.exists)
  /\ ~Shows(Wanted, JoinNames[bindings])

\* A step after which nothing may come to mend what differs.
Leaves == missed' = (missed \/ Stale')

-----------------------------------------------------------------------------
(* Consumers, billing, and the cluster                                      *)

Edit(kinds) ==
  /\ upsets < MaxUpsets /\ upsets' = upsets + 1
  /\ news' = news \union kinds
  /\ UNCHANGED <<stripeVars, cache, task, hook, missed>>

\* The contact, the default payment method or the tax ids.
EditAccount ==
  /\ Edit({"spec"})
  /\ \/ \E n \in Names \ {Holder, account.name} :
          account' = [account EXCEPT !.name = n]
     \/ \E t \in TaxLists \ {account.tax} : account' = [account EXCEPT !.tax = t]
     \/ account' = [account EXCEPT !.default = ~@]
  /\ UNCHANGED <<bindings, parent, child, sc, expired, queueVars>>

\* Billing starts or stops billing by invoice.
EditTerms ==
  /\ Edit({"terms"})
  /\ account' = [account EXCEPT !.invoice = ~@]
  /\ UNCHANGED <<bindings, parent, child, sc, expired, queueVars>>

EditBindings ==
  /\ Edit({"bindings"})
  /\ \E p \in Projects :
       bindings' = IF p \in bindings THEN bindings \ {p} ELSE bindings \union {p}
  /\ UNCHANGED <<account, parent, child, sc, expired, queueVars>>

DeletePM ==
  /\ Edit({"parent"}) /\ parent
  /\ parent' = FALSE
  /\ UNCHANGED <<account, bindings, child, sc, expired, queueVars>>

\* Someone deletes the StripeCustomer.
DeleteSC ==
  /\ Edit({"sc"}) /\ sc.exists
  /\ sc' = NoSC
  /\ UNCHANGED <<account, bindings, parent, child, expired, queueVars>>

\* The SetupIntent expires; the timer of its reconcile goes off.
Lapse ==
  /\ Edit({}) /\ child.phase = "awaiting" /\ ~expired
  /\ expired' = TRUE /\ cardQueued' = TRUE
  /\ UNCHANGED <<clusterVars, queued>>

\* The child changes: the leader will be told.
ChildChanges(c) == child' = c /\ news' = news \union {"child"}

\* PaymentMethodWatcher
CreateChild ==
  /\ cache.parent /\ child.phase = "none" /\ parent /\ "child" \notin news
  /\ ChildChanges([NoChild EXCEPT !.phase = "new"])
  /\ UNCHANGED <<account, bindings, parent, sc, expired, stripeVars, cache,
                 queueVars, task, hook, upsets, missed>>

\* The child goes with its parent, once its finalizer is gone.
CollectGarbage ==
  /\ ~parent /\ child.phase # "none" /\ ~child.deleting
  /\ ChildChanges([child EXCEPT !.deleting = TRUE])
  /\ UNCHANGED <<account, bindings, parent, sc, expired, stripeVars, cache,
                 queueVars, task, hook, upsets, missed>>

-----------------------------------------------------------------------------
(* The watches of the BillingAccount reconciler                             *)

\* The cache gets field f as the events of these kinds have it.
Told(kinds, f) ==
  /\ kinds \intersect news # {}
  /\ news' = news \ kinds
  /\ cache' = [cache EXCEPT ![f] = Cluster[f]]
  /\ UNCHANGED <<clusterVars, expired, stripeVars, task, hook, upsets>>

\* Mutant: the arrangement is on the status, which bumps no generation.
GenerationOnly(kinds) == "spec" \in kinds

\* GenerationChangedPredicate or invoiceArrangementChanged
Passes(kinds) == "spec" \in kinds \/ "terms" \in kinds

SyncAccount ==
  /\ Told({"spec", "terms"}, "account")
  /\ queued' = (queued \/ Passes(news))
  /\ UNCHANGED <<cardQueued, missed>>

\* enqueueBillingAccountForBinding
SyncBindings ==
  /\ Told({"bindings"}, "bindings")
  /\ queued' = TRUE
  /\ UNCHANGED <<cardQueued, missed>>

\* PaymentMethods are not watched by either reconciler.
SyncParent ==
  /\ Told({"parent"}, "parent")
  /\ UNCHANGED <<queueVars, missed>>

\* Mutant: events of a card that is not confirmed are dropped.
ConfirmedOnly(c, p) == p /\ c.card

\* enqueueBillingAccountForStripePaymentMethod finds the account by the parent in
\* the cache.
EnqueuesAccount(c, p) == p

SyncChild ==
  /\ Told({"child"}, "child")
  /\ cardQueued' = TRUE
  /\ IF EnqueuesAccount(child, cache.parent)
     THEN queued' = TRUE /\ UNCHANGED missed
     ELSE Leaves /\ UNCHANGED queued

\* Owns StripeCustomers: its creation and its deletion, no status write.
SyncSC ==
  /\ Told({"sc"}, "sc")
  /\ queued' = TRUE
  /\ UNCHANGED <<cardQueued, missed>>

-----------------------------------------------------------------------------
(* The reconcilers                                                          *)

At(w, pc) == task[w].pc = pc
Goto(w, t) == task' = [task EXCEPT ![w] = t]

\* BillingAccountReconciler.Reconcile, up to Ensure: all it reads is cached.
StartAccount ==
  /\ queued /\ At("account", "idle")
  /\ queued' = FALSE
  /\ missed' = FALSE
  /\ IF Needs(cache.account, cache.parent, cache.child, cache.sc)
     THEN Goto("account", [Idle EXCEPT !.pc = "waiting", !.account = cache.account])
     ELSE UNCHANGED task
  /\ UNCHANGED <<clusterVars, expired, stripeVars, cache, news, cardQueued, hook,
                 upsets>>

\* A reconcile of the child that comes to reconcileSetupIntent: it has no
\* SetupIntent yet, or one that expired.  The others end without a sync.
StartCard ==
  /\ cardQueued /\ At("card", "idle") /\ ~cache.child.deleting
  /\ cardQueued' = FALSE
  /\ IF cache.parent /\ cache.child.phase \in
          {"new"} \union (IF expired THEN {"awaiting"} ELSE {})
     THEN Goto("card", [Idle EXCEPT !.pc = "waiting", !.account = cache.account,
                                    !.base = cache.child.phase])
     ELSE UNCHANGED task
  /\ UNCHANGED <<clusterVars, expired, stripeVars, cache, news, queued, hook, upsets,
                 missed>>

LockFree == \A w \in Workers : ~At(w, "writing")

\* Ensure takes the lock, getOrCreates the StripeCustomer and builds the details
\* from the account that its caller read and from what the cache has now.
Lock(w) ==
  /\ At(w, "waiting") /\ LockFree
  /\ Goto(w, [Idle EXCEPT !.pc = "writing", !.base = task[w].base,
                          !.details = DetailsOf(task[w].account, cache.bindings,
                                                cache.child.card)])
  /\ IF sc.exists THEN UNCHANGED <<sc, news>>
     ELSE sc' = [NoSC EXCEPT !.exists = TRUE] /\ news' = news \union {"sc"}
  /\ UNCHANGED <<account, bindings, parent, child, expired, stripeVars, cache,
                 queueVars, hook, upsets, missed>>

\* Ensure returns an error: the lock is released, the reconcile retried.
Retried(w) ==
  /\ Goto(w, Idle)
  /\ IF w = "account" THEN queued' = TRUE /\ UNCHANGED cardQueued
                      ELSE cardQueued' = TRUE /\ UNCHANGED queued

\* Ensure returns an id, with or without a TaxIDError: neither is an error to the
\* callers.
Continues(w) ==
  /\ Goto(w, IF w = "account" THEN Idle
             ELSE [Idle EXCEPT !.pc = "minting", !.base = task[w].base])
  /\ UNCHANGED queueVars

\* Mutant: a TaxIDError is returned by the BillingAccount reconciler.
RetriedUnlessTaxed(w, accepted) ==
  IF accepted THEN Continues(w) ELSE Retried(w)

Returned(w, accepted) == Continues(w)

\* Stripe takes an attached default card only, and no overlong metadata.
Accepted(d) ==
  /\ d.card => upstream = "attached"
  /\ JoinNames[d.projects].bytes <= MetadataMax

\* patchStatus, relative to the copy read under the lock.  A StripeCustomer that is gone
\* makes it fail, unless the copy says all this already: then nothing is sent.
Publish(w, accepted) ==
  IF sc.exists
  THEN sc' = [sc EXCEPT !.taxes = accepted] /\ Returned(w, accepted)
  ELSE UNCHANGED sc /\ (Retried(w) \/ Returned(w, accepted))

\* EnsureCustomer creates or updates the Customer, then the tax ids; patchStatus;
\* unlock.
Write(w) ==
  /\ At(w, "writing") /\ Accepted(task[w].details)
  /\ LET d == task[w].details
         accepted == TaxIDsAccepted(d.tax) IN
       /\ customer' = [WithDetails(customer, d) EXCEPT
                         !.tax = ReconcileTaxIDs(d.tax, customer.tax)]
       /\ Publish(w, accepted)
  /\ UNCHANGED <<account, bindings, parent, child, expired, upstream, event, cache,
                 news, hook, upsets, missed>>

WriteRejected(w) ==
  /\ At(w, "writing") /\ ~Accepted(task[w].details)
  /\ Retried(w)
  /\ UNCHANGED <<clusterVars, expired, stripeVars, cache, news, hook, upsets,
                 missed>>

\* CreateSetupIntent, and the status patch of the child relative to the copy that
\* was read; or the child is gone and the patch fails.
Mint ==
  /\ At("card", "minting")
  /\ UNCHANGED <<account, bindings, parent, sc, stripeVars, cache, hook, upsets>>
  /\ IF child.phase # "none"
     THEN /\ ChildChanges([child EXCEPT !.phase = IF task["card"].base = "awaiting"
                                                  THEN @ ELSE "awaiting"])
          /\ Goto("card", Idle) /\ expired' = FALSE
          /\ UNCHANGED <<queueVars, missed>>
     ELSE Retried("card") /\ UNCHANGED <<child, news, expired>> /\ Leaves

\* reconcileDelete: detach the card, which clears the default, and release the
\* finalizer, unless the copy is stale: that is a conflict, and retried.
CleanUp ==
  /\ cardQueued /\ At("card", "idle") /\ cache.child.deleting
  /\ IF cache.child.card
     THEN upstream' = "detached" /\ customer' = [customer EXCEPT !.card = FALSE]
     ELSE UNCHANGED <<upstream, customer>>
  /\ IF cache.child = child
     THEN ChildChanges(NoChild) /\ cardQueued' = FALSE
     ELSE UNCHANGED <<child, news, cardQueued>>
  /\ UNCHANGED <<account, bindings, parent, sc, expired, event, cache, queued, task,
                 hook, upsets, missed>>

-----------------------------------------------------------------------------
(* The card is confirmed                                                    *)

Confirm ==
  /\ child.phase = "awaiting" /\ upstream = "none"
  /\ upstream' = "attached" /\ event' = TRUE
  /\ UNCHANGED <<clusterVars, expired, customer, cache, news, queueVars, task, hook,
                 upsets, missed>>

\* BackfillCustomerName reads the name.  A card without a holder's name, a failed
\* read or a failed write: the handler goes on.
ReadName ==
  /\ event /\ hook = "idle" /\ child.phase # "none"
  /\ hook' \in {"patching"} \union (IF customer.name = NoName THEN {"naming"} ELSE {})
  /\ UNCHANGED <<clusterVars, expired, stripeVars, cache, news, queueVars, task,
                 upsets, missed>>

\* ... and writes it.
WriteName ==
  /\ hook = "naming"
  /\ customer' = [customer EXCEPT !.name = Holder]
  /\ hook' = "patching"
  /\ UNCHANGED <<clusterVars, expired, upstream, event, cache, news, queueVars, task,
                 upsets, missed>>

\* patchStripeSuccess; a child that is gone makes it fail, and Stripe's retry is
\* answered without a child.
PatchChild ==
  /\ hook = "patching"
  /\ hook' = "idle" /\ event' = FALSE
  /\ UNCHANGED <<account, bindings, parent, sc, expired, customer, upstream, cache,
                 queueVars, task, upsets>>
  /\ IF child.phase # "none"
     THEN /\ ChildChanges([child EXCEPT !.phase = "active", !.card = TRUE])
          /\ UNCHANGED missed
     ELSE UNCHANGED <<child, news>> /\ Leaves

-----------------------------------------------------------------------------
(* Failures                                                                 *)

Fails == upsets < MaxUpsets /\ upsets' = upsets + 1

\* A call of Ensure fails; the Customer may have been written, and its tax ids.  A
\* card's reconcile is retried, but may then find that the child needs no SetupIntent
\* any more.
EnsureFails(w) ==
  /\ Fails /\ At(w, "writing")
  /\ \/ UNCHANGED customer
     \/ LET d == task[w].details IN
          /\ Accepted(d)
          /\ \E ids \in {customer.tax, ReconcileTaxIDs(d.tax, customer.tax)} :
               customer' = [WithDetails(customer, d) EXCEPT !.tax = ids]
  /\ Retried(w)
  /\ UNCHANGED <<clusterVars, expired, upstream, event, cache, news, hook>>
  /\ IF w = "card" THEN Leaves ELSE UNCHANGED missed

\* An outage while the tax ids are written is a TaxIDError too: reported as a
\* rejection and not retried.
TaxOutage(w) ==
  /\ Fails
  /\ At(w, "writing") /\ Accepted(task[w].details)
  /\ LET d == task[w].details IN
       \E ids \in InterruptedTaxIDs(d.tax, customer.tax) :
         customer' = [WithDetails(customer, d) EXCEPT !.tax = ids]
  /\ Publish(w, FALSE)
  /\ UNCHANGED <<account, bindings, parent, child, expired, upstream, event, cache,
                 news, hook>>
  /\ Leaves

\* CreateSetupIntent fails, or the patch of the child.
MintFails ==
  /\ Fails /\ At("card", "minting")
  /\ Retried("card")
  /\ UNCHANGED <<clusterVars, expired, stripeVars, cache, news, hook>>
  /\ Leaves

\* The delivery fails or its process stops: the event is delivered again, or that
\* is dropped as a duplicate.
HookFails ==
  /\ Fails /\ hook # "idle"
  /\ hook' = "idle" /\ event' \in {event, FALSE}
  /\ UNCHANGED <<clusterVars, expired, customer, upstream, cache, news, queueVars,
                 task>>
  /\ Leaves

\* The leader restarts: everything is listed again and enqueued.
Crash ==
  /\ Fails
  /\ cache' = Cluster /\ news' = {}
  /\ queued' = TRUE /\ cardQueued' = (child.phase # "none")
  /\ task' = [w \in Workers |-> Idle]
  /\ UNCHANGED <<clusterVars, expired, stripeVars, hook, missed>>

-----------------------------------------------------------------------------
Informers == SyncAccount \/ SyncBindings \/ SyncParent \/ SyncChild \/ SyncSC

Ensure(w) == Lock(w) \/ Write(w) \/ WriteRejected(w)
AccountWorker == StartAccount \/ Ensure("account")
CardWorker == StartCard \/ Ensure("card") \/ Mint \/ CleanUp

Environment ==
  \/ EditAccount \/ EditTerms \/ EditBindings \/ DeletePM \/ DeleteSC \/ Lapse
  \/ CreateChild \/ CollectGarbage \/ Confirm

Webhook == ReadName \/ WriteName \/ PatchChild

Failures ==
  \/ MintFails \/ HookFails \/ Crash
  \/ \E w \in Workers : EnsureFails(w) \/ TaxOutage(w)

Next == Informers \/ AccountWorker \/ CardWorker \/ Environment \/ Webhook \/ Failures

Spec == Init /\ [][Next]_vars

\* Watches deliver, each worker works, garbage is collected and deliveries go on;
\* consumers, billing, Stripe and failures need not.
Fairness ==
  /\ WF_vars(Informers) /\ WF_vars(AccountWorker) /\ WF_vars(CardWorker)
  /\ WF_vars(CollectGarbage) /\ WF_vars(Webhook)

FairSpec == Spec /\ Fairness

-----------------------------------------------------------------------------
Caches == [account : Accounts, bindings : SUBSET Projects, parent : BOOLEAN,
           child : Children, sc : BOOLEAN]

Tasks == [pc : {"idle", "waiting", "writing", "minting"}, account : Accounts,
          details : Details, base : {"none", "new", "awaiting", "active"}]

Customers == [made : BOOLEAN, name : Names, card : BOOLEAN,
              projects : {NoList} \union {JoinNames[b] : b \in SUBSET Projects},
              tax : SUBSET TaxIDs, invoice : BOOLEAN]

\* Every variable holds a value of its kind.
TypeOK ==
  /\ account \in Accounts /\ bindings \subseteq Projects /\ parent \in BOOLEAN
  /\ child \in Children /\ expired \in BOOLEAN
  /\ sc \in [exists : BOOLEAN, taxes : BOOLEAN]
  /\ customer \in Customers
  /\ upstream \in {"none", "attached", "detached"} /\ event \in BOOLEAN
  /\ cache \in Caches /\ news \subseteq Kinds
  /\ queued \in BOOLEAN /\ cardQueued \in BOOLEAN
  /\ task \in [Workers -> Tasks]
  /\ hook \in {"idle", "naming", "patching"}
  /\ upsets \in 0 .. MaxUpsets /\ missed \in BOOLEAN

\* A field of the cache differs from the cluster only if an event is on its way; a
\* PaymentMethod that is gone from the cache is gone, with or without its child.
CacheFollows ==
  /\ "spec" \in news \/ "terms" \in news \/ cache.account = account
  /\ "bindings" \in news \/ cache.bindings = bindings
  /\ "child" \in news \/ cache.child = child
  /\ "sc" \in news \/ cache.sc = sc.exists
  /\ parent => cache.parent
  /\ child.phase = "none" => child = NoChild

\* Whoever takes the card for the default has it from a child that is still there,
\* or the card is detached, and Stripe refuses it.
CardIsTold ==
  (\/ cache.child.card \/ customer.card \/ \E w \in Workers : task[w].details.card)
    => child.card \/ upstream = "detached"

\* What d was built from differs from the cache in the card at most, and that only
\* when the PaymentMethod is gone: its child's events enqueue no account then.
BuiltFromCache(d) ==
  LET now == DetailsOf(cache.account, cache.bindings, cache.child.card) IN
    d = now \/ (~cache.parent /\ [d EXCEPT !.card = now.card] = now)

\* What the account's reconcile read before the lock, and the details it built under
\* it, are those of the cache, or the account is queued again.
ReadsAreCurrent ==
  \/ queued
  \/ /\ At("account", "waiting") => task["account"].account = cache.account
     /\ At("account", "writing") => BuiltFromCache(task["account"].details)

\* A StripeCustomer that went away under the lock queues the account again: Ensure may
\* return without having noticed.
GoneIsTold == At("account", "writing") => sc.exists \/ queued \/ "sc" \in news

\* Why nothing is forgotten: each change that a reconcile has missed is either an
\* event that its watch still has, or has queued the account once more.
SyncInv == TypeOK /\ CacheFollows /\ CardIsTold /\ ReadsAreCurrent /\ GoneIsTold

\* Somebody still has to do with the Customer: a watch has an event for the account,
\* the account is queued or being reconciled, a card's reconcile or a delivery has
\* written and is yet to patch the child, or the child is being deleted.
BeingMended ==
  \/ queued \/ news \ {"parent"} # {}
  \/ ~At("account", "idle") \/ At("card", "minting") \/ hook = "patching"
  \/ child.phase # "none" /\ ~parent

\* A difference between the cluster and the Customer is never forgotten, although
\* either reconciler writes what it read before the other wrote: an event or a
\* reconcile is on its way, except where no event follows a failure.
NothingForgotten == Stale => missed \/ BeingMended

\* As the cluster has it, the list of projects as its comment describes it, or, where
\* the code departs from the comment, truncated although it would fit.
InSync ==
  Needs(account, parent, child, sc.exists) =>
    \E list \in Renderings(bindings) : Shows(Wanted, list)

\* When billing, consumers and failures leave it alone, the Customer comes to show
\* the account, its default card, its projects and its tax ids, or the StripeCustomer
\* says that they were rejected.
Converges == <>[](missed \/ InSync)

\* ... and the reconciler of the account comes to rest: neither its own writes, nor
\* a tax id or a list that Stripe rejects, keep it going.
ComesToRest == <>[](~queued /\ At("account", "idle"))
=============================================================================
