# stripe-provider in TLA+

Models, model-checking runs and proofs for `milo-os/stripe-provider`, the
controller that gives a `PaymentMethod` of the billing system a Stripe
SetupIntent and a `BillingAccount` a Stripe Customer.

## 1. The system

| Component | State it keeps | Operations | Talks to |
|---|---|---|---|
| PaymentMethodWatcher | none | creates the `StripePaymentMethod` (the *child*) of a `PaymentMethod` (the *parent*) of this provider | API server |
| StripePaymentMethodReconciler | child status, finalizer, attempts annotation; parent phase | finalizer; SetupIntent: create, expire, replace; parent to AwaitingConfirmation; deletion: cancel or detach, bounded attempts, surrender | API server, Stripe, StripeCustomers |
| Stripe webhook | child status, parent status, timeline Event | verify, deduplicate, dispatch `setup_intent.{succeeded,setup_failed,canceled}`; patch child, then parent; backfill of the Customer's name | Stripe (events in, card details out), API server |
| MemoryDeduper | LRU of event ids, per process | `SeenOrRecord` | webhook |
| StripeCustomers | a lock per account, `StripeCustomer` status | `Ensure`: get or create, find or create at Stripe, publish | both reconcilers share it |
| BillingAccountReconciler | none | decides whether an account needs a Customer, calls `Ensure` | StripeCustomers, watches of bindings, children, `StripeCustomer` |
| Stripe client | none | `EnsureCustomer` and its search, tax ids, `joinNames`, SetupIntents, detach, backfill | Stripe |
| StripeProviderConfigReconciler, ResolveConfig, taxids, metrics, main | conditions | validation, wiring | |

Two replicas run. All of them serve webhooks from their own informer cache with
their own deduper; the reconcilers run on the leader only.

What is hard: every decision is made on a cached copy; writes are merge patches
(only what differs from the copy is written, no conflict) except the updates of
finalizer and annotation (which conflict); each operation is a sequence of calls
to two services, any of which can fail or be cut short; Stripe delivers events
late, out of order and more than once; its search lags; objects are deleted and
created again under the same name.

What makes each part correct:

- reconciler and webhook: a parent is Active only with a card its consumer
  confirmed; nothing at Stripe is left behind by a deletion; a SetupIntent is not
  canceled while it can be confirmed; deletion ends; a confirmation arrives;
- StripeCustomers: one Customer per account, all cards on it, and a published id
  (what invoicing bills) never changes;
- deduper: an event is dropped exactly when it is one of the last N distinct ones;
- timeline: at most one Event per event of Stripe and process, and the phase of the parent
  is on it unless a failure fell on its patch;
- BillingAccountReconciler: the Customer's details converge to the account's, a
  difference is never forgotten, and the reconciler comes to rest.

`PROJECT.json` lists the hazards of the code with the lines they bite at.

## 2. The modules

**`StripeObjects`**: parent, child, events, and how the code transforms them as pure
operators: the merge patch (`MergeSPM`, `MergePM`), what the handlers write
(`WithEvent`, `ParentWithEvent`), what the reconciler writes (`WithSetupIntent`).

**`PaymentMethodSetup`**: one payment method from the watcher to deletion, with the
reconciler, the webhook of every replica, Stripe and the consumer.

| Module | Code |
|---|---|
| `CreateChild`, `CollectGarbage` | `PaymentMethodWatcher.Reconcile`, its owner reference |
| `StartReconcile`, `Entry` | the read at the top of `Reconcile` and the branches up to its first side effect |
| `AddFinalizer`, `RetireIntent`, `MintIntent`, `PublishIntent`, `ParentAwaits` | the calls of `Reconcile`/`reconcileSetupIntent`, one step each |
| `CancelIntent`, `DetachCard`, `ReleaseFinalizer`, `RecordAttempt`, `NoteIncomplete`, `Surrender` | `reconcileDelete` |
| `Receive`, `DropDuplicate`, `RecordOutcome`, `ProjectOutcome` | `ServeHTTP`, the deduper, the handlers: child patch, then parent patch |
| `ReconcilerFault`, `HookFault`, `Crash` | a call that fails; a replica that restarts |
| `Confirm`, `Decline`, `Lapse`, `Delete*`, `Sync*` | consumer, Stripe, time, informers |
| `TimerFires`, `Resync` | the work queue: `RequeueAfter`, and a requeue although nothing modelled changed |

`seen[r]` is the informer cache of replica `r`; `recon` and `hook[q]` hold the copy
that a reconcile or a delivery read, and patches are computed from that copy.

**`CardLifecycle`** is its abstract specification: parent, child, SetupIntents and cards,
without caches, queues, patches or deliveries. A SetupIntent is offered under the
finalizer (`Offer`), canceled only past its deadline or when the child is leaving
(`Cancel`); the parent shows confirmed cards (`Report`); a deleted child goes when the
card it records is detached (`Release`) or its attempts are used up (`FailCleanup`,
`GiveUp`). `ShownMethod` and `ShownChild` are what of the objects it is about, and
`ImplementsLifecycle` that `PaymentMethodSetup` implements it.

**`StripeCustomers`**: `Ensure` for one account name, called by both reconcilers
(`Callers`), each with the account it read from the cache. Steps: `GetOrCreate`
(lock, uncached read, owner check), `FindExisting` (cards in the cache, else the
search), `UpdateCustomer`/`CreateCustomer`, `PatchStatus` (and unlock),
`RecordOnCard`. Every call can fail (`ReadFails`, `StripeFails`, `PatchFails`), with
Stripe's write done or not when it reports an error; the leader can crash.
`strayed` is a history variable: the Customers whose id was lost while the search
did not list them, or that another account of the name took over.

**`CustomerRegistry`** is its abstract specification, without callers, cache, search and
lock: an entry for an account (`Enter`), to which a Customer is published once
(`Publish`) and which goes with the account or by mistake (`Vanish`), and Customers that
are made for an account (`Make`). A second one for the account that is there takes a
failure (`trouble`), and short of one its own Customer is what its entry names.

**`MemoryDeduper`**: the list, the index and `SeenOrRecord` as operators
(`Remembers`, `AfterSeeing`). **`EventWindow`** is the abstract specification: each
process knows which ids it was presented with and what came since, and an id is a
duplicate when fewer than `Capacity` others did. **`Deliveries`** composes the deduper
of each process with Stripe's deliveries, any number of them at once, and the handlers'
effect on the parent's phase and the timeline, and implements `EventWindow`
(`Window!Spec`). A delivery is `<<r, i, n>>`, the `n`-th of event `i`, to process `r`;
`stage[d]` is how far its handler is.

| `Deliveries` | Code |
|---|---|
| `Receive`, `Drops` | `ServeHTTP` up to the handler, with `SeenOrRecord` and its answer; earlier deliveries of the event may still be handled |
| `Ignore` | `dispatch` of other events |
| `ReadParent` | the cached parent, `wasActive` and `wasFailed` in `projectOntoPaymentMethod` and `projectFailureOntoPaymentMethod` |
| `PatchParent`, `WritesPhase` | `Status().Patch` of the parent, relative to that copy |
| `RecordEvent` | `recordPaymentMethodEvent`, if the parent was not in that phase |
| `HandlerFails`, `Restart` | an answer of 500, the patch done or not; a process that dies with its handlers at any stage, and a new one |

**`CustomerDetails`**: what an account and the cluster say of its Customer
(`DetailsOf`), how it is sent (`WithDetails`), `joinNamesForMetadata` (`JoinNames`), and
`reconcileTaxIDs`, whole and interrupted. `Abridged` is what the comment of
`joinNamesForMetadata` says (`client.go:328-332`): truncated on a name boundary when the
joined value would exceed the cap. The code departs from it (`client.go:344`): it leaves
room for the ellipsis whether or not the list needs one, and so truncates lists of 496
to 500 bytes that fit (`NearCap`). `Renderings` are the comment's list and, in that gap
only, the truncated one.

**`AccountSync`**: the Stripe Customer of one account against the cluster.

| Module | Code |
|---|---|
| `SyncAccount`, `SyncBindings`, `SyncChild`, `SyncSC` | the watches of the BillingAccountReconciler with their predicates (`Passes`) and mappings (`EnqueuesAccount`) |
| `StartAccount` | its `Reconcile` up to `Ensure`, with `needsStripeCustomer` |
| `StartCard`, `Mint`, `CleanUp` | `Reconcile`, `reconcileSetupIntent` and `reconcileDelete` of the card's reconciler, as far as they touch the Customer or the child's phase |
| `Lock`, `Write`, `WriteRejected`, `Publish` | `Ensure`, for either: lock and the details built under it; Customer, tax ids, `patchStatus` |
| `Returned`, `Retried` | what either makes of the answer: a `TaxIDError` is none |
| `ReadName`, `WriteName`, `PatchChild` | the success handler: `BackfillCustomerName`, child patch |
| `EnsureFails`, `TaxOutage`, `MintFails`, `HookFails`, `Crash` | failures of each of these, and of the leader |

`cache` is the informer cache of the leader and `news` the kinds of objects with an
event it has not had; `task[w]` holds the account that worker `w` read before the lock
and the details it built. The history variable `missed` marks a difference that a
failure left and that no event follows; a reconcile of the account clears it.

**`MCPaymentMethodSetup`**, **`MCDeliveries`** and **`MCAccountSync`** name the model
values. **`PaymentMethodSetupProofs`**, **`ChildProofs`**, **`CancelationProofs`**
and **`LifecycleProofs`** (each extends the one before), **`StripeCustomersProofs`**
and **`OneCustomerProofs`**,
**`DeliveriesProofs`** and **`AccountSyncProofs`** hold the theorems. A definition
called "Mutant" in its comment is a plausible bug of the code, used to show that a
property can fail.

### Decisions

- A cache read is merged with the write that follows it in the same handler step
  where the cache's own lag covers the delay (the webhook's read of child and of
  parent, `ensurePaymentMethodAwaiting`). Where code runs between read and
  write (`Reconcile`), they are separate steps.
- A resource version is the contents: an update conflicts when the contents differ
  from the copy.
- `TimerFires` (RequeueAfter) waits for the leader's cache: a timer is hours long.
- `Resync` stands for every reason to reconcile that changes nothing the model holds:
  an event of a condition, a resync, a write that was done and reported an error. Safety
  has to bear with it at any time; liveness does not count on it.
- The `CleanupIncomplete` patch puts the server's answer into the object in hand, and with
  it the name's present resource version. A deletion timestamp that the answer lacks
  stays in the copy, so that the Update which follows is refused for an object created
  again (`SurrenderLands`).
- In `PaymentMethodSetup`, an acknowledged event's id is forgotten by the deduper: it is
  not delivered again.
- A crash lists the caches again. A late write of a former leader is not modelled.
- A card's brand, last four and expiry are one value: the SetupIntent it came from.
- Not in `PaymentMethodSetup`: conditions, the Customer's id, a terminating
  namespace; timeline Events are in `Deliveries`, the name backfill in `AccountSync`.
- In `Deliveries` Stripe may deliver any confirmation or decline again, `MaxTries` times in
  all, whatever the answers were and whether or not there was one yet: retries,
  duplicates and overlapping deliveries are one thing. The child's patch, which comes
  before the parent's, is in `PaymentMethodSetup`; other events only take room in the
  deduper. An Event is on the timeline once it is handed to the recorder: how the
  recorder sends it is client-go's.
- `Publish`: a `StripeCustomer` that was deleted under the lock makes `patchStatus` fail,
  except that it sends nothing, and succeeds, when the copy says all of it already. What
  the copy says (its conditions) is not modelled: either may happen.
- `AccountSync` has one Stripe Customer, with an id from the start (`StripeCustomers`
  shows how it comes about). The writes of `Ensure` and the unlock are one step:
  under the lock only the webhook's backfill writes to the Customer, and it is apart.
  Between two reads of the cache under the lock nothing is distinguished.
- Consecutive events of one object are one (`news` is a set): a watch may coalesce
  them, and the queue holds an account once. Requeues have no delay.
- `AccountSync` leaves out the finalizer, the Failed phase and recreated children
  (all in `PaymentMethodSetup`). The name stands for the contact fields that are not
  sent when empty, `invoice` for the fields that are always sent.
- `StripeCustomers` takes lock and `getOrCreate` in one step, and the lookup of cards
  and the search in one step: nobody else can change what they read in between,
  under the lock. The account is billed by invoice, hence always needs
  a Customer. What enqueues a reconcile is left open (it may start at any time), so
  the module claims nothing about progress.

## 3. The runs

| Run | Instance | Shows |
|---|---|---|
| `setup_safety` | 1 replica, 2 SetupIntents, 1 failure or crash | `ActiveIsConfirmed`, `ChildActiveIsConfirmed`, `GuardedByFinalizer`, `NotForgotten`, `ReleaseIsClean`, `LiveIntentNotCanceled`, `SurrenderIsDue`, `ImplementsLifecycle` |
| `setup_replicas` | 2 replicas, 2 children of the name, no failure | the same across caches and a recreated child, `SurrenderIsDue`, and `ConfirmationInv`, the invariant of the proofs |
| `setup_liveness` | 1 replica, 2 attempts, 1 failure | `DeletionCompletes`, `ParentLearns`, `ConfirmationArrives` |
| `customers` | 2 accounts of the name, 2 Customers, 1 failure | `OneCustomer`, `OneWithoutFailure`, `CardsShareTheCustomer`, `PublishedInv`, `PublishedIsFinal`, `ImplementsRegistry` (the refinement) |
| `deliveries` | 2 processes, room for 2 of 3 events, 2 deliveries of each confirmation or decline and 1 of other events, 2 handled at once, 1 failure or restart | `ImplementsWindow` (the refinement), `DeduperInv`, `OneEventPerProcess`, `PhaseIsOnTimeline` |
| `account_sync` | 2 projects, 2 lists of tax ids (one with a rejected id between two others), 2 edits, deletions or failures | `SyncInv`, `NothingForgotten`, `Converges`, `ComesToRest`; at its start, for every selection of 7 names, that `JoinNames` is `Abridged` except near the cap (`JoinNamesAsDescribed`), and that it differs there (`JoinNamesCutsEarly`) |

Six runs show where the code departs from what its comments or documents say; each
is a finding in `PROJECT.json`:

| Run | Says | Does |
|---|---|---|
| `superseded_intent` | the new SetupIntent is the authoritative one | the canceled event of the old one fails the child |
| `active_parent` | an Active parent is left alone | a stale cached parent is patched back to Awaiting |
| `orphaned_card` | no payment method is orphaned at Stripe | a child deleted between confirmation and its event leaves its card attached |
| `lost_confirmation` | a 500 makes Stripe retry | the retry is dropped as a duplicate of the failed delivery |
| `second_customer` | an account never gets two Customers | a failed status patch and a lagging search make a second |
| `predecessor_billed` | a new account is not billed to its predecessor's Customer | it adopts it through a card that outlived the old account |

### Bounds

`MaxSI` SetupIntents (2: one expires and is replaced), `MaxUID` objects created under
the name (2: a recreated one gets the events of the old, the only other identity),
`MaxAttempts` cleanup attempts (2, one that fails and is counted and the last; the code
has 12), `MaxFaults` failures (1: no property needs two to fail here),
`MaxCustomers` (2: a second one is what must not be), `Requests` (1 delivery at a
time; deliveries still interleave with the reconciler between their two patches).
`Failures` and `ConsumerMay` choose what kinds a run looks at.

`Capacity` (2 of 3 ids: the smallest with an order to get wrong and something to
evict; the code has 4096), `MaxTries` deliveries of an event (2: one duplicate), `MaxServing` deliveries handled at
once (2: those of one event in one process or in two, or of two events),
`MaxUpsets` edits, deletions, failed calls and restarts (2: a change in the middle of
a sync, and one more while the first is being mended). `NameBytes` (8 and 15) and
`MetadataMax` (20, of which the ellipsis takes 5) make either name fit alone, the second
with no byte to spare, and not both; 500 bytes differ in nothing but size. The lists of
seven names cover those near the cap.

No run checks deadlock: a payment method that is Active, an event that was
acknowledged, an account in sync are at rest.

### Provisos in the properties

`created <= 1` in `GuardedByFinalizer`: an object created again can get the
old one's merge patch before it has a finalizer. `NotForgotten` is about a child with a
parent or with a deletion under way: without a parent Kubernetes deletes it first.
`OneCustomer` excludes `strayed` (`OneWithoutFailure` excludes failures and nothing
else), `CardsShareTheCustomer` also a second account: the runs `second_customer` and
`predecessor_billed` show what happens there. `ConfirmationArrives` excludes
replicas whose cache lacks the child, failures and expiry: `lost_confirmation` and
`superseded_intent` show these. `OneEventPerProcess` excludes an id that the process
evicted or, restarted, forgot; across processes the code does record an Event twice.
`PhaseIsOnTimeline` excludes a phase set by a patch that was done and reported an
error, and by a delivery whose process died between the patch (`http.go:430`) and the
Event (`http.go:434`), both in `unreported`: the redelivery finds the phase and records
nothing. `InSync`, and with it `Converges`, accepts the truncated list of projects for one
that is near the cap, as the code writes it. `NothingForgotten` and
`Converges` exclude `missed`, which is set only when one of these leaves a difference:

- the child's event when the PaymentMethod is gone from the cache, and with it the
  account's name (`billingaccount_controller.go:312`);
- an outage while the tax ids are written, published as `StripeRejected` and not
  retried (`stripe_customers.go:128`, `billingaccount_controller.go:119`);
- a card's reconcile that fails after it wrote an older account and finds, when
  retried, that the child needs nothing (`MintFails`, `Mint` without a child,
  `EnsureFails`);
- a delivery that stops between the name and the child's patch (`HookFails`,
  `PatchChild` without a child).

Each is an observation about the code worth knowing; a reconcile of the account for
any other reason mends it.

### Fairness

Weak fairness of: the informers (a watch delivers in the end), the reconciler's one
worker, its timer, the watcher, garbage collection, each step of a delivery in
progress, and the delivery of each pending event, duplicates included (Stripe
retries for three days). None of the consumer's actions is fair, nor failures,
nor time, nor deletions. In `AccountSync`: the informers, each reconciler's worker,
garbage collection and the webhook's deliveries in progress, each as a whole.

## 4. The proofs

For every number of replicas, deliveries, SetupIntents, recreated objects, attempts,
Customers, failures, event ids, capacities, projects, names, tax ids and edits:

| Theorem | States |
|---|---|
| `TypeCorrect` | `Spec => []TypeOK` of `PaymentMethodSetup` |
| `ConfirmationInvariant` | `Spec => []ConfirmationInv` |
| `OnlyConfirmedCardsAreActive`, `OnlyConfirmedCardsAreCopied` | `[]ActiveIsConfirmed`, `[]CopiesAreConfirmed` |
| `ReleasesAreClean` | `ReleaseIsClean`, an action property |
| `ChildInvariant` | `Spec => []ChildInv` |
| `RecordedUnderFinalizer`, `OnlyConfirmedChildrenAreActive` | `[]GuardedByFinalizer`, `[]ChildActiveIsConfirmed` |
| `CancelationInvariant` | `Spec => []CancelationInv` |
| `LiveIntentsAreKept` | `LiveIntentNotCanceled`, an action property |
| `CleanupInvariant` | `Spec => []CleanupInv` |
| `SurrendersAreDue` | `SurrenderIsDue`, an action property |
| `QueueInvariant`, `NoChildIsForgotten` | `Spec => []QueueInv`, `[]NotForgotten` |
| `LifecycleImplemented` | `Spec => ImplementsLifecycle`, the refinement of `CardLifecycle` |
| `PublishedInvariant` | `Spec => []PublishedInv` of `StripeCustomers` |
| `PublishedIDIsFinal` | `PublishedIsFinal`, an action property |
| `OneCustomerInvariant` | `Spec => []OneCustomerInv` |
| `NoSecondCustomer`, `CardsAreOnOneCustomer` | `[]OneCustomer`, `[]CardsShareTheCustomer` |
| `UntroubledInvariant` | `Spec => []UntroubledInv` |
| `OneCustomerWithoutFailure` | `[]OneWithoutFailure` |
| `RegistryImplemented` | `Spec => ImplementsRegistry`, the refinement of `CustomerRegistry` |
| `DeduperInvariant` | `Spec => []DeduperInv` of `Deliveries` |
| `WindowImplemented` | `Spec => ImplementsWindow`, the refinement of `EventWindow` |
| `EventsAreReportedOnce`, `PhasesAreReported` | `[]OneEventPerProcess`, `[]PhaseIsOnTimeline` |
| `ReadsStayCurrent` | `Spec => []SyncInv` of `AccountSync` |
| `DifferencesAreMended` | `Spec => []NothingForgotten` |

*Confirmed cards.* `ActiveIsConfirmed` is not inductive: a delivery writes the parent
from its event, so the event must be true of Stripe (`EventsAreTrue`); it starts
from a cached copy, and a merge patch keeps what it does not change, so every copy
must be right as well (`CopiesAreConfirmed`). `ReleaseIsClean` needs that a reconcile
that is about to release has detached the card of the copy it read
(`DetachedBeforeRelease`) and that a recorded card stays on the child
(`ShownCardsStay`); the update's conflict does the rest. The assumptions are
`SetupAssumption` and those of `StripeObjects`: sizes and sets of the right kind.

*The child.* A delivery patches a phase onto the child from a cached copy, and a
merge patch leaves the card and the finalizer as it finds them. `ChildInv` says what is
then found there, as long as the child was not recreated: whoever saw its finalizer or
works on a SetupIntent, and any SetupIntent at Stripe, means that the finalizer is still
on (`FinalizerStays`); a copy with a card means a child with a card (`CardStays`). It
rests on events being about SetupIntents that were created (`EventsAreMinted`), on
nothing having happened before the child was there (`Untouched`), and on a child that is
gone not being Active (`GoneIsInactive`).

*Cancelations.* A reconcile cancels the SetupIntent of the copy it read, and that copy
may be old. SetupIntents are created in order and published one at a time
(`MintedInOrder`, `PublishIsNext`), so the child's deadline is the last one's
(`DeadlineIsLast`), and no copy names an intent newer than its deadline, also when a
late event put an older one back (`EventsArePublished`, `CopiesAreSound`). A copy that
has expired (`RetiresExpired`) can thus not name a live intent. A copy that is deleted
belongs to an object that stays deleted, and whose uid is never used again
(`DeletionStays`, `CancelsDeleted`).

*Surrenders and the lifecycle.* `SurrenderIsDue` compares with the attempts counted on
the server, while the code counts on a copy from the cache and takes the finalizer off
a copy that the last patch reloaded. The child that stands there at that moment could
be another one. `CleanupInv` says why it is not: only the leader's one worker adds
finalizers, and it has then seen the child it adds one to (`LeaderSawFinalizer`); it
adds none while it cleans up, so a child with a finalizer is the deleted one of the
cleanup (`CleanupIsOurs`, which rests on `CleansDeleted`, `GuardsLive` and
`BaseIsCreated`), and the reloaded copy of any other child is not deleted and its
Update refused. No copy knows of more attempts than the server (`AttemptsGrow`), and
no attempt is added between the last cleanup and the surrender (`LetGoIsDue`). All of it
rests on one worker in one leader. `LifecycleImplemented` puts
the four invariants together: each action is mapped to the step of `CardLifecycle` it
stands for or to a stutter (`IntentSteps`, `CardSteps`, `ParentSteps`, `ChildSteps`,
`CleanupSteps`). A merge patch computed from an old copy becomes a `Report` or a
`Record` because every copy names confirmed cards only, `MintIntent` an `Offer`
because the finalizer stays, the release a `Release` because a recorded card stays on
the child and its detach precedes.

*Nobody is forgotten.* `NotForgotten` is the part of `DeletionCompletes` and
`ParentLearns` that is safety: what has work left has something that brings the
reconciler back. Seen from a state at rest it is not inductive, because it was decided
on a copy. `QueueInv` says that the copy is what the cache shows as long as nothing
enqueued the key since (`WorkIsCached`, with `ServesLive` and `SeenDeletedIsGuarded` for
what is known of it), and that a reconcile which returns without a requeue has
guarded the child, so that a change of it is on its way, or removed it, or found its
parent gone, which never comes back (`HandledIsOver`, `ParentIsPast`).

*Published ids.* `PublishedInv` says that Ensure is alone between lock and unlock
(`HolderIsAlone`) and that its copy of the `StripeCustomer` is then current or the
object is gone (`CopyIsCurrent`). The copy is needed because `PatchStatus` writes
relative to it: with a current copy that has an id, the patch writes that id. The
three kinds of step of a caller (`QuietStep`, `MiddleStep`, `LastStep`) are lemmas.

*One Customer.* A caller creates a Customer only when neither the object, nor the
cards, nor the search know one. `NoneIsForgotten` says that a Customer not counted as
`strayed` is known in one of these ways, or in the hand of the caller that made it and
still holds the lock; with the lock that makes every creation the first one
(`CreatesTheFirst`). Which Customers belong to the account is read from the uids
stamped on them (`UidsAreFresh`, `StampsAreTrue`, `IdsAreOfCustomers`).

*Without failure.* `OneCustomer` excuses what is `strayed`, and `strayed` grows also without
a failure, when a later account takes over the Customer of an earlier one.
`OneWithoutFailure` has no such excuse; it needs that a Customer made for the account
that is there does not stray. That could happen only to a call for an earlier account,
and `MadeIsEntered` says that by then the entry is of the account itself, which such a
call leaves alone; the entry of a call for the account is there as long as nobody deletes
it (`HolderHasEntry`). The refinement rests on the same: who makes a Customer makes the
first (`MakesTheFirst`), who publishes one publishes the account's own (`PublishesOwn`).

*The deduper.* The list answers like the window if what stands behind an id on it
is exactly what the process was presented with since (`ListIsSince`), and an id that
left it has at least `Capacity` others after it (`GoneIsOutside`). Moving an id to the
back, appending one and evicting the head each keep this: three lemmas about
sequences without repetition, with the cardinality of what is behind the head. The
refinement maps every step to the same step of the window, or to a stutter.
`OneEventPerProcess` follows from that an id which was handed to a handler is remembered,
or evicted, or lost, from the moment it was received (`Taken`, `HandledOnce`): two
deliveries of it, overlapping or not, are never both under way or recorded. For
`PhaseIsOnTimeline` the invariant is `ReportInv`: the delivery that wrote the phase is
recorded, or about to record, or in `unreported`, and a delivery that starts is none of
those under way (`DeliveriesWereMade`), so that it cuts off no handler between patch and
Event.

*The Customer.* `NothingForgotten` is not inductive: a reconcile of the account ends
in a write of what it read before the lock, and that must show the cluster or be
followed by another one. `SyncInv` says why: a field of the cache differs from the
cluster only while an event is on its way (`CacheFollows`), an event that changes what
a running reconcile has read has queued the account once more (`ReadsAreCurrent`), up
to the card, whose events are dropped once its PaymentMethod is gone; then the card
is detached and Stripe refuses it as a default (`CardIsTold`). A `StripeCustomer` that is
deleted under the lock queues the account, too (`GoneIsTold`): `Ensure` may not notice.
So a write with
nothing queued and no event on its way shows the cluster (`WrittenIsSynced`).

Model-checked only: liveness (fairness and ENABLED are out of the prover's reach):
`Converges`, `ComesToRest`, `DeletionCompletes`, `ParentLearns`, `ConfirmationArrives`;
and what the recursive functions compute (`JoinNames` against `Abridged` and
`Truncated`, induction over data).

## 5. Not modelled

- `StripeProviderConfigReconciler` and the table of tax id types: it writes a constant
  table and validation conditions onto the status of one object when they differ; no
  order of steps can make a difference. `ResolveConfig` is a call that may fail.
- Signature verification, decoding, the reading of card fields, the escaping of
  search values: pure. Metrics, generated code, manifests.
- Conditions and messages other than `TaxIDsApplied`: no control depends on them.
- E-mail and address, which are sent like the name. (A line of the address that is
  emptied while another stays is not cleared at Stripe, `client.go:268`: the data of
  one request, not an order of steps.)
- A late write of a former leader; elapsed time (the backoff of a retry).

## 6. Plan

Done: the money path (`PaymentMethodSetup`) with the refinement of `CardLifecycle`,
`StripeCustomers` with that of `CustomerRegistry`, `Deliveries` with that of
`EventWindow`, `AccountSync` with `CustomerDetails`, and their proofs.

Left: the composition of `AccountSync` with several accounts, where one card moves
from one to another.

Check a run with `tlc -config <run>.cfg <module>` and a proof with
`tlapm <module>.tla`.
