-------------------------- MODULE PaymentMethodSetup --------------------------
(***************************************************************************)
(* The life of one PaymentMethod and of its StripePaymentMethod child: the  *)
(* watcher that creates the child, the reconciler that creates, replaces    *)
(* and cleans up SetupIntents, and the Stripe webhook that moves both       *)
(* objects to Active or Failed.  The reconciler runs in the leader only;    *)
(* every replica serves the webhook.  All of them read through the informer *)
(* cache of their replica and write to the API server, and every read and   *)
(* every write is a step of its own, so that any other step fits between.   *)
(*                                                                         *)
(* An object's resourceVersion is its contents: an Update is refused when   *)
(* the object is no longer the one that was read.                          *)
(***************************************************************************)
EXTENDS StripeObjects, FiniteSets

CONSTANTS Replicas,   \* processes of the deployment
          Leader,     \* the replica that holds the leader lease
          Requests,   \* webhook requests that can be in progress at once
          ConsumerMay, \* what the consumer does: a subset of ConsumerActions
          Failures,    \* what fails: a subset of FailureKinds
          MaxFaults    \* how often

ConsumerActions == {"confirm", "decline", "delay", "delete child",
                    "delete parent"}
FailureKinds == {"api server", "webhook handler", "crash"}

ASSUME SetupAssumption ==
  /\ Leader \in Replicas
  /\ ConsumerMay \subseteq ConsumerActions
  /\ Failures \subseteq FailureKinds
  /\ MaxFaults \in Nat

VARIABLES
  pm,         \* the PaymentMethod, on the API server
  spm,        \* the StripePaymentMethod, on the API server (uid 0: none)
  created,    \* how many StripePaymentMethods the watcher has created
  seen,       \* the informer caches: seen[r].pm and seen[r].spm
  queue,      \* the reconciler's workqueue: "empty", "now" or "later"
  recon,      \* the reconciler: pc, the copy it read, the SetupIntent it made
  hook,       \* the webhook requests in progress
  dedup,      \* dedup[r]: the event ids in the MemoryDeduper of replica r
  intent,     \* Stripe: the state of each SetupIntent
  attached,   \* Stripe: the cards attached to the Customer
  published,  \* SetupIntents whose client secret a browser may hold
  lapsed,     \* how many of the deadlines have passed
  declined,   \* SetupIntents that had a declined attempt
  pending,    \* Stripe: events not yet acknowledged
  faults,     \* failures that happened so far
  surrendered \* uids whose finalizer was given up with cleanup incomplete

kubeVars == <<pm, spm, created>>
stripeVars == <<intent, attached, pending, declined>>
clientVars == <<published, lapsed>>
hookVars == <<hook, dedup>>
vars == <<kubeVars, seen, queue, recon, hookVars, stripeVars,
          clientVars, faults, surrendered>>

NewPM == [exists |-> TRUE, phase |-> "Pending", card |-> 0]
NoPM == [NewPM EXCEPT !.exists = FALSE]

ReconcilerPCs == {"idle", "finalize", "await", "retire", "mint",
                  "publish", "cancel", "detach", "release", "failed", "letgo"}
ReconcilerStates ==
  {s \in [pc : ReconcilerPCs, base : SPMs, si : SIRefs] :
     s.pc = "publish" => s.si # 0}
IdleReconciler == [pc |-> "idle", base |-> NoSPM, si |-> 0]

HookPCs == {"idle", "record", "project"}
HookStates == [pc : HookPCs, ev : Events, replica : Replicas]
IdleHook == [pc |-> "idle", ev |-> Event("succeeded", 1), replica |-> Leader]

Init ==
  /\ pm = NewPM
  /\ spm = NoSPM
  /\ created = 0
  /\ seen = [r \in Replicas |-> [pm |-> NewPM, spm |-> NoSPM]]
  /\ queue = "empty"
  /\ recon = IdleReconciler
  /\ hook = [q \in Requests |-> IdleHook]
  /\ dedup = [r \in Replicas |-> {}]
  /\ intent = [i \in SIs |-> "none"]
  /\ attached = {} /\ pending = {} /\ declined = {}
  /\ published = {} /\ lapsed = 0
  /\ faults = 0
  /\ surrendered = {}

-----------------------------------------------------------------------------
(* The cluster: object creation and deletion, informers, the workqueue.    *)

\* PaymentMethodWatcher.Reconcile, from the leader's cache; a child that is
\* already on the server makes Create fail with AlreadyExists, which it ignores.
CreateChild ==
  /\ seen[Leader].pm.exists
  /\ seen[Leader].spm.uid = 0 /\ spm.uid = 0
  /\ created < MaxUID
  /\ created' = created + 1
  /\ spm' = NewSPM(created + 1)
  /\ UNCHANGED <<pm, seen, queue, recon, hookVars, stripeVars,
                 clientVars, faults, surrendered>>

\* The API server's delete: an object with a finalizer is only marked.
Deleted(o) == IF o.finalizer THEN [o EXCEPT !.deleting = TRUE] ELSE NoSPM

DeleteSPM ==
  /\ "delete child" \in ConsumerMay
  /\ spm.uid # 0 /\ ~spm.deleting
  /\ spm' = Deleted(spm)
  /\ UNCHANGED <<pm, created, seen, queue, recon, hookVars, stripeVars,
                 clientVars, faults, surrendered>>

DeletePM ==
  /\ "delete parent" \in ConsumerMay
  /\ pm.exists
  /\ pm' = NoPM
  /\ UNCHANGED <<spm, created, seen, queue, recon, hookVars, stripeVars,
                 clientVars, faults, surrendered>>

\* The owner reference of the child: Kubernetes collects it with its parent.
CollectGarbage ==
  /\ ~pm.exists
  /\ spm.uid # 0 /\ ~spm.deleting
  /\ spm' = Deleted(spm)
  /\ UNCHANGED <<pm, created, seen, queue, recon, hookVars, stripeVars,
                 clientVars, faults, surrendered>>

\* Informers deliver each object on its own.  For(&StripePaymentMethod{}) has no
\* predicate: every change of it that the leader sees enqueues the object.
SyncSPM(r) ==
  /\ seen[r].spm # spm
  /\ seen' = [seen EXCEPT ![r].spm = spm]
  /\ queue' = IF r = Leader THEN "now" ELSE queue
  /\ UNCHANGED <<kubeVars, recon, hookVars, stripeVars, clientVars,
                 faults, surrendered>>

SyncPM(r) ==
  /\ seen[r].pm # pm
  /\ seen' = [seen EXCEPT ![r].pm = pm]
  /\ UNCHANGED <<kubeVars, queue, recon, hookVars, stripeVars,
                 clientVars, faults, surrendered>>

\* A RequeueAfter lasts minutes or hours, informers lag far less: when it is
\* over the leader's cache is up to date.
TimerFires ==
  /\ queue = "later" /\ seen[Leader] = [pm |-> pm, spm |-> spm]
  /\ queue' = "now"
  /\ UNCHANGED <<kubeVars, seen, recon, hookVars, stripeVars, clientVars, faults,
                 surrendered>>

\* The object is enqueued although nothing above changed: an event of a condition,
\* a resync, or the requeue of a write that was done and reported an error.
Resync ==
  /\ seen[Leader].spm.uid # 0 /\ queue # "now"
  /\ queue' = "now"
  /\ UNCHANGED <<kubeVars, seen, recon, hookVars, stripeVars, clientVars, faults,
                 surrendered>>

-----------------------------------------------------------------------------
(* Stripe and the browser.                                                  *)

\* A SetupIntent can be canceled until it has succeeded; Stripe then tells.
CancelUpstream(i) ==
  IF i # 0 /\ intent[i] = "open"
  THEN /\ intent' = [intent EXCEPT ![i] = "canceled"]
       /\ pending' = pending \union {Event("canceled", i)}
  ELSE UNCHANGED <<intent, pending>>

\* The consumer confirms: the card is attached to the Customer.
Confirm(i) ==
  /\ "confirm" \in ConsumerMay
  /\ i \in published /\ intent[i] = "open"
  /\ intent' = [intent EXCEPT ![i] = "succeeded"]
  /\ attached' = attached \union {i}
  /\ pending' = pending \union {Event("succeeded", i)}
  /\ UNCHANGED <<kubeVars, seen, queue, recon, hookVars, declined,
                 clientVars, faults, surrendered>>

\* An attempt is declined; the same SetupIntent can be tried again.
Decline(i) ==
  /\ "decline" \in ConsumerMay
  /\ i \in published \ declined /\ intent[i] = "open"
  /\ declined' = declined \union {i}
  /\ pending' = pending \union {Event("setup_failed", i)}
  /\ UNCHANGED <<kubeVars, seen, queue, recon, hookVars, intent,
                 attached, clientVars, faults, surrendered>>

\* The TTL of the next published SetupIntent runs out.
Lapse ==
  /\ "delay" \in ConsumerMay
  /\ \E i \in published : i > lapsed
  /\ lapsed' = lapsed + 1
  /\ UNCHANGED <<kubeVars, seen, queue, recon, hookVars, stripeVars,
                 published, faults, surrendered>>

-----------------------------------------------------------------------------
(* StripePaymentMethodReconciler                                            *)

At(pc) == recon.pc = pc
GoTo(pc) == recon' = [recon EXCEPT !.pc = pc]

\* The ways a Reconcile returns: done; with an error, which requeues the key at
\* once; or with RequeueAfter, which an earlier reconcile makes redundant.
Done == recon' = IdleReconciler /\ UNCHANGED queue
Requeue == recon' = IdleReconciler /\ queue' = "now"
RequeueAfter ==
  /\ recon' = IdleReconciler
  /\ queue' = IF queue = "now" THEN "now" ELSE "later"

\* Mutant: a SetupIntent is taken for expired one TTL too early.
ExpiredEarly(o) == o.deadline # 0 /\ o.deadline <= lapsed + 1

Expired(o) == o.deadline # 0 /\ o.deadline <= lapsed

\* Mutant: the SetupIntent is made before the finalizer is there.
EntryUnguarded(o) ==
  CASE o.uid = 0 -> "idle"
    [] o.uid # 0 /\ o.deleting -> IF o.finalizer THEN "cancel" ELSE "idle"
    [] OTHER -> IF ~Terminal(o) /\ o.secret = 0 THEN "mint"
                ELSE IF ~o.finalizer THEN "finalize" ELSE "idle"

\* Mutant: a fresh SetupIntent is taken as proof that the parent knows of it.
EntryTrusting(o) ==
  CASE o.uid = 0 -> "idle"
    [] o.uid # 0 /\ o.deleting -> IF o.finalizer THEN "cancel" ELSE "idle"
    [] o.uid # 0 /\ ~o.deleting /\ ~o.finalizer -> "finalize"
    [] OTHER -> IF Terminal(o) THEN "idle"
                ELSE IF o.secret = 0 THEN "mint"
                ELSE IF Expired(o) THEN "retire" ELSE "idle"

\* Mutant: the finalizer alone is taken for a deletion.
EntryUndeleted(o) ==
  CASE o.uid = 0                          -> "idle"
    [] o.uid # 0 /\ o.finalizer /\ Terminal(o) -> "cancel"
    [] OTHER -> IF ~o.finalizer THEN "finalize"
                ELSE IF o.secret = 0 THEN "mint" ELSE "await"

\* What Reconcile does first with the object o it got from the cache.
Entry(o) ==
  CASE o.uid = 0                        -> "idle"
    [] o.uid # 0 /\ o.deleting          -> IF o.finalizer THEN "cancel" ELSE "idle"
    [] o.uid # 0 /\ ~o.deleting /\ ~o.finalizer -> "finalize"
    [] OTHER -> IF Terminal(o) THEN "idle"
                ELSE IF o.secret = 0 THEN "mint"
                ELSE IF Expired(o) THEN "retire" ELSE "await"

StartReconcile ==
  /\ At("idle") /\ queue = "now"
  /\ queue' = "empty"
  /\ LET o == seen[Leader].spm IN
       recon' = IF Entry(o) = "idle" THEN IdleReconciler
                ELSE [pc |-> Entry(o), base |-> o, si |-> 0]
  /\ UNCHANGED <<kubeVars, seen, hookVars, stripeVars, clientVars,
                 faults, surrendered>>

\* Mutant: a merge patch, which the server applies whatever happened meanwhile.
PatchLands == spm.uid = recon.base.uid

\* An Update carries the resourceVersion of the copy that was read.
UpdateLands == spm = recon.base

\* The Update that adds the finalizer, before any Stripe-side work.
AddFinalizer ==
  /\ At("finalize")
  /\ IF UpdateLands
     THEN /\ spm' = [spm EXCEPT !.finalizer = TRUE]
          /\ Done
     ELSE Requeue /\ UNCHANGED spm
  /\ UNCHANGED <<pm, created, seen, hookVars, stripeVars, clientVars, faults,
                 surrendered>>

\* Best-effort cancel of the expired SetupIntent: its outcome is ignored.
RetireIntent ==
  /\ At("retire")
  /\ \/ CancelUpstream(recon.base.si)
     \/ UNCHANGED <<intent, pending>>
  /\ GoTo("mint")
  /\ UNCHANGED <<kubeVars, seen, queue, hookVars, attached, declined,
                 clientVars, faults, surrendered>>

\* reconcileSetupIntent up to CreateSetupIntent.  Everything it needs
\* (BillingAccount, provider config, Customer) can fail at every attempt.
MintIntent ==
  /\ At("mint")
  /\ \/ /\ ~seen[Leader].pm.exists
        /\ Done
        /\ UNCHANGED intent
     \/ /\ seen[Leader].pm.exists
        /\ Requeue
        /\ UNCHANGED intent
     \/ /\ seen[Leader].pm.exists
        /\ \E i \in SIs :
             /\ intent[i] = "none"
             /\ \A j \in SIs : intent[j] = "none" => i <= j
             /\ intent' = [intent EXCEPT ![i] = "open"]
             /\ recon' = [recon EXCEPT !.pc = "publish", !.si = i]
        /\ UNCHANGED queue
  /\ UNCHANGED <<kubeVars, seen, hookVars, attached, pending, declined,
                 clientVars, faults, surrendered>>

\* The status patch that hands the client secret to the portal.
PublishIntent ==
  /\ At("publish")
  /\ IF spm.uid # 0
     THEN /\ spm' = MergeSPM(recon.base, WithSetupIntent(recon.base, recon.si),
                             spm)
          /\ published' = published \union {recon.si}
          /\ recon' = [IdleReconciler EXCEPT !.pc = "await"]
          /\ UNCHANGED queue
     ELSE Requeue /\ UNCHANGED <<spm, published>>
  /\ UNCHANGED <<pm, created, seen, hookVars, stripeVars, lapsed, faults,
                 surrendered>>

\* ensurePaymentMethodAwaiting: only a parent that the cache shows as "Pending"
\* is patched.  Success is requeued for the next expiry check.
ParentAwaits ==
  /\ At("await")
  /\ LET base == seen[Leader].pm IN
       \/ /\ base.exists /\ base.phase # "Pending"
          /\ RequeueAfter
          /\ UNCHANGED pm
       \/ /\ base.exists /\ base.phase = "Pending" /\ pm.exists
          /\ pm' = [pm EXCEPT !.phase = "Awaiting"]
          /\ RequeueAfter
       \/ /\ ~base.exists \/ (base.phase = "Pending" /\ ~pm.exists)
          /\ Requeue
          /\ UNCHANGED pm
  /\ UNCHANGED <<spm, created, seen, hookVars, stripeVars, clientVars, faults,
                 surrendered>>

-----------------------------------------------------------------------------
(* reconcileDelete                                                          *)

\* A Stripe call can take effect and still report an error, or do neither.
CancelIntent ==
  /\ At("cancel")
  /\ IF NeedsCancel(recon.base)
     THEN \/ CancelUpstream(recon.base.si) /\ GoTo("detach")
          \/ CancelUpstream(recon.base.si) /\ GoTo("failed")
          \/ UNCHANGED <<intent, pending>> /\ GoTo("failed")
     ELSE UNCHANGED <<intent, pending>> /\ GoTo("detach")
  /\ UNCHANGED <<kubeVars, seen, queue, hookVars, attached, declined,
                 clientVars, faults, surrendered>>

\* Mutant: an error of DetachPaymentMethod is dropped.
DetachAnyway ==
  /\ At("detach")
  /\ \/ attached' = attached \ {recon.base.pmID}
     \/ attached' = attached
  /\ GoTo("release")
  /\ UNCHANGED <<kubeVars, seen, queue, hookVars, intent, pending,
                 declined, clientVars, faults, surrendered>>

\* The failing disjuncts also stand for a provider config that does not resolve.
DetachCard ==
  /\ At("detach")
  /\ \/ attached' = attached \ {recon.base.pmID} /\ GoTo("release")
     \/ attached' = attached \ {recon.base.pmID} /\ GoTo("failed")
     \/ attached' = attached /\ GoTo("failed")
  /\ UNCHANGED <<kubeVars, seen, queue, hookVars, intent, pending,
                 declined, clientVars, faults, surrendered>>

\* The Update that drops the finalizer; the server then removes the object.
ReleaseFinalizer ==
  /\ At("release")
  /\ IF UpdateLands
     THEN spm' = NoSPM /\ Done
     ELSE Requeue /\ UNCHANGED spm
  /\ UNCHANGED <<pm, created, seen, hookVars, stripeVars, clientVars, faults,
                 surrendered>>

\* Mutant: the annotation is never found, so every attempt is the first.
FirstAttempt == 1

Attempts == recon.base.attempts + 1

\* Mutant: one attempt too many.
OutOfAttemptsLate == Attempts > MaxAttempts

\* Mutant: one attempt too few.
OutOfAttemptsEarly == Attempts + 1 >= MaxAttempts

OutOfAttempts == Attempts >= MaxAttempts

\* The attempt is counted in an annotation; a conflict is ignored.
RecordAttempt ==
  /\ At("failed") /\ ~OutOfAttempts
  /\ spm' = IF UpdateLands THEN [spm EXCEPT !.attempts = Attempts] ELSE spm
  /\ RequeueAfter
  /\ UNCHANGED <<pm, created, seen, hookVars, stripeVars, clientVars, faults,
                 surrendered>>

\* Out of attempts: the CleanupIncomplete patch reloads the object it patched,
\* and its own failure is not fatal.
NoteIncomplete ==
  /\ At("failed") /\ OutOfAttempts
  /\ recon' = [recon EXCEPT !.pc = "letgo",
                            !.base = IF spm.uid = 0 THEN recon.base ELSE spm]
  /\ UNCHANGED <<kubeVars, seen, queue, hookVars, stripeVars, clientVars,
                 faults, surrendered>>

\* The reloaded object can be one that was created again under the name: the copy
\* keeps the deletion timestamp that the answer lacks, and the Update is refused.
SurrenderLands == UpdateLands /\ spm.deleting

Surrender ==
  /\ At("letgo")
  /\ IF SurrenderLands
     THEN /\ spm' = NoSPM
          /\ surrendered' = surrendered \union {spm.uid}
          /\ Done
     ELSE Requeue /\ UNCHANGED <<spm, surrendered>>
  /\ UNCHANGED <<pm, created, seen, hookVars, stripeVars, clientVars, faults>>

ReconcilerStep ==
  \/ StartReconcile \/ AddFinalizer \/ RetireIntent \/ MintIntent
  \/ PublishIntent \/ ParentAwaits \/ CancelIntent \/ DetachCard
  \/ ReleaseFinalizer \/ RecordAttempt \/ NoteIncomplete \/ Surrender

-----------------------------------------------------------------------------
(* The webhook                                                              *)

\* Stripe takes an event off its list when it gets a 2xx in time, and never
\* delivers it again: the entries of the dedupers for it are dead.
Forget(ev) ==
  /\ pending' = pending \ {ev}
  /\ dedup' = [r \in Replicas |-> dedup[r] \ {ev}]

Acknowledge(ev) == Forget(ev) \/ UNCHANGED <<pending, dedup>>

\* Mutant: deliveries are told apart by their SetupIntent, not by their event.
SameIntentSeen(r, ev) == \E e \in dedup[r] : e.si = ev.si

Seen(r, ev) == ev \in dedup[r]

\* ServeHTTP up to the handler: the event id is recorded before it is handled.
Receive(q, r, ev) ==
  /\ hook[q].pc = "idle" /\ ev \in pending /\ ~Seen(r, ev)
  /\ dedup' = [dedup EXCEPT ![r] = @ \union {ev}]
  /\ hook' = [hook EXCEPT ![q] = [pc |-> "record", ev |-> ev, replica |-> r]]
  /\ UNCHANGED <<kubeVars, seen, queue, recon, stripeVars, clientVars, faults,
                 surrendered>>

\* A duplicate is answered with a 2xx and dropped.
DropDuplicate(r, ev) ==
  /\ ev \in pending /\ Seen(r, ev)
  /\ Forget(ev)
  /\ UNCHANGED <<kubeVars, seen, queue, recon, hook, intent, attached,
                 declined, clientVars, faults, surrendered>>

\* findStripePaymentMethod, by the name in the metadata (no object: 200), and
\* patchStripeSuccess or patchStripeFailure (object gone meanwhile: 500).
RecordOutcome(q) ==
  /\ hook[q].pc = "record"
  /\ LET h == hook[q]
         base == seen[h.replica].spm IN
       \/ /\ base.uid # 0 /\ spm.uid # 0
          /\ spm' = MergeSPM(base, WithEvent(base, h.ev), spm)
          /\ hook' = [hook EXCEPT ![q].pc = "project"]
          /\ UNCHANGED <<pending, dedup>>
       \/ /\ base.uid # 0 /\ spm.uid = 0
          /\ hook' = [hook EXCEPT ![q] = IdleHook]
          /\ UNCHANGED <<spm, pending, dedup>>
       \/ /\ base.uid = 0
          /\ hook' = [hook EXCEPT ![q] = IdleHook]
          /\ Acknowledge(h.ev)
          /\ UNCHANGED spm
  /\ UNCHANGED <<pm, created, seen, queue, recon, intent, attached,
                 declined, clientVars, faults, surrendered>>

\* projectOntoPaymentMethod or projectFailureOntoPaymentMethod, then the 200;
\* without the parent, a 500.
ProjectOutcome(q) ==
  /\ hook[q].pc = "project"
  /\ LET h == hook[q]
         base == seen[h.replica].pm IN
       IF base.exists /\ pm.exists
       THEN /\ pm' = MergePM(base, ParentWithEvent(base, h.ev), pm)
            /\ Acknowledge(h.ev)
       ELSE UNCHANGED <<pm, pending, dedup>>
  /\ hook' = [hook EXCEPT ![q] = IdleHook]
  /\ UNCHANGED <<spm, created, seen, queue, recon, intent, attached,
                 declined, clientVars, faults, surrendered>>

-----------------------------------------------------------------------------
(* Failures                                                                 *)

Fails(kind) ==
  kind \in Failures /\ faults < MaxFaults /\ faults' = faults + 1

\* An API server call of the reconciler returns an error: it returns it, except
\* where it gives up on the annotation or ignores the CleanupIncomplete patch.
ReconcilerFault ==
  /\ Fails("api server")
  /\ recon.pc \in {"finalize", "publish", "await", "release", "failed",
                   "letgo"}
  /\ IF At("failed")
     THEN IF OutOfAttempts
          THEN GoTo("letgo") /\ UNCHANGED queue
          ELSE RequeueAfter
     ELSE Requeue
  /\ UNCHANGED <<kubeVars, seen, hookVars, stripeVars, clientVars, surrendered>>

\* Anything a handler calls fails: the answer is a 500 and the event is kept.
HookFault(q) ==
  /\ Fails("webhook handler")
  /\ hook[q].pc # "idle"
  /\ hook' = [hook EXCEPT ![q] = IdleHook]
  /\ UNCHANGED <<kubeVars, seen, queue, recon, dedup, stripeVars,
                 clientVars, surrendered>>

\* A replica restarts: it lists the objects again, which enqueues them if it
\* leads, and its deduper and everything it was doing are gone.
Crash(r) ==
  /\ Fails("crash")
  /\ seen' = [seen EXCEPT ![r] = [pm |-> pm, spm |-> spm]]
  /\ dedup' = [dedup EXCEPT ![r] = {}]
  /\ hook' = [q \in Requests |->
                IF hook[q].replica = r THEN IdleHook ELSE hook[q]]
  /\ IF r = Leader
     THEN recon' = IdleReconciler /\ queue' = "now"
     ELSE UNCHANGED <<recon, queue>>
  /\ UNCHANGED <<kubeVars, stripeVars, clientVars, surrendered>>

-----------------------------------------------------------------------------
HookStep(q) == RecordOutcome(q) \/ ProjectOutcome(q)

Next ==
  \/ CreateChild \/ DeleteSPM \/ DeletePM \/ CollectGarbage
  \/ \E r \in Replicas : SyncSPM(r) \/ SyncPM(r) \/ Crash(r)
  \/ TimerFires \/ Resync \/ Lapse
  \/ \E i \in SIs : Confirm(i) \/ Decline(i)
  \/ ReconcilerStep \/ ReconcilerFault
  \/ \E q \in Requests : HookStep(q) \/ HookFault(q)
  \/ \E q \in Requests, r \in Replicas : \E ev \in pending : Receive(q, r, ev)
  \/ \E r \in Replicas : \E ev \in pending : DropDuplicate(r, ev)

Spec == Init /\ [][Next]_vars

(***************************************************************************)
(* Informers deliver, delays end, the reconciler's worker and the request   *)
(* handlers take their steps, Kubernetes collects garbage, and Stripe keeps *)
(* delivering an event until it is acknowledged.  Nothing is assumed of the *)
(* consumer, of failures, or of which outcome a step has.                   *)
(***************************************************************************)
Fairness ==
  /\ WF_vars(CreateChild) /\ WF_vars(CollectGarbage) /\ WF_vars(TimerFires)
  /\ \A r \in Replicas : WF_vars(SyncSPM(r)) /\ WF_vars(SyncPM(r))
  /\ WF_vars(ReconcilerStep)
  /\ \A q \in Requests : WF_vars(HookStep(q))
  /\ \A ev \in Events :
       /\ WF_vars(\E q \in Requests, r \in Replicas : Receive(q, r, ev))
       /\ WF_vars(\E r \in Replicas : DropDuplicate(r, ev))

FairSpec == Spec /\ Fairness

-----------------------------------------------------------------------------
(* Safety                                                                   *)

\* Every variable holds a value of its kind (the fields of the CRD statuses
\* and the program counters of the reconciler and of the handlers).
TypeOK ==
  /\ pm \in PMs /\ spm \in SPMs
  /\ created \in 0 .. MaxUID
  /\ seen \in [Replicas -> [pm : PMs, spm : SPMs]]
  /\ queue \in {"empty", "now", "later"}
  /\ recon \in ReconcilerStates
  /\ hook \in [Requests -> HookStates]
  /\ dedup \in [Replicas -> SUBSET Events]
  /\ intent \in [SIs -> {"none", "open", "succeeded", "canceled"}]
  /\ attached \in SUBSET SIs /\ published \in SUBSET SIs
  /\ declined \in SUBSET SIs /\ pending \in SUBSET Events
  /\ lapsed \in 0 .. MaxSI
  /\ faults \in 0 .. MaxFaults
  /\ surrendered \in SUBSET (0 .. MaxUID)

\* A PaymentMethod is Active only with the details of a card whose SetupIntent
\* Stripe confirmed, whatever stale copies the merge patches of the webhook and
\* of the reconciler were computed from.
ActiveIsConfirmed ==
  pm.phase = "Active" => pm.card # 0 /\ intent[pm.card] = "succeeded"

\* No copy of the parent or of the child, on the server, in a replica's cache or
\* in the reconciler's hands, names a card that Stripe did not confirm: a patch
\* computed from any of them cannot bring one in.
Confirmed(card) == card # 0 => intent[card] = "succeeded"

CopiesAreConfirmed ==
  /\ Confirmed(pm.card) /\ Confirmed(spm.pmID) /\ Confirmed(recon.base.pmID)
  /\ \A r \in Replicas :
       Confirmed(seen[r].pm.card) /\ Confirmed(seen[r].spm.pmID)

\* Why that is so, and why a released child leaves no card behind.  An event, in
\* Stripe's outbox or in a handler, says what happened.
EventsAreTrue ==
  /\ \A ev \in pending :
       ev.type = "succeeded" => intent[ev.si] = "succeeded"
  /\ \A q \in Requests :
       hook[q].pc # "idle" /\ hook[q].ev.type = "succeeded"
         => intent[hook[q].ev.si] = "succeeded"

\* A parent that shows a card goes on showing one, so that a projection which
\* does not change the card finds it there.
ShownCardsStay ==
  /\ pm.phase = "Active" => pm.card # 0
  /\ \A r \in Replicas : pm.exists /\ seen[r].pm.card # 0 => pm.card # 0

\* The card of the copy that the finalizer is taken from has been detached.
DetachedBeforeRelease == At("release") => recon.base.pmID \notin attached

\* The inductive invariant of the four, with the types.
ConfirmationInv ==
  /\ TypeOK
  /\ EventsAreTrue
  /\ CopiesAreConfirmed
  /\ ShownCardsStay
  /\ DetachedBeforeRelease

\* The same of the child and its pm_ id, as long as the child was not deleted
\* and created again under its name: the merge patches name no UID.
ChildActiveIsConfirmed ==
  created <= 1 /\ spm.phase = "Active"
    => spm.pmID # 0 /\ intent[spm.pmID] = "succeeded"

\* Stripe-side state is recorded only on an object whose finalizer makes its
\* deletion wait for the cleanup (with the same proviso).
GuardedByFinalizer ==
  created <= 1 /\ (spm.si # 0 \/ spm.secret # 0 \/ spm.pmID # 0) => spm.finalizer

\* When reconcileDelete lets an object go and did not give up, the card that
\* the object records, then and not when it was read, is detached at Stripe.
CleanRelease ==
  spm.uid # 0 /\ spm.finalizer /\ spm'.uid = 0 /\ spm.uid \notin surrendered'
    => spm.pmID \notin attached'

ReleaseIsClean == [][CleanRelease]_vars

\* The provider cancels an open SetupIntent only when its TTL is over or when
\* the object it was read from is being deleted or gone.
LiveIntentNotCanceled ==
  [][\A i \in SIs : intent[i] = "open" /\ intent'[i] = "canceled"
       => i <= lapsed \/ spm.deleting \/ spm.uid # recon.base.uid]_vars

\* The provider gives a child up only after all its attempts at the cleanup, counted
\* in the annotation, failed: no stale copy cuts them short.
SurrenderIsDue ==
  [][surrendered' # surrendered
       => spm.deleting /\ spm.attempts = MaxAttempts - 1]_vars

\* A child that waits for its consumer or for its cleanup is not forgotten: it is
\* in the workqueue or in work, or a change of it is still on its way to the
\* leader, however the last reconcile of it ended.
Unfinished(o) == o.uid # 0 /\ (o.deleting \/ ~Terminal(o))

NotForgotten ==
  Unfinished(spm) /\ (spm.deleting \/ pm.exists)
    => seen[Leader].spm # spm \/ queue # "empty" \/ ~At("idle")

-----------------------------------------------------------------------------
(* The abstract specification                                               *)

\* What of the parent and of the child the promise is about.
ShownMethod == [exists |-> pm.exists, active |-> pm.phase = "Active",
                card |-> pm.card]

ShownChild == [uid |-> spm.uid, finalizer |-> spm.finalizer,
               deleting |-> spm.deleting, attempts |-> spm.attempts,
               card |-> spm.pmID]

Lifecycle ==
  INSTANCE CardLifecycle WITH
    SetupIntents <- SIs, method <- ShownMethod, child <- ShownChild

\* The watcher, the reconciler, the webhooks and their stale copies keep what
\* CardLifecycle promises.
ImplementsLifecycle == Lifecycle!Spec

-----------------------------------------------------------------------------
(* Liveness, under FairSpec                                                 *)

\* However long Stripe is down, and whatever fails or restarts, a child that is
\* being deleted goes away: the attempts are bounded.
DeletionCompletes == spm.deleting ~> ~spm.deleting

\* While the child waits for the consumer and its TTL is not over, the parent
\* stops saying Pending, although its patch can fail and a crash can fall
\* between the two patches.
ParentLearns ==
  spm.phase = "Awaiting"
    ~> \/ pm.phase # "Pending" \/ ~pm.exists
       \/ spm.phase # "Awaiting" \/ spm.deleting \/ Expired(spm)

\* A confirmation reaches the child, when the caches of all replicas have the
\* child before any of them gets the event (one that does not know the child
\* answers 200), nothing fails, and no TTL runs out (the cancelation of a
\* replaced SetupIntent undoes it, see below).
Undelivered(ev) ==
  /\ ev \in pending
  /\ \A r \in Replicas : ev \notin dedup[r] /\ seen[r].spm.uid = spm.uid

ConfirmationArrives ==
  (\E i \in SIs : Undelivered(Event("succeeded", i)))
    ~> \/ spm.phase = "Active" \/ spm.deleting \/ spm.uid = 0
       \/ faults > 0 \/ lapsed > 0

-----------------------------------------------------------------------------
(* What comments and documents of the repository say, and the code does not *)

\* "if the parent already reports Awaiting/Active/Failed it leaves it alone"
ActiveParentLeftAlone == [][pm.phase = "Active" => pm'.phase # "Awaiting"]_vars

\* "the new SetupIntent will be the authoritative one": only it fails the child.
NewIntentIsAuthoritative ==
  [][spm.phase = "Awaiting" /\ spm'.phase = "Failed"
       => intent[spm.si] # "open" \/ spm.si \in declined]_vars

\* "preventing orphaned payment methods on the Stripe side", unless the
\* cleanup was given up and reported.
NoOrphanedCard == spm.uid = 0 /\ created > 0 /\ surrendered = {} => attached = {}

\* "a transient failure. Stripe will retry with backoff": a confirmation is not
\* lost because its handler failed once.
ConfirmationRetried ==
  (\E i \in SIs : Event("succeeded", i) \in pending)
    ~> pm.phase = "Active" \/ ~pm.exists
=============================================================================
