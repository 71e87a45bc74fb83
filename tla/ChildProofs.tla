------------------------------ MODULE ChildProofs ------------------------------
(***************************************************************************)
(* What PaymentMethodSetup guarantees of the first StripePaymentMethod that *)
(* is created under its name: Stripe-side state is recorded only under the  *)
(* finalizer, and Active means a confirmed card.                            *)
(***************************************************************************)
EXTENDS PaymentMethodSetupProofs

-----------------------------------------------------------------------------
(* The inductive invariant                                                  *)

\* The provider created the SetupIntent i.
Minted(i) == intent[i] # "none"

\* Events are about SetupIntents that were created.
EventsAreMinted ==
  /\ \A ev \in pending : Minted(ev.si)
  /\ \A q \in Requests : hook[q].pc # "idle" => Minted(hook[q].ev.si)

\* Before the child is there, nobody has seen one or worked for one.
Untouched ==
  created = 0 => /\ spm = NoSPM /\ recon.pc = "idle"
                 /\ \A r \in Replicas : seen[r].spm = NoSPM
                 /\ \A i \in SIs : ~Minted(i)

OnlyChild == created <= 1 /\ spm.uid # 0

\* Nobody takes the finalizer off the child and leaves it there: who saw it, who
\* works on a SetupIntent after seeing it, and whoever finds a SetupIntent at
\* Stripe, finds the finalizer on the child still.
FinalizerStays ==
  OnlyChild /\ ~spm.finalizer =>
    /\ \A r \in Replicas : ~seen[r].spm.finalizer
    /\ recon.pc \notin {"retire", "mint", "publish"}
    /\ \A i \in SIs : ~Minted(i)

\* A child that shows a card goes on showing one, so that a patch which does not
\* change the card finds it there.
CardStays ==
  OnlyChild /\ spm.pmID = 0 =>
    /\ spm.phase # "Active"
    /\ \A r \in Replicas : seen[r].spm.pmID = 0

\* A child that is gone is not Active.
GoneIsInactive == spm.uid = 0 => spm.phase # "Active"

ChildInv ==
  /\ EventsAreMinted /\ GoneIsInactive /\ Untouched
  /\ FinalizerStays /\ CardStays /\ GuardedByFinalizer

-----------------------------------------------------------------------------
(* What a step does                                                         *)

\* A SetupIntent that was created stays created.
LEMMA MintedStays ==
  ASSUME TypeOK, [Next]_vars, NEW i \in SIs, Minted(i)
  PROVE  Minted(i)'
<1> USE DEF stripeVars, TypeOK, Minted
<1>1. ASSUME NEW j, CancelUpstream(j) PROVE Minted(i)'
  BY <1>1 DEF CancelUpstream
<1>2. CASE RetireIntent \/ CancelIntent
  BY <1>1, <1>2 DEF RetireIntent, CancelIntent
<1>3. CASE MintIntent
  BY <1>3 DEF MintIntent
<1>4. ASSUME NEW j \in SIs, Confirm(j) PROVE Minted(i)'
  BY <1>4 DEF Confirm
<1>5. \/ UNCHANGED intent \/ RetireIntent \/ CancelIntent \/ MintIntent
      \/ \E j \in SIs : Confirm(j)
  BY DEF Next, ReconcilerStep, HookStep, vars, CreateChild, DeleteSPM, DeletePM,
     CollectGarbage, SyncSPM, SyncPM, Crash, TimerFires, Resync, Lapse, Decline,
     StartReconcile, AddFinalizer, PublishIntent, ParentAwaits, DetachCard,
     ReleaseFinalizer, RecordAttempt, NoteIncomplete, Surrender, ReconcilerFault,
     RecordOutcome, ProjectOutcome, HookFault, Receive, DropDuplicate
<1> QED
  BY <1>1, <1>2, <1>3, <1>4, <1>5

\* Only the step "mint" of the reconciler creates SetupIntents: the first that is
\* left, and the next thing it does is to publish it.
LEMMA MintedByMint ==
  ASSUME TypeOK, [Next]_vars, NEW i \in SIs, ~Minted(i), Minted(i)'
  PROVE  /\ At("mint") /\ UNCHANGED published
         /\ recon'.pc = "publish" /\ recon'.si = i
         /\ \A j \in SIs : /\ ~Minted(j) => i <= j
                           /\ j # i => intent'[j] = intent[j]
<1> USE DEF stripeVars, clientVars, TypeOK, Minted
<1>1. ASSUME NEW j, CancelUpstream(j) PROVE FALSE
  BY <1>1 DEF CancelUpstream
<1>2. ~RetireIntent /\ ~CancelIntent
  BY <1>1 DEF RetireIntent, CancelIntent
<1>3. ASSUME NEW j \in SIs, Confirm(j) PROVE FALSE
  BY <1>3 DEF Confirm
<1>4. MintIntent
  BY <1>2, <1>3 DEF Next, ReconcilerStep, HookStep, vars, CreateChild, DeleteSPM,
     DeletePM, CollectGarbage, SyncSPM, SyncPM, Crash, TimerFires, Resync, Lapse, Decline,
     StartReconcile, AddFinalizer, PublishIntent, ParentAwaits, DetachCard,
     ReleaseFinalizer, RecordAttempt, NoteIncomplete, Surrender, ReconcilerFault,
     RecordOutcome, ProjectOutcome, HookFault, Receive, DropDuplicate
<1>5. PICK k \in SIs : /\ intent[k] = "none"
                       /\ \A j \in SIs : intent[j] = "none" => k <= j
                       /\ intent' = [intent EXCEPT ![k] = "open"]
                       /\ recon' = [recon EXCEPT !.pc = "publish", !.si = k]
  BY <1>4 DEF MintIntent
<1>6. k = i
  BY <1>5
<1> QED
  BY <1>4, <1>5, <1>6 DEF MintIntent, ReconcilerStates

\* The writes of a child: the status patches of the reconciler and the webhook,
\* and the rest, which leave its status alone.
Published ==
  /\ At("publish") /\ spm.uid # 0
  /\ published' = published \union {recon.si} /\ recon'.pc = "await"
  /\ spm' = MergeSPM(recon.base, WithSetupIntent(recon.base, recon.si), spm)

Recorded(q) ==
  LET base == seen[hook[q].replica].spm IN
    /\ hook[q].pc = "record" /\ base.uid # 0 /\ spm.uid # 0
    /\ spm' = MergeSPM(base, WithEvent(base, hook[q].ev), spm)

StatusKept ==
  /\ spm' = spm \/ spm.uid # 0 \/ recon.pc # "idle"
  /\ spm'.uid = spm.uid /\ (spm.finalizer => spm'.finalizer)
  /\ spm'.phase = spm.phase /\ spm'.pmID = spm.pmID
  /\ spm'.si = spm.si /\ spm'.secret = spm.secret
  /\ spm'.deadline = spm.deadline /\ (spm.deleting => spm'.deleting)

\* Every step writes the child in one of these ways, creates it or removes it.
LEMMA ChildWrites ==
  ASSUME TypeOK, [Next]_vars
  PROVE  \/ StatusKept /\ UNCHANGED <<created, published>>
         \/ spm' = NoSPM /\ UNCHANGED <<created, published>>
         \/ CreateChild
         \/ Published /\ UNCHANGED <<created, seen, intent>> /\ ~At("mint")
         \/ \E q \in Requests :
              Recorded(q) /\ UNCHANGED <<created, seen, recon, intent, published>>
<1> USE DEF kubeVars, stripeVars, clientVars, hookVars
<1>1. CASE UNCHANGED <<spm, created, published>>
  BY <1>1 DEF StatusKept
<1>2. CASE DeleteSPM \/ CollectGarbage
  BY <1>2 DEF DeleteSPM, CollectGarbage, Deleted, StatusKept, TypeOK, SPMs
<1>3. CASE AddFinalizer
  BY <1>3 DEF AddFinalizer, At, StatusKept, TypeOK, SPMs
<1>4. CASE RecordAttempt
  BY <1>4 DEF RecordAttempt, At, StatusKept, TypeOK, SPMs
<1>5. CASE ReleaseFinalizer \/ Surrender
  BY <1>1, <1>5 DEF ReleaseFinalizer, Surrender
<1>6. CASE PublishIntent
  <2>1. UNCHANGED <<created, seen, intent>> /\ At("publish") /\ ~At("mint")
    BY <1>6 DEF PublishIntent, At
  <2>2. UNCHANGED <<spm, published>> \/ Published
    BY <1>6 DEF PublishIntent, Published, IdleReconciler
  <2> QED
    BY <1>1, <2>1, <2>2
<1>7. ASSUME NEW q \in Requests, RecordOutcome(q)
      PROVE  \/ UNCHANGED <<spm, created, published>>
             \/ Recorded(q) /\ UNCHANGED <<created, seen, recon, intent, published>>
  <2>1. UNCHANGED <<created, seen, recon, intent, published>> /\ hook[q].pc = "record"
    BY <1>7 DEF RecordOutcome
  <2>2. UNCHANGED spm \/ Recorded(q)
    BY <1>7 DEF RecordOutcome, Recorded
  <2> QED
    BY <2>1, <2>2
<1>8. \/ UNCHANGED <<spm, created, published>> \/ CreateChild \/ DeleteSPM
      \/ CollectGarbage \/ AddFinalizer \/ RecordAttempt \/ ReleaseFinalizer
      \/ Surrender \/ PublishIntent \/ \E q \in Requests : RecordOutcome(q)
  BY DEF Next, ReconcilerStep, HookStep, vars, DeletePM, SyncSPM, SyncPM, Crash,
     TimerFires, Resync, Lapse, Confirm, Decline, StartReconcile, RetireIntent,
     MintIntent, ParentAwaits, CancelIntent, DetachCard, NoteIncomplete,
     ReconcilerFault, ProjectOutcome, HookFault, Receive, DropDuplicate
<1> QED
  BY <1>1, <1>2, <1>3, <1>4, <1>5, <1>6, <1>7, <1>8

\* A replica's copy of the child stays or becomes the child of that moment.
LEMMA CopiesAreRead ==
  ASSUME TypeOK, [Next]_vars, NEW r \in Replicas
  PROVE  \/ seen'[r].spm = seen[r].spm
         \/ seen'[r].spm = spm /\ UNCHANGED <<spm, created>>
<1> USE DEF kubeVars, TypeOK
<1>1. CASE UNCHANGED seen
  BY <1>1
<1>2. ASSUME NEW s \in Replicas, SyncSPM(s) \/ SyncPM(s) \/ Crash(s)
      PROVE  \/ seen'[r].spm = seen[r].spm
             \/ seen'[r].spm = spm /\ UNCHANGED <<spm, created>>
  BY <1>2 DEF SyncSPM, SyncPM, Crash
<1>3. \/ UNCHANGED seen
      \/ \E s \in Replicas : SyncSPM(s) \/ SyncPM(s) \/ Crash(s)
  BY DEF Next, ReconcilerStep, HookStep, vars, CreateChild, DeleteSPM, DeletePM,
     CollectGarbage, TimerFires, Resync, Lapse, Confirm, Decline, StartReconcile,
     AddFinalizer, RetireIntent, MintIntent, PublishIntent, ParentAwaits,
     CancelIntent, DetachCard, ReleaseFinalizer, RecordAttempt, NoteIncomplete,
     Surrender, ReconcilerFault, RecordOutcome, ProjectOutcome, HookFault,
     Receive, DropDuplicate
<1> QED
  BY <1>1, <1>2, <1>3

\* The reconciler gets to work on a SetupIntent only through the steps before
\* it, and from the leader's copy of a child with its finalizer.
LEMMA WorkStarts ==
  ASSUME TypeOK, [Next]_vars, recon'.pc # "idle", recon.pc = "idle"
  PROVE  /\ seen[Leader].spm.uid # 0 /\ UNCHANGED <<spm, created>>
         /\ recon'.pc \in {"retire", "mint", "publish"}
              => seen[Leader].spm.finalizer
<1> USE DEF kubeVars, TypeOK
<1>1. CASE StartReconcile
  BY <1>1 DEF StartReconcile, Entry, IdleReconciler
<1>2. CASE UNCHANGED recon
  BY <1>2
<1>3. CASE ReconcilerStep /\ ~StartReconcile
  BY <1>3 DEF ReconcilerStep, AddFinalizer, RetireIntent, MintIntent,
     PublishIntent, ParentAwaits, CancelIntent, DetachCard, ReleaseFinalizer,
     RecordAttempt, NoteIncomplete, Surrender, At
<1>4. CASE ReconcilerFault
  BY <1>4 DEF ReconcilerFault
<1>5. ASSUME NEW r \in Replicas, Crash(r) PROVE FALSE
  BY <1>5 DEF Crash, IdleReconciler
<1>6. \/ UNCHANGED recon \/ ReconcilerStep \/ ReconcilerFault
      \/ \E r \in Replicas : Crash(r)
  BY DEF Next, HookStep, vars, CreateChild, DeleteSPM, DeletePM,
     CollectGarbage, SyncSPM, SyncPM, TimerFires, Resync, Lapse, Confirm, Decline,
     RecordOutcome, ProjectOutcome, HookFault, Receive, DropDuplicate
<1> QED
  BY <1>1, <1>2, <1>3, <1>4, <1>5, <1>6

\* And it goes on to mint and to publish from there only.
LEMMA WorkGoesOn ==
  ASSUME TypeOK, [Next]_vars, recon.pc # "idle",
         recon'.pc \in {"retire", "mint", "publish"}
  PROVE  recon.pc \in {"retire", "mint", "publish"}
<1> DEFINE Goal == recon.pc \in {"retire", "mint", "publish"}
<1>1. ASSUME Done \/ Requeue \/ RequeueAfter PROVE FALSE
  BY <1>1 DEF Done, Requeue, RequeueAfter, IdleReconciler
<1>2. ASSUME NEW pc, GoTo(pc) PROVE pc \in {"retire", "mint", "publish"}
  BY <1>2 DEF GoTo, TypeOK, ReconcilerStates
<1>3. CASE RetireIntent \/ MintIntent \/ PublishIntent
  BY <1>3 DEF RetireIntent, MintIntent, PublishIntent, At
<1>4. CASE StartReconcile
  BY <1>4 DEF StartReconcile, At
<1>5. CASE AddFinalizer \/ ReleaseFinalizer \/ RecordAttempt \/ Surrender
           \/ ParentAwaits
  BY <1>1, <1>5 DEF AddFinalizer, ReleaseFinalizer, RecordAttempt, Surrender,
                    ParentAwaits
<1>6. CASE CancelIntent \/ DetachCard
  BY <1>2, <1>6 DEF CancelIntent, DetachCard
<1>7. CASE NoteIncomplete
  BY <1>7 DEF NoteIncomplete, TypeOK, ReconcilerStates
<1>8. CASE ReconcilerFault
  <2>1. GoTo("letgo") \/ RequeueAfter \/ Requeue
    BY <1>8 DEF ReconcilerFault
  <2>2. ~GoTo("letgo")
    BY <1>2
  <2> QED
    BY <1>1, <2>1, <2>2
<1>9. ASSUME NEW r \in Replicas, Crash(r) PROVE Goal
  BY <1>9 DEF Crash, IdleReconciler
<1>10. CASE UNCHANGED recon
  BY <1>10
<1>11. \/ UNCHANGED recon \/ ReconcilerStep \/ ReconcilerFault
       \/ \E r \in Replicas : Crash(r)
  BY DEF Next, HookStep, vars, CreateChild, DeleteSPM, DeletePM,
     CollectGarbage, SyncSPM, SyncPM, TimerFires, Resync, Lapse, Confirm, Decline,
     RecordOutcome, ProjectOutcome, HookFault, Receive, DropDuplicate
<1> QED
  BY <1>3, <1>4, <1>5, <1>6, <1>7, <1>8, <1>9, <1>10, <1>11 DEF ReconcilerStep

-----------------------------------------------------------------------------
(* The invariant is inductive                                               *)

\* Initially nothing was created.
LEMMA InitChild == Init => ChildInv
<1> SUFFICES ASSUME Init PROVE ChildInv
  OBVIOUS
<1>1. /\ NoSPM.uid = 0 /\ NoSPM.si = 0 /\ NoSPM.secret = 0 /\ NoSPM.pmID = 0
      /\ IdleReconciler.pc = "idle" /\ IdleHook.pc = "idle"
      /\ NoSPM.phase = "Initializing"
  BY DEF NoSPM, NewSPM, IdleReconciler, IdleHook
<1> QED
  BY <1>1 DEF Init, ChildInv, EventsAreMinted, Untouched, GoneIsInactive, Minted,
     FinalizerStays, CardStays, OnlyChild, GuardedByFinalizer

\* An event is sent when something happens to a SetupIntent, and a handler has
\* the event that it got.
LEMMA EventsMintedStep ==
  ASSUME TypeOK, EventsAreMinted, [Next]_vars
  PROVE  EventsAreMinted'
<1> USE DEF kubeVars, stripeVars, clientVars, hookVars
<1>1. TypeOK'
  BY TypeStep
<1>2. ASSUME NEW ev \in Events, Minted(ev.si) PROVE intent'[ev.si] # "none"
  <2>1. ev.si \in SIs
    BY DEF Events
  <2> QED
    BY <1>2, <2>1, MintedStays DEF Minted
<1>3. ASSUME NEW ev \in pending' PROVE intent'[ev.si] # "none"
  <2>1. ev \in Events /\ ev.si \in SIs
    BY <1>1, <1>3 DEF TypeOK, Events
  <2>2. CASE ev \in pending
    BY <1>2, <2>1, <2>2 DEF EventsAreMinted
  <2>3. ASSUME NEW i \in SIs, Confirm(i) \/ Decline(i), ev \notin pending
        PROVE  Minted(ev.si)
    BY <1>3, <2>3 DEF Confirm, Decline, Event, Minted
  <2>4. ASSUME NEW i, CancelUpstream(i), ev \notin pending
        PROVE  Minted(ev.si)
    BY <1>3, <2>4 DEF CancelUpstream, Event, Minted
  <2>5. CASE ev \notin pending
    <3>1. \/ \E i \in SIs : Confirm(i) \/ Decline(i)
          \/ \E i : CancelUpstream(i)
      BY <1>3, <2>5
         DEF Next, ReconcilerStep, HookStep, vars, CreateChild, DeleteSPM,
         DeletePM, CollectGarbage, SyncSPM, SyncPM, Crash, TimerFires, Resync, Lapse,
         StartReconcile, AddFinalizer, RetireIntent, MintIntent, PublishIntent,
         ParentAwaits, CancelIntent, DetachCard, ReleaseFinalizer, RecordAttempt,
         NoteIncomplete, Surrender, ReconcilerFault, RecordOutcome,
         ProjectOutcome, HookFault, Receive, DropDuplicate, Acknowledge, Forget
    <3> QED
      BY <1>2, <2>1, <2>3, <2>4, <2>5, <3>1
  <2> QED
    BY <2>2, <2>5
<1>4. ASSUME NEW q \in Requests, hook'[q].pc # "idle"
      PROVE  intent'[hook'[q].ev.si] # "none"
  <2>1. hook'[q].ev \in Events
    BY <1>1, <1>4 DEF TypeOK, HookStates
  <2>2. \/ hook[q].pc # "idle" /\ hook'[q].ev = hook[q].ev
        \/ hook'[q].ev \in pending
    BY <1>4, HandlersGotTheirEvent
  <2> QED
    BY <1>2, <2>1, <2>2 DEF EventsAreMinted
<1> QED
  BY <1>3, <1>4 DEF EventsAreMinted, Minted

\* The child is created once, before anything else is done.
LEMMA UntouchedStep ==
  ASSUME TypeOK, Untouched, [Next]_vars
  PROVE  Untouched'
<1> SUFFICES ASSUME created' = 0
             PROVE  /\ spm' = NoSPM /\ recon'.pc = "idle"
                    /\ \A r \in Replicas : seen'[r].spm = NoSPM
                    /\ \A i \in SIs : ~Minted(i)'
  BY DEF Untouched, Minted
<1> USE SetupAssumption
<1>1. ~CreateChild
  BY DEF CreateChild, TypeOK
<1>2. created = 0 /\ recon.pc = "idle" /\ spm = NoSPM /\ NoSPM.uid = 0
  BY <1>1, ChildWrites DEF Untouched, Recorded, NoSPM, NewSPM
<1>3. spm' = NoSPM
  BY <1>1, <1>2, ChildWrites DEF StatusKept, Published, Recorded
<1>4. recon'.pc = "idle"
  BY <1>2, WorkStarts DEF Untouched
<1>5. \A i \in SIs : ~Minted(i)'
  BY <1>2, MintedByMint DEF Untouched, At
<1>6. ASSUME NEW r \in Replicas PROVE seen'[r].spm = NoSPM
  BY <1>2, <1>6, CopiesAreRead DEF Untouched
<1> QED
  BY <1>3, <1>4, <1>5, <1>6

\* The finalizer of the child stays from its first Update to its removal, and no
\* SetupIntent is created before that Update.
LEMMA FinalizerStep ==
  ASSUME TypeOK, Untouched, FinalizerStays, [Next]_vars
  PROVE  FinalizerStays'
<1> USE SetupAssumption
<1> SUFFICES ASSUME created' <= 1, spm'.uid # 0, ~spm'.finalizer
             PROVE  /\ \A r \in Replicas : ~seen'[r].spm.finalizer
                    /\ recon'.pc \notin {"retire", "mint", "publish"}
                    /\ \A i \in SIs : intent'[i] = "none"
  BY DEF FinalizerStays, OnlyChild, Minted
<1>1. NoSPM.uid = 0 /\ ~NoSPM.finalizer
  BY DEF NoSPM, NewSPM
<1>2. CASE CreateChild
  <2>1. created = 0 /\ UNCHANGED <<seen, recon, intent>>
    BY <1>2 DEF CreateChild, TypeOK, stripeVars
  <2> QED
    BY <1>1, <2>1 DEF Untouched, Minted
<1>3. CASE ~CreateChild
  <2>1. spm.uid # 0 /\ ~spm.finalizer
    <3>1. \A base, new \in SPMs :
            MergeSPM(base, new, spm).finalizer = spm.finalizer
      BY DEF MergeSPM, TypeOK, SPMs
    <3>2. CASE Published
      <4>1. recon.base \in SPMs /\ recon.si \in SIs
        BY <3>2 DEF Published, At, TypeOK, ReconcilerStates, SIs, SIRefs
      <4>2. spm'.finalizer = spm.finalizer
        BY <3>1, <3>2, <4>1, AwaitingType DEF Published
      <4> QED
        BY <3>2, <4>2 DEF Published
    <3>3. ASSUME NEW q \in Requests, Recorded(q)
          PROVE  spm.uid # 0 /\ ~spm.finalizer
      <4>1. /\ hook[q].ev \in Events
            /\ seen[hook[q].replica].spm \in SPMs
        BY DEF TypeOK, HookStates
      <4> QED
        BY <3>1, <3>3, <4>1, OutcomeType DEF Recorded
    <3>4. CASE StatusKept
      BY <3>4 DEF StatusKept
    <3> QED
      BY <1>1, <1>3, <3>2, <3>3, <3>4, ChildWrites
  <2>0. created <= 1
    BY <1>3, ChildWrites
  <2>2. ASSUME NEW r \in Replicas PROVE ~seen'[r].spm.finalizer
    BY <2>0, <2>1, <2>2, CopiesAreRead DEF FinalizerStays, OnlyChild
  <2>3. recon.pc \notin {"retire", "mint", "publish"}
    BY <2>0, <2>1 DEF FinalizerStays, OnlyChild
  <2>4. recon'.pc \notin {"retire", "mint", "publish"}
    <3>1. CASE recon.pc = "idle" /\ recon'.pc # "idle"
      BY <2>0, <2>1, <3>1, WorkStarts DEF FinalizerStays, OnlyChild
    <3>2. CASE recon.pc # "idle"
      BY <2>3, <3>2, WorkGoesOn
    <3> QED
      BY <3>1, <3>2
  <2>5. ASSUME NEW i \in SIs PROVE intent'[i] = "none"
    BY <2>0, <2>1, <2>3, <2>5, MintedByMint
       DEF FinalizerStays, OnlyChild, Minted, At
  <2> QED
    BY <2>2, <2>4, <2>5
<1> QED
  BY <1>2, <1>3

\* A patch shows a card, or leaves the one that is there; and it says Active only
\* together with a card.
LEMMA CardStep ==
  ASSUME TypeOK, Untouched, CardStays, [Next]_vars
  PROVE  CardStays'
<1> USE SetupAssumption
<1> SUFFICES ASSUME created' <= 1, spm'.uid # 0, spm'.pmID = 0
             PROVE  /\ spm'.phase # "Active"
                    /\ \A r \in Replicas : seen'[r].spm.pmID = 0
  BY DEF CardStays, OnlyChild
<1> DEFINE Kept == /\ OnlyChild /\ spm.pmID = 0 /\ spm'.phase # "Active"
<1>1. NoSPM.uid = 0 /\ NoSPM.pmID = 0
  BY DEF NoSPM, NewSPM
<1>2. CASE CreateChild
  <2>1. created = 0 /\ UNCHANGED seen /\ spm' = NewSPM(created + 1)
    BY <1>2 DEF CreateChild, TypeOK
  <2> QED
    BY <1>1, <2>1 DEF Untouched, NewSPM
<1>3. Kept => \A r \in Replicas : seen'[r].spm.pmID = 0
  BY CopiesAreRead DEF CardStays
<1>4. CASE StatusKept /\ UNCHANGED created
  <2>1. Kept
    BY <1>4 DEF StatusKept, CardStays, OnlyChild
  <2> QED
    BY <1>3, <2>1
<1>5. CASE Published /\ UNCHANGED created
  <2>1. recon.base \in SPMs /\ recon.si \in SIs /\ spm \in SPMs
    BY <1>5 DEF Published, At, TypeOK, ReconcilerStates, SIs, SIRefs
  <2>2. /\ spm'.uid = spm.uid /\ spm'.pmID = spm.pmID
        /\ spm'.phase \in {"Awaiting", spm.phase}
    BY <1>5, <2>1 DEF Published, WithSetupIntent, MergeSPM, Merge, SPMs
  <2>3. Kept
    BY <1>5, <2>2 DEF CardStays, OnlyChild
  <2> QED
    BY <1>3, <2>3
<1>6. ASSUME NEW q \in Requests, Recorded(q), UNCHANGED <<created, seen>>
      PROVE  Kept
  <2> DEFINE base == seen[hook[q].replica].spm
             ev == hook[q].ev
  <2>1. /\ ev \in Events /\ ev.si # 0 /\ base \in SPMs /\ spm \in SPMs
        /\ hook[q].replica \in Replicas
    BY DEF TypeOK, HookStates, Events, SIs
  <2>2. OnlyChild
    BY <1>6 DEF Recorded, OnlyChild
  <2>3. CASE ev.type = "succeeded"
    <3>1. spm'.pmID = IF ev.si # base.pmID THEN ev.si ELSE spm.pmID
      BY <1>6, <2>1, <2>3 DEF Recorded, WithEvent, WithSuccess, MergeSPM, Merge, SPMs
    <3>2. spm.pmID = 0 => base.pmID = 0
      BY <2>1, <2>2 DEF CardStays
    <3> QED
      BY <2>1, <3>1, <3>2
  <2>4. CASE ev.type # "succeeded"
    <3>1. /\ spm'.pmID = spm.pmID
          /\ spm'.phase \in {"Failed", spm.phase}
      BY <1>6, <2>1, <2>4 DEF Recorded, WithEvent, WithFailure, MergeSPM, Merge, SPMs
    <3> QED
      BY <2>2, <3>1 DEF CardStays
  <2> QED
    BY <2>3, <2>4
<1> QED
  BY <1>1, <1>2, <1>3, <1>4, <1>5, <1>6, ChildWrites

\* No patch reaches a child that is gone.
LEMMA GoneStep ==
  ASSUME TypeOK, GoneIsInactive, [Next]_vars
  PROVE  GoneIsInactive'
<1>1. CASE StatusKept
  BY <1>1 DEF StatusKept, GoneIsInactive
<1>2. CASE spm' = NoSPM \/ CreateChild
  BY <1>2 DEF NoSPM, NewSPM, CreateChild, GoneIsInactive
<1>3. ASSUME Published \/ \E q \in Requests : Recorded(q) PROVE spm'.uid # 0
  BY <1>3 DEF Published, Recorded, MergeSPM, TypeOK, SPMs
<1> QED
  BY <1>1, <1>2, <1>3, ChildWrites DEF GoneIsInactive

\* What is recorded comes from a SetupIntent, which was created with the
\* finalizer seen, and then the finalizer is there still.
LEMMA GuardedStep ==
  ASSUME TypeOK, EventsAreMinted, FinalizerStays, GuardedByFinalizer, [Next]_vars
  PROVE  GuardedByFinalizer'
<1> USE SetupAssumption
<1>1. CASE spm' = NoSPM \/ CreateChild
  BY <1>1 DEF NoSPM, NewSPM, CreateChild, GuardedByFinalizer
<1>2. CASE StatusKept /\ UNCHANGED created
  BY <1>2 DEF StatusKept, GuardedByFinalizer
<1>3. CASE Published /\ UNCHANGED created
  <2>1. recon.base \in SPMs /\ recon.si \in SIs
    BY <1>3 DEF Published, At, TypeOK, ReconcilerStates, SIs, SIRefs
  <2>2. spm'.finalizer = spm.finalizer
    BY <1>3, <2>1, AwaitingType DEF Published, MergeSPM, TypeOK, SPMs
  <2> QED
    BY <1>3, <2>2 DEF Published, At, FinalizerStays, OnlyChild, GuardedByFinalizer
<1>4. ASSUME NEW q \in Requests, Recorded(q), UNCHANGED created
      PROVE  GuardedByFinalizer'
  <2>1. /\ hook[q].ev \in Events /\ hook[q].ev.si \in SIs
        /\ seen[hook[q].replica].spm \in SPMs
    BY DEF TypeOK, HookStates, Events
  <2>2. spm'.finalizer = spm.finalizer
    BY <1>4, <2>1, OutcomeType DEF Recorded, MergeSPM, TypeOK, SPMs
  <2>3. spm.uid # 0 /\ Minted(hook[q].ev.si)
    BY <1>4 DEF Recorded, EventsAreMinted
  <2> QED
    BY <1>4, <2>1, <2>2, <2>3 DEF FinalizerStays, OnlyChild, GuardedByFinalizer
<1> QED
  BY <1>1, <1>2, <1>3, <1>4, ChildWrites

\* The inductive invariant: events are of SetupIntents that were created, those
\* are created for a child with its finalizer, and the finalizer stays.
THEOREM ChildInvariant == Spec => []ChildInv
<1>1. TypeOK /\ ChildInv /\ [Next]_vars => ChildInv'
  BY EventsMintedStep, UntouchedStep, FinalizerStep, CardStep, GoneStep,
     GuardedStep
     DEF ChildInv
<1> QED
  BY <1>1, InitChild, TypeCorrect, PTL DEF Spec

-----------------------------------------------------------------------------
(* What follows                                                             *)

\* Stripe-side state is recorded only on an object whose finalizer makes its
\* deletion wait for the cleanup, whichever stale copy the reconciler or the
\* webhook worked from.
THEOREM RecordedUnderFinalizer == Spec => []GuardedByFinalizer
<1>1. ChildInv => GuardedByFinalizer
  BY DEF ChildInv
<1> QED
  BY <1>1, ChildInvariant, PTL

\* A child, not created again under its name, is Active only with the card of a
\* SetupIntent that Stripe confirmed.
THEOREM OnlyConfirmedChildrenAreActive == Spec => []ChildActiveIsConfirmed
<1>1. TypeOK /\ ConfirmationInv /\ ChildInv => ChildActiveIsConfirmed
  <2> SUFFICES ASSUME ConfirmationInv, ChildInv, created <= 1, spm.phase = "Active"
               PROVE  spm.pmID # 0 /\ intent[spm.pmID] = "succeeded"
    BY DEF ChildActiveIsConfirmed
  <2>1. spm.uid # 0
    BY DEF ChildInv, GoneIsInactive
  <2> QED
    BY <2>1 DEF ChildInv, CardStays, OnlyChild, ConfirmationInv,
                CopiesAreConfirmed, Confirmed
<1> QED
  BY <1>1, ChildInvariant, ConfirmationInvariant, TypeCorrect, PTL
=============================================================================
