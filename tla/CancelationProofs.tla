--------------------------- MODULE CancelationProofs ---------------------------
(***************************************************************************)
(* PaymentMethodSetup cancels no SetupIntent that its consumer still uses,  *)
(* whichever stale copy of the child the reconciler works from.             *)
(***************************************************************************)
EXTENDS ChildProofs

-----------------------------------------------------------------------------
(* The inductive invariant                                                  *)

\* SetupIntents are created in order, and published once created.
MintedInOrder ==
  /\ \A i, j \in SIs : Minted(j) /\ i < j => Minted(i)
  /\ \A i \in published : Minted(i)

\* A SetupIntent that is to be published is newer than all that were.
PublishIsNext ==
  At("publish") => Minted(recon.si) /\ \A i \in published : i < recon.si

\* Events are about SetupIntents whose secret was published.
EventsArePublished ==
  /\ \A ev \in pending : ev.si \in published
  /\ \A q \in Requests : hook[q].pc # "idle" => hook[q].ev.si \in published

\* A copy names a published SetupIntent that is no newer than its deadline: a
\* late event can bring back an older one, under the deadline of the last.
Sound(o) ==
  /\ o.si # 0 => o.si \in published
  /\ o.deadline # 0 => o.deadline \in published /\ o.si <= o.deadline

CopiesAreSound ==
  /\ Sound(spm) /\ Sound(recon.base)
  /\ \A r \in Replicas : Sound(seen[r].spm)

\* The deadline of the child is the one of the last SetupIntent.
DeadlineIsLast == spm.deadline # 0 => \A i \in published : i <= spm.deadline

\* A uid is never used again, and a deletion is not taken back.
DeletionStays ==
  /\ spm.uid <= created
  /\ \A r \in Replicas :
       /\ seen[r].spm.uid <= created
       /\ seen[r].spm.uid = spm.uid /\ spm.uid # 0 /\ seen[r].spm.deleting
            => spm.deleting

\* The reconciler is about to cancel what has expired, or what a deleted object
\* records.
RetiresExpired == At("retire") => Expired(recon.base)

CancelsDeleted ==
  At("cancel") => /\ recon.base.uid \in 1 .. created
                  /\ recon.base.uid = spm.uid => spm.deleting

CancelationInv ==
  /\ MintedInOrder /\ PublishIsNext /\ EventsArePublished
  /\ CopiesAreSound /\ DeadlineIsLast
  /\ DeletionStays /\ RetiresExpired /\ CancelsDeleted

\* Initially nothing was created.
LEMMA InitCancelation == Init => CancelationInv
<1> SUFFICES ASSUME Init PROVE CancelationInv
  OBVIOUS
<1>1. /\ NoSPM.uid = 0 /\ NoSPM.si = 0 /\ NoSPM.deadline = 0 /\ ~NoSPM.deleting
      /\ IdleReconciler.pc = "idle" /\ IdleReconciler.base = NoSPM
      /\ IdleHook.pc = "idle"
  BY DEF NoSPM, NewSPM, IdleReconciler, IdleHook
<1>2. MintedInOrder /\ PublishIsNext /\ RetiresExpired /\ CancelsDeleted
  BY <1>1 DEF Init, MintedInOrder, PublishIsNext, RetiresExpired, CancelsDeleted,
              Minted, At
<1>3. EventsArePublished /\ CopiesAreSound
  BY <1>1 DEF Init, EventsArePublished, CopiesAreSound, Sound
<1>4. DeadlineIsLast /\ DeletionStays
  BY <1>1 DEF Init, DeadlineIsLast, DeletionStays
<1> QED
  BY <1>2, <1>3, <1>4 DEF CancelationInv

-----------------------------------------------------------------------------
(* What a step does                                                         *)

\* What the reconciler has in hand stays, is read from the leader's cache when
\* it starts, or ends up at a step that cancels nothing.
LEMMA ReconcilerMoves ==
  ASSUME TypeOK, [Next]_vars
  PROVE  \/ UNCHANGED recon
         \/ StartReconcile
         \/ /\ recon'.pc \notin {"retire", "cancel"}
            /\ recon'.base \in {NoSPM, recon.base, spm}
<1> DEFINE Moved == /\ recon'.pc \notin {"retire", "cancel"}
                    /\ recon'.base \in {NoSPM, recon.base, spm}
<1>1. ASSUME Done \/ Requeue \/ RequeueAfter PROVE Moved
  BY <1>1 DEF Done, Requeue, RequeueAfter, IdleReconciler
<1>2. ASSUME NEW pc \in {"mint", "detach", "failed", "release", "letgo"}, GoTo(pc)
      PROVE  Moved
  BY <1>2 DEF GoTo, TypeOK, ReconcilerStates
<1>3. CASE RetireIntent \/ CancelIntent \/ DetachCard
  BY <1>2, <1>3 DEF RetireIntent, CancelIntent, DetachCard
<1>4. CASE MintIntent
  <2>1. ASSUME NEW i, recon' = [recon EXCEPT !.pc = "publish", !.si = i]
        PROVE  Moved
    BY <2>1 DEF TypeOK, ReconcilerStates
  <2> QED
    BY <1>1, <1>4, <2>1 DEF MintIntent
<1>5. CASE PublishIntent
  BY <1>1, <1>5 DEF PublishIntent, IdleReconciler
<1>6. CASE AddFinalizer \/ ReleaseFinalizer \/ RecordAttempt \/ Surrender
           \/ ParentAwaits
  <2>1. Done \/ Requeue \/ RequeueAfter
    BY <1>6 DEF AddFinalizer, ReleaseFinalizer, RecordAttempt, Surrender,
                ParentAwaits
  <2> QED
    BY <1>1, <2>1
<1>7. CASE NoteIncomplete
  BY <1>7 DEF NoteIncomplete, TypeOK, ReconcilerStates
<1>8. CASE ReconcilerFault
  <2>1. GoTo("letgo") \/ RequeueAfter \/ Requeue
    BY <1>8 DEF ReconcilerFault
  <2> QED
    BY <1>1, <1>2, <2>1
<1>9. ASSUME NEW r \in Replicas, Crash(r) PROVE UNCHANGED recon \/ Moved
  BY <1>9 DEF Crash, IdleReconciler
<1>10. \/ UNCHANGED recon \/ ReconcilerStep \/ ReconcilerFault
       \/ \E r \in Replicas : Crash(r)
  BY DEF Next, HookStep, vars, CreateChild, DeleteSPM, DeletePM,
     CollectGarbage, SyncSPM, SyncPM, TimerFires, Resync, Lapse, Confirm, Decline,
     RecordOutcome, ProjectOutcome, HookFault, Receive, DropDuplicate
<1> QED
  BY <1>3, <1>4, <1>5, <1>6, <1>7, <1>8, <1>9, <1>10 DEF ReconcilerStep

\* The reconciler gets to "publish" only by creating a SetupIntent.
LEMMA PublishFollowsMint ==
  ASSUME TypeOK, [Next]_vars, recon'.pc = "publish", recon' # recon
  PROVE  recon'.si \in SIs /\ ~Minted(recon'.si) /\ intent'[recon'.si] # "none"
<1>1. ASSUME Done \/ Requeue \/ RequeueAfter PROVE FALSE
  BY <1>1 DEF Done, Requeue, RequeueAfter, IdleReconciler
<1>2. ASSUME NEW pc, pc # "publish", GoTo(pc) PROVE FALSE
  BY <1>2 DEF GoTo, TypeOK, ReconcilerStates
<1>3. ~RetireIntent /\ ~CancelIntent /\ ~DetachCard
  BY <1>2 DEF RetireIntent, CancelIntent, DetachCard
<1>4. ~StartReconcile
  BY DEF StartReconcile, Entry, IdleReconciler
<1>5. ~PublishIntent
  BY <1>1 DEF PublishIntent, IdleReconciler
<1>6. ~AddFinalizer /\ ~ReleaseFinalizer /\ ~RecordAttempt /\ ~Surrender
      /\ ~ParentAwaits
  BY <1>1 DEF AddFinalizer, ReleaseFinalizer, RecordAttempt, Surrender,
              ParentAwaits
<1>7. ~NoteIncomplete
  BY DEF NoteIncomplete, TypeOK, ReconcilerStates
<1>8. ~ReconcilerFault
  <2>1. ~GoTo("letgo")
    BY <1>2
  <2> QED
    BY <1>1, <2>1 DEF ReconcilerFault
<1>9. ASSUME NEW r \in Replicas PROVE ~Crash(r)
  BY DEF Crash, IdleReconciler
<1>10. MintIntent
  BY <1>3, <1>4, <1>5, <1>6, <1>7, <1>8, <1>9
     DEF Next, ReconcilerStep, HookStep, vars, CreateChild, DeleteSPM, DeletePM,
     CollectGarbage, SyncSPM, SyncPM, TimerFires, Resync, Lapse, Confirm, Decline,
     RecordOutcome, ProjectOutcome, HookFault, Receive, DropDuplicate
<1> QED
  BY <1>1, <1>10 DEF MintIntent, TypeOK, ReconcilerStates, Minted

\* Deadlines that have passed have passed.
LEMMA LapsedGrows ==
  ASSUME TypeOK, [Next]_vars
  PROVE  lapsed <= lapsed'
<1>1. UNCHANGED lapsed \/ Lapse
  BY DEF Next, ReconcilerStep, HookStep, vars, CreateChild, DeleteSPM, DeletePM,
     CollectGarbage, SyncSPM, SyncPM, Crash, TimerFires, Resync, Confirm, Decline,
     StartReconcile, AddFinalizer, RetireIntent, MintIntent, PublishIntent,
     ParentAwaits, CancelIntent, DetachCard, ReleaseFinalizer, RecordAttempt,
     NoteIncomplete, Surrender, ReconcilerFault, RecordOutcome, ProjectOutcome,
     HookFault, Receive, DropDuplicate, clientVars
<1> QED
  BY <1>1 DEF Lapse, TypeOK

\* Secrets are not taken back, and only those of created SetupIntents are given.
LEMMA PublishedGrows ==
  ASSUME TypeOK, PublishIsNext, [Next]_vars
  PROVE  /\ published \subseteq published'
         /\ published' # published => /\ published' = published \union {recon.si}
                                      /\ Minted(recon.si) /\ recon.si \in SIs
<1>1. UNCHANGED published \/ Published
  BY ChildWrites DEF CreateChild, clientVars
<1>2. ASSUME Published PROVE recon.si \in SIs
  BY <1>2 DEF Published, At, TypeOK, ReconcilerStates, SIs, SIRefs
<1> QED
  BY <1>1, <1>2 DEF Published, PublishIsNext

\* The child stays the same object, goes away, or is created with a new uid.
LEMMA UidsAreFresh ==
  ASSUME TypeOK, [Next]_vars
  PROVE  \/ UNCHANGED created /\ spm'.uid = spm.uid
                              /\ (spm.deleting => spm'.deleting)
         \/ UNCHANGED created /\ spm'.uid = 0
         \/ created' = created + 1 /\ spm'.uid = created + 1
<1>1. \A base, new \in SPMs :
        /\ MergeSPM(base, new, spm).uid = spm.uid
        /\ MergeSPM(base, new, spm).deleting = spm.deleting
  BY DEF MergeSPM, TypeOK, SPMs
<1>2. ASSUME Published
      PROVE  spm'.uid = spm.uid /\ spm'.deleting = spm.deleting
  <2>1. recon.base \in SPMs /\ recon.si \in SIs
    BY <1>2 DEF Published, At, TypeOK, ReconcilerStates, SIs, SIRefs
  <2> QED
    BY <1>1, <1>2, <2>1, AwaitingType DEF Published
<1>3. ASSUME NEW q \in Requests, Recorded(q)
      PROVE  spm'.uid = spm.uid /\ spm'.deleting = spm.deleting
  <2>1. hook[q].ev \in Events /\ seen[hook[q].replica].spm \in SPMs
    BY DEF TypeOK, HookStates
  <2> QED
    BY <1>1, <1>3, <2>1, OutcomeType DEF Recorded
<1>4. CASE CreateChild
  BY <1>4 DEF CreateChild, NewSPM
<1> QED
  BY <1>2, <1>3, <1>4, ChildWrites DEF StatusKept, NoSPM, NewSPM

-----------------------------------------------------------------------------
(* The invariant is inductive                                               *)

\* The reconciler takes the first SetupIntent that is left.
LEMMA OrderStep ==
  ASSUME TypeOK, MintedInOrder, PublishIsNext, [Next]_vars
  PROVE  MintedInOrder' /\ PublishIsNext'
<1>1. ASSUME NEW i \in SIs, NEW j \in SIs, intent'[j] # "none", i < j
      PROVE  intent'[i] # "none"
  <2>1. CASE Minted(j)
    BY <1>1, <2>1, MintedStays DEF MintedInOrder, Minted
  <2>2. CASE ~Minted(j)
    <3>1. Minted(i)
      BY <1>1, <2>2, MintedByMint DEF Minted, SIs
    <3> QED
      BY <3>1, MintedStays DEF Minted
  <2> QED
    BY <2>1, <2>2
<1>2. ASSUME NEW i \in published' PROVE intent'[i] # "none"
  <2>1. Minted(i) /\ i \in SIs
    BY <1>2, PublishedGrows DEF MintedInOrder, TypeOK
  <2> QED
    BY <2>1, MintedStays DEF Minted
<1>3. ASSUME recon'.pc = "publish"
      PROVE  /\ intent'[recon'.si] # "none"
             /\ \A i \in published' : i < recon'.si
  <2>1. CASE recon' = recon
    <3>1. ~Published
      BY <1>3 DEF Published
    <3>2. UNCHANGED published
      BY <3>1, ChildWrites DEF CreateChild, clientVars
    <3>3. recon.si \in SIs
      BY <1>3, <2>1 DEF TypeOK, ReconcilerStates, SIs, SIRefs
    <3> QED
      BY <1>3, <2>1, <3>2, <3>3, MintedStays DEF PublishIsNext, At, Minted
  <2>2. CASE recon' # recon
    <3>1. recon'.si \in SIs /\ ~Minted(recon'.si) /\ intent'[recon'.si] # "none"
      BY <1>3, <2>2, PublishFollowsMint
    <3>2. UNCHANGED published
      BY <3>1, MintedByMint DEF Minted
    <3>3. ASSUME NEW i \in published PROVE i < recon'.si
      <4>1. i \in SIs /\ Minted(i)
        BY DEF TypeOK, MintedInOrder
      <4>2. ~(recon'.si < i) /\ i # recon'.si
        BY <3>1, <4>1 DEF MintedInOrder
      <4> QED
        BY <3>1, <4>1, <4>2 DEF SIs
    <3> QED
      BY <3>1, <3>2, <3>3
  <2> QED
    BY <2>1, <2>2
<1> QED
  BY <1>1, <1>2, <1>3 DEF MintedInOrder, PublishIsNext, Minted, At

\* An event is sent when something happens to a published SetupIntent.
LEMMA EventsPublishedStep ==
  ASSUME TypeOK, EventsArePublished, CopiesAreSound, PublishIsNext, [Next]_vars
  PROVE  EventsArePublished'
<1> USE DEF kubeVars, stripeVars, clientVars, hookVars
<1>1. published \subseteq published'
  BY PublishedGrows
<1>2. ASSUME NEW ev \in pending' PROVE ev.si \in published
  <2>1. ASSUME NEW i \in SIs, Confirm(i) \/ Decline(i), ev \notin pending
        PROVE  ev.si \in published
    BY <1>2, <2>1 DEF Confirm, Decline, Event
  <2>2. ASSUME CancelUpstream(recon.base.si), ev \notin pending
        PROVE  ev.si \in published
    BY <1>2, <2>2 DEF CancelUpstream, Event, CopiesAreSound, Sound
  <2>3. CASE ev \notin pending
    <3>1. \/ \E i \in SIs : Confirm(i) \/ Decline(i)
          \/ CancelUpstream(recon.base.si)
      BY <1>2, <2>3
         DEF Next, ReconcilerStep, HookStep, vars, CreateChild, DeleteSPM,
         DeletePM, CollectGarbage, SyncSPM, SyncPM, Crash, TimerFires, Resync, Lapse,
         StartReconcile, AddFinalizer, RetireIntent, MintIntent, PublishIntent,
         ParentAwaits, CancelIntent, DetachCard, ReleaseFinalizer, RecordAttempt,
         NoteIncomplete, Surrender, ReconcilerFault, RecordOutcome,
         ProjectOutcome, HookFault, Receive, DropDuplicate, Acknowledge, Forget
    <3> QED
      BY <2>1, <2>2, <2>3, <3>1
  <2> QED
    BY <2>3 DEF EventsArePublished
<1>3. ASSUME NEW q \in Requests, hook'[q].pc # "idle"
      PROVE  hook'[q].ev.si \in published
  BY <1>2, <1>3, HandlersGotTheirEvent DEF EventsArePublished
<1> QED
  BY <1>1, <1>2, <1>3 DEF EventsArePublished

\* A status patch brings in a SetupIntent that is no newer than the deadline.
LEMMA SoundStep ==
  ASSUME TypeOK, PublishIsNext, EventsArePublished, CopiesAreSound,
         DeadlineIsLast, [Next]_vars
  PROVE  CopiesAreSound' /\ DeadlineIsLast'
<1> USE SetupAssumption
<1> DEFINE SoundNow(o) ==
      /\ o.si # 0 => o.si \in published'
      /\ o.deadline # 0 => o.deadline \in published' /\ o.si <= o.deadline
<1>1. ASSUME NEW o, Sound(o) PROVE SoundNow(o)
  BY <1>1, PublishedGrows DEF Sound
<1>2. Sound(NoSPM) /\ NoSPM.deadline = 0
  BY DEF NoSPM, NewSPM, Sound
<1>3. ASSUME NEW r \in Replicas PROVE SoundNow(seen'[r].spm)
  BY <1>1, <1>3, CopiesAreRead DEF CopiesAreSound
<1>4. SoundNow(recon'.base)
  <2>1. CASE StartReconcile
    BY <1>1, <1>2, <2>1 DEF StartReconcile, IdleReconciler, CopiesAreSound
  <2> QED
    BY <1>1, <1>2, <2>1, ReconcilerMoves DEF CopiesAreSound
<1>5. /\ SoundNow(spm')
      /\ spm'.deadline # 0 => \A i \in published' : i <= spm'.deadline
  <2>1. CASE StatusKept /\ UNCHANGED published
    BY <2>1 DEF StatusKept, CopiesAreSound, Sound, DeadlineIsLast
  <2>2. CASE spm' = NoSPM
    BY <1>1, <1>2, <2>2
  <2>3. CASE CreateChild
    BY <2>3 DEF CreateChild, NewSPM
  <2>4. CASE Published
    <3>1. /\ recon.base \in SPMs /\ recon.si \in SIs /\ spm \in SPMs
          /\ \A i \in published : i < recon.si
      BY <2>4 DEF Published, At, TypeOK, ReconcilerStates, SIs, SIRefs,
                  PublishIsNext
    <3>2. recon.base.si # recon.si /\ recon.base.deadline # recon.si
      BY <3>1 DEF CopiesAreSound, Sound, SIs
    <3>3. spm'.si = recon.si /\ spm'.deadline = recon.si
      BY <2>4, <3>1, <3>2
         DEF Published, WithSetupIntent, MergeSPM, Merge, SPMs
    <3>4. published' = published \union {recon.si}
      BY <2>4 DEF Published
    <3> QED
      BY <3>1, <3>3, <3>4 DEF SIs, TypeOK
  <2>5. ASSUME NEW q \in Requests, Recorded(q), UNCHANGED published
        PROVE  /\ SoundNow(spm')
               /\ spm'.deadline # 0 => \A i \in published' : i <= spm'.deadline
    <3> DEFINE base == seen[hook[q].replica].spm
               ev == hook[q].ev
    <3>1. ev \in Events /\ base \in SPMs /\ spm \in SPMs
      BY DEF TypeOK, HookStates
    <3>2. spm'.deadline = spm.deadline /\ spm'.si \in {ev.si, spm.si}
      BY <2>5, <3>1
         DEF Recorded, WithEvent, WithSuccess, WithFailure, MergeSPM, Merge, SPMs
    <3>3. ev.si \in published
      BY <2>5 DEF Recorded, EventsArePublished
    <3> QED
      BY <2>5, <3>2, <3>3 DEF CopiesAreSound, Sound, DeadlineIsLast
  <2> QED
    BY <2>1, <2>2, <2>3, <2>4, <2>5, ChildWrites
<1> QED
  BY <1>3, <1>4, <1>5 DEF CopiesAreSound, Sound, DeadlineIsLast

\* A deleted child stays deleted, and the next one has a uid of its own.
LEMMA DeletionStep ==
  ASSUME TypeOK, DeletionStays, [Next]_vars
  PROVE  DeletionStays'
<1> USE SetupAssumption
<1>1. created \in Nat /\ spm.uid \in Nat /\ spm'.uid <= created'
  BY UidsAreFresh DEF TypeOK, SPMs, DeletionStays
<1>2. ASSUME NEW r \in Replicas
      PROVE  /\ seen'[r].spm.uid <= created'
             /\ seen'[r].spm.uid = spm'.uid /\ spm'.uid # 0
                  /\ seen'[r].spm.deleting => spm'.deleting
  <2>1. seen[r].spm.uid \in Nat
    BY DEF TypeOK, SPMs
  <2>2. CASE seen'[r].spm = seen[r].spm
    BY <1>1, <2>1, <2>2, UidsAreFresh DEF DeletionStays
  <2>3. CASE seen'[r].spm = spm /\ UNCHANGED <<spm, created>>
    BY <1>1, <2>3
  <2> QED
    BY <2>2, <2>3, CopiesAreRead
<1> QED
  BY <1>1, <1>2, UidsAreFresh DEF DeletionStays

\* The reconciler cancels what it found expired or deleted when it started, and
\* neither is undone meanwhile.
LEMMA CancelStep ==
  ASSUME TypeOK, DeletionStays, RetiresExpired, CancelsDeleted, [Next]_vars
  PROVE  RetiresExpired' /\ CancelsDeleted'
<1> USE SetupAssumption
<1>1. created \in Nat /\ lapsed \in Nat /\ recon.base \in SPMs
      /\ seen[Leader].spm \in SPMs /\ lapsed' \in Nat /\ created' \in Nat
  BY TypeStep DEF TypeOK, ReconcilerStates
<1>2. CASE StartReconcile
  <2> DEFINE o == seen[Leader].spm
  <2>1. UNCHANGED <<spm, created, lapsed>>
    BY <1>2 DEF StartReconcile, kubeVars, clientVars
  <2>2. recon'.pc \in {"retire", "cancel"} => recon'.base = o /\ recon'.pc = Entry(o)
    BY <1>2 DEF StartReconcile, IdleReconciler
  <2>3. Entry(o) = "retire" => Expired(o)
    BY DEF Entry
  <2>4. Entry(o) = "cancel" => o.uid # 0 /\ o.deleting
    BY DEF Entry
  <2>5. o.uid \in Nat /\ o.uid <= created
        /\ (o.uid = spm.uid /\ spm.uid # 0 /\ o.deleting => spm.deleting)
    BY <1>1 DEF DeletionStays, SPMs
  <2> QED
    BY <1>1, <2>1, <2>2, <2>3, <2>4, <2>5
       DEF RetiresExpired, CancelsDeleted, At, Expired
<1>3. CASE UNCHANGED recon
  <2>1. RetiresExpired'
    BY <1>1, <1>3, LapsedGrows DEF RetiresExpired, At, Expired, SPMs, SIRefs
  <2>2. CancelsDeleted'
    BY <1>1, <1>3, UidsAreFresh DEF CancelsDeleted, At, SPMs
  <2> QED
    BY <2>1, <2>2
<1>4. CASE recon'.pc \notin {"retire", "cancel"}
  BY <1>4 DEF RetiresExpired, CancelsDeleted, At
<1> QED
  BY <1>2, <1>3, <1>4, ReconcilerMoves

\* The inductive invariant: the names and deadlines of the copies are of
\* published SetupIntents, and what made a cancelation right stays so.
THEOREM CancelationInvariant == Spec => []CancelationInv
<1>1. TypeOK /\ CancelationInv /\ [Next]_vars => CancelationInv'
  BY OrderStep, EventsPublishedStep, SoundStep, DeletionStep, CancelStep
     DEF CancelationInv
<1> QED
  BY <1>1, InitCancelation, TypeCorrect, PTL DEF Spec

\* The provider cancels an open SetupIntent only when its TTL is over or when
\* the object it was read from is being deleted or gone.
THEOREM LiveIntentsAreKept == Spec => LiveIntentNotCanceled
<1> DEFINE Step ==
      \A i \in SIs : intent[i] = "open" /\ intent'[i] = "canceled"
        => i <= lapsed \/ spm.deleting \/ spm.uid # recon.base.uid
<1>1. ASSUME TypeOK, CancelationInv, [Next]_vars PROVE [Step]_vars
  <2> SUFFICES ASSUME NEW i \in SIs, intent[i] = "open", intent'[i] = "canceled"
               PROVE  i <= lapsed \/ spm.deleting \/ spm.uid # recon.base.uid
    OBVIOUS
  <2>1. ASSUME CancelUpstream(recon.base.si) PROVE i = recon.base.si
    BY <1>1, <2>1 DEF CancelUpstream, TypeOK
  <2>2. CASE RetireIntent
    <3>1. At("retire") /\ i = recon.base.si
      BY <2>1, <2>2 DEF RetireIntent
    <3>2. recon.base.deadline # 0 /\ recon.base.deadline <= lapsed
      BY <1>1, <3>1 DEF CancelationInv, RetiresExpired, Expired
    <3>3. i <= recon.base.deadline
      BY <1>1, <3>1, <3>2 DEF CancelationInv, CopiesAreSound, Sound
    <3>4. recon.base.deadline \in Nat /\ lapsed \in Nat /\ i \in Nat
      BY <1>1 DEF TypeOK, ReconcilerStates, SPMs, SIRefs, SIs
    <3> QED
      BY <3>2, <3>3, <3>4
  <2>3. CASE CancelIntent
    BY <1>1, <2>3 DEF CancelIntent, CancelationInv, CancelsDeleted
  <2>4. CASE MintIntent
    BY <1>1, <2>4 DEF MintIntent, TypeOK
  <2>5. ASSUME NEW j \in SIs, Confirm(j) PROVE FALSE
    BY <1>1, <2>5 DEF Confirm, TypeOK
  <2>6. CASE UNCHANGED intent
    BY <2>6
  <2>7. \/ UNCHANGED intent \/ RetireIntent \/ CancelIntent \/ MintIntent
        \/ \E j \in SIs : Confirm(j)
    BY <1>1 DEF Next, ReconcilerStep, HookStep, vars, CreateChild, DeleteSPM,
       DeletePM, CollectGarbage, SyncSPM, SyncPM, Crash, TimerFires, Resync, Lapse,
       Decline, StartReconcile, AddFinalizer, PublishIntent, ParentAwaits,
       DetachCard, ReleaseFinalizer, RecordAttempt, NoteIncomplete, Surrender,
       ReconcilerFault, RecordOutcome, ProjectOutcome, HookFault, Receive,
       DropDuplicate, stripeVars
  <2> QED
    BY <2>2, <2>3, <2>4, <2>5, <2>6, <2>7
<1> QED
  BY <1>1, CancelationInvariant, TypeCorrect, PTL DEF Spec, LiveIntentNotCanceled
=============================================================================
