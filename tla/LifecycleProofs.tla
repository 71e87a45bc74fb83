---------------------------- MODULE LifecycleProofs ----------------------------
(***************************************************************************)
(* PaymentMethodSetup implements CardLifecycle, and no child is given up    *)
(* before its attempts are used up: the reconciler that cleans up works for *)
(* the deleted child it read, or for one that nobody has guarded yet.  And   *)
(* no child with work left falls out of its workqueue.                      *)
(***************************************************************************)
EXTENDS CancelationProofs

-----------------------------------------------------------------------------
(* The inductive invariant                                                  *)

CleanupPCs == {"cancel", "detach", "release", "failed"}

\* Only an object with a finalizer is marked as deleted, and none that is gone.
DeletingIsGuarded ==
  /\ spm.deleting => spm.finalizer
  /\ spm.uid = 0 => ~spm.finalizer

\* A cleanup works from a copy of a child that is deleted or gone.
CleansDeleted ==
  recon.pc \in CleanupPCs =>
    /\ recon.base.deleting /\ recon.base.uid \in 1 .. created
    /\ recon.base.uid = spm.uid => spm.deleting

\* The finalizer goes to a child that was not deleted when it was read, and that
\* the leader's cache shows.
GuardsLive ==
  At("finalize") =>
    /\ ~recon.base.deleting /\ recon.base.uid \in 1 .. created
    /\ recon.base.uid = spm.uid => seen[Leader].spm.uid = spm.uid

\* Only the leader adds finalizers, and it has seen whom it gave one.
LeaderSawFinalizer == spm.finalizer => seen[Leader].spm.uid = spm.uid

\* While it cleans up, a child created under the name gets no finalizer: one that
\* has it is the deleted child of the cleanup.
CleanupIsOurs ==
  /\ recon.pc \in CleanupPCs /\ spm.finalizer => spm.uid = recon.base.uid
  /\ At("letgo") /\ spm.finalizer => spm.deleting

\* Attempts are never uncounted: no copy of the child knows of more than it.
AttemptsGrow ==
  spm.uid # 0 =>
    /\ recon.base.uid = spm.uid => recon.base.attempts <= spm.attempts
    /\ \A r \in Replicas :
         seen[r].spm.uid = spm.uid => seen[r].spm.attempts <= spm.attempts

\* The child that is about to be given up has used up its attempts.
LetGoIsDue == At("letgo") /\ spm.deleting => spm.attempts = MaxAttempts - 1

\* What the reconciler has in hand was created.
BaseIsCreated == recon.base.uid <= created

CleanupInv ==
  /\ DeletingIsGuarded /\ CleansDeleted /\ GuardsLive /\ BaseIsCreated
  /\ LeaderSawFinalizer /\ CleanupIsOurs
  /\ AttemptsGrow /\ LetGoIsDue

\* Initially there is no child and nothing is done.
LEMMA InitCleanup == Init => CleanupInv
<1> SUFFICES ASSUME Init PROVE CleanupInv
  OBVIOUS
<1>1. /\ NoSPM.uid = 0 /\ ~NoSPM.deleting /\ ~NoSPM.finalizer
      /\ recon.pc = "idle" /\ recon.base = NoSPM
  BY DEF Init, IdleReconciler, NoSPM, NewSPM
<1> QED
  BY <1>1 DEF Init, CleanupInv, CleanupPCs, DeletingIsGuarded, CleansDeleted,
     GuardsLive, BaseIsCreated, LeaderSawFinalizer, CleanupIsOurs, AttemptsGrow,
     LetGoIsDue, At

-----------------------------------------------------------------------------
(* What a step does                                                         *)

\* The writes of what the cleanup depends on.
Marked ==
  /\ spm.uid # 0 /\ spm.finalizer /\ ~spm.deleting
  /\ spm' = [spm EXCEPT !.deleting = TRUE]
  /\ UNCHANGED <<created, recon, seen>>

Guarded ==
  /\ At("finalize") /\ UpdateLands
  /\ spm' = [spm EXCEPT !.finalizer = TRUE]
  /\ recon' = IdleReconciler
  /\ UNCHANGED <<created, seen>>

Counted ==
  /\ At("failed") /\ UpdateLands /\ ~OutOfAttempts
  /\ spm' = [spm EXCEPT !.attempts = Attempts]
  /\ recon' = IdleReconciler
  /\ UNCHANGED <<created, seen>>

IdentityKept ==
  /\ spm'.uid = spm.uid /\ spm'.attempts = spm.attempts
  /\ spm'.finalizer = spm.finalizer /\ spm'.deleting = spm.deleting
  /\ UNCHANGED created

\* Every other step leaves these parts of the child alone, or creates or removes
\* the child: the status patches do not touch them.
LEMMA IdentityWrites ==
  ASSUME TypeOK, [Next]_vars
  PROVE  \/ IdentityKept \/ Marked \/ Guarded \/ Counted
         \/ spm' = NoSPM /\ UNCHANGED created
         \/ CreateChild
<1> USE DEF kubeVars
<1>1. \A base, new \in SPMs :
        /\ MergeSPM(base, new, spm).uid = spm.uid
        /\ MergeSPM(base, new, spm).attempts = spm.attempts
        /\ MergeSPM(base, new, spm).finalizer = spm.finalizer
        /\ MergeSPM(base, new, spm).deleting = spm.deleting
  BY DEF MergeSPM, TypeOK, SPMs
<1>2. CASE UNCHANGED <<spm, created>>
  BY <1>2 DEF IdentityKept
<1>3. CASE DeleteSPM \/ CollectGarbage
  BY <1>3 DEF DeleteSPM, CollectGarbage, Deleted, Marked
<1>4. CASE AddFinalizer
  BY <1>2, <1>4 DEF AddFinalizer, Done, Guarded
<1>5. CASE RecordAttempt
  BY <1>2, <1>5 DEF RecordAttempt, RequeueAfter, Counted
<1>6. CASE ReleaseFinalizer \/ Surrender
  BY <1>2, <1>6 DEF ReleaseFinalizer, Surrender
<1>7. CASE PublishIntent
  <2>1. At("publish") => recon.base \in SPMs /\ recon.si \in SIs
    BY DEF At, TypeOK, ReconcilerStates, SIs, SIRefs
  <2> QED
    BY <1>1, <1>2, <1>7, <2>1, AwaitingType DEF PublishIntent, IdentityKept
<1>8. ASSUME NEW q \in Requests, RecordOutcome(q)
      PROVE  UNCHANGED <<spm, created>> \/ IdentityKept
  <2>1. hook[q].ev \in Events /\ seen[hook[q].replica].spm \in SPMs
    BY DEF TypeOK, HookStates
  <2> QED
    BY <1>1, <1>8, <2>1, OutcomeType DEF RecordOutcome, IdentityKept
<1>9. \/ UNCHANGED <<spm, created>> \/ CreateChild \/ DeleteSPM
      \/ CollectGarbage \/ AddFinalizer \/ RecordAttempt \/ ReleaseFinalizer
      \/ Surrender \/ PublishIntent \/ \E q \in Requests : RecordOutcome(q)
  BY DEF Next, ReconcilerStep, HookStep, vars, DeletePM, SyncSPM, SyncPM, Crash,
     TimerFires, Resync, Lapse, Confirm, Decline, StartReconcile, RetireIntent,
     MintIntent, ParentAwaits, CancelIntent, DetachCard, NoteIncomplete,
     ReconcilerFault, ProjectOutcome, HookFault, Receive, DropDuplicate
<1> QED
  BY <1>2, <1>3, <1>4, <1>5, <1>6, <1>7, <1>8, <1>9

\* The reconciler gets to its cleanup steps from a copy it just read, and goes on
\* with that copy; it is out of attempts when it lets go.
CleanupGoesOn ==
  /\ recon.pc \in CleanupPCs /\ recon'.pc \in CleanupPCs
  /\ recon'.base = recon.base
  /\ UNCHANGED <<spm, created, seen>>

LetsGo ==
  /\ At("failed") /\ OutOfAttempts
  /\ recon'.pc = "letgo" /\ recon'.base \in {recon.base, spm}
  /\ UNCHANGED <<spm, created, seen>>

LEMMA CleanupMoves ==
  ASSUME TypeOK, [Next]_vars
  PROVE  \/ UNCHANGED recon \/ StartReconcile \/ CleanupGoesOn \/ LetsGo
         \/ recon'.pc \notin CleanupPCs \union {"finalize", "letgo"}
<1> USE DEF kubeVars
<1> DEFINE Away == recon'.pc \notin CleanupPCs \union {"finalize", "letgo"}
<1>1. ASSUME Done \/ Requeue \/ RequeueAfter PROVE Away
  BY <1>1 DEF Done, Requeue, RequeueAfter, IdleReconciler, CleanupPCs
<1>2. ASSUME NEW pc, GoTo(pc)
      PROVE  recon'.pc = pc /\ recon'.base = recon.base
  BY <1>2 DEF GoTo, TypeOK, ReconcilerStates
<1>3. CASE RetireIntent
  BY <1>2, <1>3 DEF RetireIntent, CleanupPCs
<1>4. CASE CancelIntent \/ DetachCard
  <2>1. recon'.pc \in CleanupPCs /\ recon'.base = recon.base
    BY <1>2, <1>4 DEF CancelIntent, DetachCard, CleanupPCs
  <2> QED
    BY <1>4, <2>1 DEF CancelIntent, DetachCard, At, CleanupPCs, CleanupGoesOn
<1>5. CASE MintIntent
  <2>1. ASSUME NEW i, recon' = [recon EXCEPT !.pc = "publish", !.si = i]
        PROVE  Away
    BY <2>1 DEF TypeOK, ReconcilerStates, CleanupPCs
  <2> QED
    BY <1>1, <1>5, <2>1 DEF MintIntent
<1>6. CASE PublishIntent
  BY <1>1, <1>6 DEF PublishIntent, IdleReconciler, CleanupPCs
<1>7. CASE AddFinalizer \/ ReleaseFinalizer \/ RecordAttempt \/ Surrender
           \/ ParentAwaits
  <2>1. Done \/ Requeue \/ RequeueAfter
    BY <1>7 DEF AddFinalizer, ReleaseFinalizer, RecordAttempt, Surrender,
                ParentAwaits
  <2> QED
    BY <1>1, <2>1
<1>8. CASE NoteIncomplete
  BY <1>8 DEF NoteIncomplete, TypeOK, ReconcilerStates, LetsGo
<1>9. CASE ReconcilerFault
  <2>1. \/ At("failed") /\ OutOfAttempts /\ GoTo("letgo")
        \/ RequeueAfter \/ Requeue
    BY <1>9 DEF ReconcilerFault
  <2>2. UNCHANGED <<spm, created, seen>>
    BY <1>9 DEF ReconcilerFault
  <2> QED
    BY <1>1, <1>2, <2>1, <2>2 DEF LetsGo
<1>10. ASSUME NEW r \in Replicas, Crash(r) PROVE UNCHANGED recon \/ Away
  BY <1>10 DEF Crash, IdleReconciler, CleanupPCs
<1>11. \/ UNCHANGED recon \/ ReconcilerStep \/ ReconcilerFault
       \/ \E r \in Replicas : Crash(r)
  BY DEF Next, HookStep, vars, CreateChild, DeleteSPM, DeletePM,
     CollectGarbage, SyncSPM, SyncPM, TimerFires, Resync, Lapse, Confirm, Decline,
     RecordOutcome, ProjectOutcome, HookFault, Receive, DropDuplicate
<1> QED
  BY <1>3, <1>4, <1>5, <1>6, <1>7, <1>8, <1>9, <1>10, <1>11 DEF ReconcilerStep

-----------------------------------------------------------------------------
(* The invariant is inductive                                               *)

\* What a start of the reconciler reads, and what it leaves alone.
LEMMA ReconcileStarts ==
  ASSUME TypeOK, StartReconcile
  PROVE  LET o == seen[Leader].spm IN
         /\ UNCHANGED <<spm, created, seen>>
         /\ recon'.base \in {NoSPM, o}
         /\ recon'.pc \in CleanupPCs =>
              recon'.pc = "cancel" /\ recon'.base = o /\ o.uid # 0 /\ o.deleting
         /\ At("finalize")' => recon'.base = o /\ o.uid # 0 /\ ~o.deleting
         /\ ~At("letgo")'
<1>1. Entry(seen[Leader].spm)
        \in {"idle", "cancel", "finalize", "mint", "retire", "await"}
  BY DEF Entry
<1> QED
  BY <1>1 DEF StartReconcile, Entry, IdleReconciler, CleanupPCs, At, kubeVars

\* Nothing has attempts, deletion or finalizer but an object of the server.
LEMMA CreatedStep ==
  ASSUME TypeOK, DeletionStays, DeletingIsGuarded, BaseIsCreated, GuardsLive,
         [Next]_vars
  PROVE  DeletingIsGuarded' /\ BaseIsCreated'
<1> USE SetupAssumption
<1>1. /\ created \in Nat /\ created' \in Nat /\ created <= created'
      /\ recon.base.uid \in Nat /\ NoSPM.uid = 0
  BY UidsAreFresh DEF TypeOK, ReconcilerStates, SPMs, NoSPM, NewSPM
<1>2. recon'.base \in {NoSPM, recon.base, spm, seen[Leader].spm}
  BY ReconcilerMoves, ReconcileStarts
<1>3. spm.uid \in Nat /\ seen[Leader].spm.uid \in Nat
  BY DEF TypeOK, SPMs
<1>4. BaseIsCreated'
  BY <1>1, <1>2, <1>3 DEF DeletionStays, BaseIsCreated
<1>5. DeletingIsGuarded'
  <2>1. CASE Guarded
    <3>1. spm.uid # 0
      BY <2>1 DEF Guarded, UpdateLands, GuardsLive, TypeOK
    <3> QED
      BY <2>1, <3>1 DEF Guarded, DeletingIsGuarded, TypeOK, SPMs
  <2> QED
    BY <2>1, IdentityWrites
       DEF IdentityKept, Marked, Counted, CreateChild, NoSPM, NewSPM,
           DeletingIsGuarded, TypeOK, SPMs
<1> QED
  BY <1>4, <1>5

\* Who is deleted stays so, and its uid is not used again.
LEMMA CleansStep ==
  ASSUME TypeOK, DeletionStays, CleansDeleted, [Next]_vars
  PROVE  CleansDeleted'
<1> USE SetupAssumption
<1> SUFFICES ASSUME recon'.pc \in CleanupPCs
             PROVE  /\ recon'.base.deleting /\ recon'.base.uid \in 1 .. created'
                    /\ recon'.base.uid = spm'.uid => spm'.deleting
  BY DEF CleansDeleted
<1>1. /\ created \in Nat /\ created' \in Nat
      /\ recon.base.uid \in Nat /\ seen[Leader].spm.uid \in Nat
  BY UidsAreFresh DEF TypeOK, ReconcilerStates, SPMs
<1>2. CASE UNCHANGED recon
  BY <1>1, <1>2, UidsAreFresh DEF CleansDeleted
<1>3. CASE StartReconcile
  BY <1>1, <1>3, ReconcileStarts DEF DeletionStays
<1>4. CASE CleanupGoesOn
  BY <1>4 DEF CleanupGoesOn, CleansDeleted
<1> QED
  BY <1>2, <1>3, <1>4, CleanupMoves DEF LetsGo, CleanupPCs

\* The leader's cache does not go back to a child that was there before.
LEMMA GuardsStep ==
  ASSUME TypeOK, DeletionStays, GuardsLive, [Next]_vars
  PROVE  GuardsLive'
<1> USE SetupAssumption
<1> SUFFICES ASSUME At("finalize")'
             PROVE  /\ ~recon'.base.deleting /\ recon'.base.uid \in 1 .. created'
                    /\ recon'.base.uid = spm'.uid
                         => seen'[Leader].spm.uid = spm'.uid
  BY DEF GuardsLive, At
<1>1. /\ created \in Nat /\ created' \in Nat
      /\ recon.base.uid \in Nat /\ seen[Leader].spm.uid \in Nat
  BY UidsAreFresh DEF TypeOK, ReconcilerStates, SPMs
<1>2. CASE UNCHANGED recon
  <2>1. ~recon.base.deleting /\ recon.base.uid \in 1 .. created
    BY <1>2 DEF At, GuardsLive
  <2>2. ASSUME recon.base.uid = spm'.uid PROVE seen'[Leader].spm.uid = spm'.uid
    <3>1. spm'.uid = spm.uid
      BY <1>1, <2>1, <2>2, UidsAreFresh
    <3>2. seen[Leader].spm.uid = spm.uid
      BY <1>2, <2>2, <3>1 DEF At, GuardsLive
    <3> QED
      BY <3>1, <3>2, CopiesAreRead
  <2> QED
    BY <1>1, <1>2, <2>1, <2>2, UidsAreFresh
<1>3. CASE StartReconcile
  BY <1>1, <1>3, ReconcileStarts DEF DeletionStays
<1> QED
  BY <1>2, <1>3, CleanupMoves DEF CleanupGoesOn, LetsGo, CleanupPCs, At

\* A finalizer is added by the leader, to the child that its cache shows.
LEMMA SawStep ==
  ASSUME TypeOK, GuardsLive, LeaderSawFinalizer, [Next]_vars
  PROVE  LeaderSawFinalizer'
<1> USE SetupAssumption
<1> SUFFICES ASSUME spm'.finalizer PROVE seen'[Leader].spm.uid = spm'.uid
  BY DEF LeaderSawFinalizer
<1>1. CASE IdentityKept
  <2>1. spm'.uid = spm.uid /\ seen[Leader].spm.uid = spm.uid
    BY <1>1 DEF IdentityKept, LeaderSawFinalizer
  <2> QED
    BY <2>1, CopiesAreRead
<1>2. CASE Marked
  BY <1>2 DEF Marked, LeaderSawFinalizer, TypeOK, SPMs
<1>3. CASE Guarded
  BY <1>3 DEF Guarded, UpdateLands, GuardsLive, TypeOK, SPMs
<1>4. CASE Counted
  BY <1>4 DEF Counted, LeaderSawFinalizer, TypeOK, SPMs
<1>5. CASE spm' = NoSPM \/ CreateChild
  BY <1>5 DEF NoSPM, NewSPM, CreateChild
<1> QED
  BY <1>1, <1>2, <1>3, <1>4, <1>5, IdentityWrites

\* The one worker of the reconciler adds no finalizer while it cleans up.
LEMMA OursStep ==
  ASSUME TypeOK, DeletionStays, CleansDeleted, LeaderSawFinalizer, CleanupIsOurs,
         [Next]_vars
  PROVE  CleanupIsOurs'
<1> USE SetupAssumption
<1> SUFFICES ASSUME recon'.pc \in CleanupPCs \union {"letgo"}, spm'.finalizer
             PROVE  IF At("letgo")' THEN spm'.deleting
                                    ELSE spm'.uid = recon'.base.uid
  BY DEF CleanupIsOurs, CleanupPCs, At
<1>1. CASE UNCHANGED recon
  <2>1. IdentityKept \/ Marked
    <3>1. ~Guarded /\ ~Counted
      BY <1>1 DEF Guarded, Counted, IdleReconciler, CleanupPCs
    <3> QED
      BY <3>1, IdentityWrites DEF NoSPM, NewSPM, CreateChild
  <2> QED
    BY <1>1, <2>1
       DEF IdentityKept, Marked, CleanupIsOurs, At, CleanupPCs, TypeOK, SPMs
<1>2. CASE StartReconcile
  BY <1>2, ReconcileStarts DEF LeaderSawFinalizer, At
<1>3. CASE CleanupGoesOn
  BY <1>3 DEF CleanupGoesOn, CleanupIsOurs, CleanupPCs, At
<1>4. CASE LetsGo
  BY <1>4 DEF LetsGo, CleanupIsOurs, CleansDeleted, CleanupPCs, At
<1> QED
  BY <1>1, <1>2, <1>3, <1>4, CleanupMoves

\* An attempt is counted on the copy that the server has.
LEMMA AttemptsStep ==
  ASSUME TypeOK, DeletionStays, BaseIsCreated, AttemptsGrow, [Next]_vars
  PROVE  AttemptsGrow'
<1> USE SetupAssumption
<1> DEFINE Knows(o) == o.uid = spm.uid /\ spm.uid # 0 => o.attempts <= spm.attempts
           KnowsNow(o) == o.uid = spm'.uid /\ spm'.uid # 0
                            => o.attempts <= spm'.attempts
<1> SUFFICES /\ KnowsNow(recon'.base)
             /\ \A r \in Replicas : KnowsNow(seen'[r].spm)
  BY DEF AttemptsGrow
<1>1. NoSPM.uid = 0 /\ spm \in SPMs /\ spm' \in SPMs
  BY TypeStep DEF NoSPM, NewSPM, TypeOK
<1>2. Knows(recon.base) /\ Knows(spm) /\ \A r \in Replicas : Knows(seen[r].spm)
  BY <1>1 DEF AttemptsGrow, SPMs
<1>3. ASSUME NEW o \in SPMs, Knows(o), o.uid <= created PROVE KnowsNow(o)
  <2>1. CASE CreateChild
    BY <1>3, <2>1 DEF CreateChild, NewSPM, TypeOK, SPMs
  <2>2. CASE spm' = NoSPM
    BY <1>1, <2>2
  <2>3. CASE IdentityKept
    BY <1>3, <2>3 DEF IdentityKept
  <2>4. CASE Marked \/ Guarded
    BY <1>1, <1>3, <2>4 DEF Marked, Guarded, SPMs
  <2>5. CASE Counted
    <3>1. spm'.uid = spm.uid /\ spm'.attempts = spm.attempts + 1
      BY <1>1, <2>5 DEF Counted, UpdateLands, Attempts, SPMs
    <3> QED
      BY <1>1, <1>3, <3>1 DEF SPMs
  <2> QED
    BY <2>1, <2>2, <2>3, <2>4, <2>5, IdentityWrites
<1>4. ASSUME NEW r \in Replicas PROVE KnowsNow(seen[r].spm)
  BY <1>2, <1>3 DEF DeletionStays, TypeOK
<1>5. KnowsNow(recon.base) /\ KnowsNow(spm) /\ KnowsNow(NoSPM)
  BY <1>1, <1>2, <1>3 DEF DeletionStays, BaseIsCreated, TypeOK, ReconcilerStates
<1>6. ASSUME NEW r \in Replicas PROVE KnowsNow(seen'[r].spm)
  BY <1>4, <1>5, CopiesAreRead
<1>7. recon'.base \in {NoSPM, recon.base, spm, seen[Leader].spm}
  BY ReconcilerMoves, ReconcileStarts
<1> QED
  BY <1>4, <1>5, <1>6, <1>7

\* The copy that ran out of attempts is of the child that is let go, and that
\* child counts no fewer.
LEMMA LetGoStep ==
  ASSUME TypeOK, DeletingIsGuarded, CleansDeleted, CleanupIsOurs, AttemptsGrow,
         LetGoIsDue, [Next]_vars
  PROVE  LetGoIsDue'
<1> USE ObjectsAssumption
<1> SUFFICES ASSUME At("letgo")', spm'.deleting
             PROVE  spm'.attempts = MaxAttempts - 1
  BY DEF LetGoIsDue, At
<1>1. CASE UNCHANGED recon
  <2>1. IdentityKept
    <3>1. ~Guarded /\ ~Counted
      BY <1>1 DEF Guarded, Counted, IdleReconciler, At
    <3>2. ~Marked
      BY <1>1 DEF Marked, CleanupIsOurs, At
    <3> QED
      BY <3>1, <3>2, IdentityWrites DEF NoSPM, NewSPM, CreateChild
  <2> QED
    BY <1>1, <2>1 DEF IdentityKept, LetGoIsDue, At
<1>2. CASE LetsGo
  <2>1. recon.base.uid = spm.uid /\ spm.uid # 0
    BY <1>2 DEF LetsGo, DeletingIsGuarded, CleanupIsOurs, CleanupPCs, At
  <2>2. recon.base.attempts <= spm.attempts
    BY <2>1 DEF AttemptsGrow
  <2>3. recon.base.attempts + 1 >= MaxAttempts
    BY <1>2 DEF LetsGo, OutOfAttempts, Attempts
  <2>4. /\ spm.attempts \in 0 .. MaxAttempts - 1
        /\ recon.base.attempts \in 0 .. MaxAttempts - 1
    BY DEF TypeOK, SPMs, ReconcilerStates
  <2> QED
    BY <1>2, <2>2, <2>3, <2>4 DEF LetsGo
<1>3. ~StartReconcile
  BY ReconcileStarts
<1> QED
  BY <1>1, <1>2, <1>3, CleanupMoves DEF CleanupGoesOn, CleanupPCs, At

\* The inductive invariant: whatever caches and copies lag behind, what a cleanup
\* removes or counts on is the deleted child that it was started for.
THEOREM CleanupInvariant == Spec => []CleanupInv
<1>1. TypeOK /\ CancelationInv /\ CleanupInv /\ [Next]_vars => CleanupInv'
  BY CreatedStep, CleansStep, GuardsStep, SawStep, OursStep, AttemptsStep,
     LetGoStep
     DEF CleanupInv, CancelationInv
<1> QED
  BY <1>1, InitCleanup, TypeCorrect, CancelationInvariant, PTL DEF Spec

-----------------------------------------------------------------------------
(* What follows                                                             *)

\* The provider gives a child up only after all its attempts at the cleanup
\* failed, whatever copy the attempts were counted on.
THEOREM SurrendersAreDue == Spec => SurrenderIsDue
<1> DEFINE Step == surrendered' # surrendered
                     => spm.deleting /\ spm.attempts = MaxAttempts - 1
<1>1. ASSUME CleanupInv, [Next]_vars PROVE [Step]_vars
  <2>1. CASE Surrender
    <3>1. spm.deleting => spm.attempts = MaxAttempts - 1
      BY <1>1, <2>1 DEF Surrender, CleanupInv, LetGoIsDue
    <3> QED
      BY <2>1, <3>1 DEF Surrender, SurrenderLands
  <2>2. UNCHANGED surrendered \/ Surrender
    BY <1>1 DEF Next, ReconcilerStep, HookStep, vars, CreateChild, DeleteSPM,
       DeletePM, CollectGarbage, SyncSPM, SyncPM, Crash, TimerFires, Resync, Lapse,
       Confirm, Decline, StartReconcile, AddFinalizer, RetireIntent, MintIntent,
       PublishIntent, ParentAwaits, CancelIntent, DetachCard, ReleaseFinalizer,
       RecordAttempt, NoteIncomplete, ReconcilerFault, RecordOutcome,
       ProjectOutcome, HookFault, Receive, DropDuplicate
  <2> QED
    BY <2>1, <2>2
<1> QED
  BY <1>1, CleanupInvariant, PTL DEF Spec, SurrenderIsDue

-----------------------------------------------------------------------------
(* No child is forgotten                                                    *)

\* Parents do not come back, so no cache is ahead of the server.
ParentIsPast == pm.exists => seen[Leader].pm.exists

\* The finalizer of a deleted child is on every copy of it.
SeenDeletedIsGuarded == seen[Leader].spm.deleting => seen[Leader].spm.finalizer

\* The reconciler serves the child that it found alive.
ServesLive ==
  /\ recon.pc \in {"retire", "mint"} => ~recon.base.deleting
  /\ At("finalize") => ~recon.base.finalizer

\* While nothing enqueued the key since, the reconciler works on what the cache
\* shows.
WorkIsCached ==
  queue = "empty" =>
    /\ recon.pc \in CleanupPCs \union {"finalize", "retire", "mint"}
         => seen[Leader].spm = recon.base
    /\ At("letgo") => seen[Leader].spm.deleting

\* When it went idle and nothing enqueued the key since, the cached child has no
\* work left: or it was guarded, or its parent is gone, or it is gone.
HandledIsOver ==
  LET o == seen[Leader].spm IN
    queue = "empty" /\ At("idle") /\ Unfinished(o) =>
      \/ ~o.deleting /\ ~o.finalizer /\ (o.uid = spm.uid => spm.finalizer)
      \/ ~o.deleting /\ ~pm.exists
      \/ o.deleting /\ o.uid # spm.uid

QueueInv ==
  /\ ParentIsPast /\ SeenDeletedIsGuarded /\ ServesLive
  /\ WorkIsCached /\ HandledIsOver

\* Initially there is no child.
LEMMA InitQueue == Init => QueueInv
<1> SUFFICES ASSUME Init PROVE QueueInv
  OBVIOUS
<1>1. /\ recon.pc = "idle" /\ NoSPM.uid = 0 /\ ~NoSPM.deleting
      /\ seen[Leader].spm = NoSPM /\ seen[Leader].pm = NewPM /\ NewPM.exists
  BY SetupAssumption DEF Init, IdleReconciler, NoSPM, NewSPM, NewPM
<1> QED
  BY <1>1 DEF QueueInv, ParentIsPast, SeenDeletedIsGuarded, ServesLive, WorkIsCached,
     HandledIsOver, Unfinished, CleanupPCs, At

\* A parent that is gone stays so, and a cache shows one that there was.
LEMMA ParentsEnd ==
  ASSUME TypeOK, [Next]_vars
  PROVE  /\ ~pm.exists => ~pm'.exists
         /\ \/ seen'[Leader].pm = seen[Leader].pm
            \/ seen'[Leader].pm = pm /\ UNCHANGED pm
<1> USE SetupAssumption DEF kubeVars
<1>1. ~pm.exists => ~pm'.exists
  <2>1. CASE DeletePM \/ ParentAwaits \/ UNCHANGED pm
    BY <2>1 DEF DeletePM, ParentAwaits
  <2>2. ASSUME NEW q \in Requests, ProjectOutcome(q), ~pm.exists PROVE UNCHANGED pm
    BY <2>2 DEF ProjectOutcome
  <2>3. \/ DeletePM \/ ParentAwaits \/ UNCHANGED pm
        \/ \E q \in Requests : ProjectOutcome(q)
    BY DEF Next, ReconcilerStep, HookStep, vars, CreateChild, DeleteSPM,
       CollectGarbage, SyncSPM, SyncPM, Crash, TimerFires, Resync, Lapse,
       Confirm, Decline, StartReconcile, AddFinalizer, RetireIntent, MintIntent,
       PublishIntent, CancelIntent, DetachCard, ReleaseFinalizer, RecordAttempt,
       NoteIncomplete, Surrender, ReconcilerFault, RecordOutcome, HookFault,
       Receive, DropDuplicate
  <2> QED
    BY <2>1, <2>2, <2>3
<1>2. \/ seen'[Leader].pm = seen[Leader].pm
      \/ seen'[Leader].pm = pm /\ UNCHANGED pm
  <2>1. ASSUME NEW s \in Replicas, SyncSPM(s) \/ SyncPM(s) \/ Crash(s)
        PROVE  \/ seen'[Leader].pm = seen[Leader].pm
               \/ seen'[Leader].pm = pm /\ UNCHANGED pm
    BY <2>1 DEF SyncSPM, SyncPM, Crash, TypeOK
  <2>2. \/ UNCHANGED seen
        \/ \E s \in Replicas : SyncSPM(s) \/ SyncPM(s) \/ Crash(s)
    BY DEF Next, ReconcilerStep, HookStep, vars, CreateChild, DeleteSPM, DeletePM,
       CollectGarbage, TimerFires, Resync, Lapse, Confirm, Decline, StartReconcile,
       AddFinalizer, RetireIntent, MintIntent, PublishIntent, ParentAwaits,
       CancelIntent, DetachCard, ReleaseFinalizer, RecordAttempt, NoteIncomplete,
       Surrender, ReconcilerFault, RecordOutcome, ProjectOutcome, HookFault,
       Receive, DropDuplicate
  <2> QED
    BY <2>1, <2>2
<1> QED
  BY <1>1, <1>2

\* A reconcile that ends without a requeue: it added the finalizer, found no
\* parent, or removed the child.
Rests ==
  /\ recon' = IdleReconciler
  /\ \/ Guarded
     \/ At("mint") /\ ~seen[Leader].pm.exists /\ UNCHANGED <<pm, spm>>
     \/ At("release") /\ UpdateLands /\ spm' = NoSPM
     \/ At("letgo") /\ SurrenderLands /\ spm' = NoSPM

\* One that goes on with the copy it read, or with the state it wrote.
InHand ==
  \/ CleanupGoesOn
  \/ LetsGo
  \/ At("retire") /\ recon'.pc = "mint" /\ recon'.base = recon.base
  \/ recon'.pc \in {"publish", "await"}

\* The queue gets empty when the key is taken from it, and stays so only as long as
\* the leader sees no change of the child.
LEMMA QueueMoves ==
  ASSUME TypeOK, [Next]_vars, queue' = "empty"
  PROVE  \/ StartReconcile
         \/ /\ queue = "empty" /\ seen'[Leader].spm = seen[Leader].spm
            /\ UNCHANGED recon \/ Rests \/ InHand
<1> USE SetupAssumption DEF kubeVars
<1> DEFINE Quiet == /\ queue = "empty" /\ seen'[Leader].spm = seen[Leader].spm
                    /\ UNCHANGED recon \/ Rests \/ InHand
<1>1. ~Requeue /\ ~RequeueAfter
  BY DEF Requeue, RequeueAfter
<1>2. ASSUME NEW pc, GoTo(pc)
      PROVE  recon'.pc = pc /\ recon'.base = recon.base
  BY <1>2 DEF GoTo, TypeOK, ReconcilerStates
<1>3. CASE AddFinalizer
  BY <1>1, <1>3 DEF AddFinalizer, Done, Rests, Guarded
<1>4. CASE RetireIntent
  BY <1>2, <1>4 DEF RetireIntent, InHand
<1>5. CASE MintIntent
  <2>1. ASSUME NEW i, recon' = [recon EXCEPT !.pc = "publish", !.si = i]
        PROVE  InHand
    BY <2>1 DEF TypeOK, ReconcilerStates, InHand
  <2>2. UNCHANGED seen
    BY <1>5 DEF MintIntent
  <2>3. queue = "empty" /\ (Rests \/ InHand)
    BY <1>1, <1>5, <2>1 DEF MintIntent, Done, Rests
  <2> QED
    BY <2>2, <2>3
<1>6. CASE PublishIntent
  <2>1. recon' = [IdleReconciler EXCEPT !.pc = "await"] => recon'.pc = "await"
    BY DEF IdleReconciler
  <2> QED
    BY <1>1, <1>6, <2>1 DEF PublishIntent, InHand
<1>7. CASE CancelIntent \/ DetachCard
  <2>1. recon'.pc \in CleanupPCs /\ recon'.base = recon.base
    BY <1>2, <1>7 DEF CancelIntent, DetachCard, CleanupPCs
  <2> QED
    BY <1>7, <2>1 DEF CancelIntent, DetachCard, At, CleanupPCs, CleanupGoesOn, InHand
<1>8. CASE ReleaseFinalizer \/ Surrender
  BY <1>1, <1>8 DEF ReleaseFinalizer, Surrender, Done, Rests
<1>9. CASE ParentAwaits \/ RecordAttempt
  BY <1>1, <1>9 DEF ParentAwaits, RecordAttempt
<1>10. CASE NoteIncomplete
  BY <1>10 DEF NoteIncomplete, TypeOK, ReconcilerStates, LetsGo, InHand
<1>11. CASE ReconcilerFault
  <2>1. At("failed") /\ OutOfAttempts /\ GoTo("letgo") /\ UNCHANGED queue
    BY <1>1, <1>11 DEF ReconcilerFault
  <2>2. UNCHANGED <<spm, created, seen>>
    BY <1>11 DEF ReconcilerFault
  <2> QED
    BY <1>2, <2>1, <2>2 DEF LetsGo, InHand
<1>12. ASSUME NEW r \in Replicas, SyncSPM(r) \/ SyncPM(r) \/ Crash(r) PROVE Quiet
  BY <1>12 DEF SyncSPM, SyncPM, Crash, TypeOK
<1>13. ~TimerFires /\ ~Resync
  BY DEF TimerFires, Resync
<1>14. \/ UNCHANGED <<queue, recon, seen>> \/ ReconcilerStep \/ ReconcilerFault
       \/ \E r \in Replicas : SyncSPM(r) \/ SyncPM(r) \/ Crash(r)
  BY <1>13 DEF Next, HookStep, vars, CreateChild, DeleteSPM, DeletePM,
     CollectGarbage, Lapse, Confirm, Decline, RecordOutcome, ProjectOutcome,
     HookFault, Receive, DropDuplicate
<1> QED
  BY <1>3, <1>4, <1>5, <1>6, <1>7, <1>8, <1>9, <1>10, <1>11, <1>12, <1>14
     DEF ReconcilerStep

\* What the reconciler is started with besides: see ReconcileStarts.
LEMMA WorkStartsLive ==
  ASSUME TypeOK, StartReconcile
  PROVE  LET o == seen[Leader].spm IN
         /\ recon'.pc \in {"finalize", "retire", "mint"} =>
              recon'.base = o /\ ~o.deleting
         /\ At("finalize")' => ~o.finalizer
         /\ At("idle")' => o.uid = 0 \/ (o.deleting /\ ~o.finalizer)
                           \/ (~o.deleting /\ Terminal(o))
<1>1. Entry(seen[Leader].spm)
        \in {"idle", "cancel", "finalize", "mint", "retire", "await"}
  BY DEF Entry
<1> QED
  BY <1>1 DEF StartReconcile, Entry, IdleReconciler, At

\* It gets to that child from the copy it just read, or goes on from one to the
\* other of these steps.
LEMMA ServiceComes ==
  ASSUME TypeOK, [Next]_vars, recon'.pc \in {"finalize", "retire", "mint"}
  PROVE  UNCHANGED recon \/ StartReconcile \/ RetireIntent
<1>1. ~Done /\ ~Requeue /\ ~RequeueAfter
  BY DEF Done, Requeue, RequeueAfter, IdleReconciler
<1>2. ASSUME NEW pc, GoTo(pc) PROVE recon'.pc = pc
  BY <1>2 DEF GoTo, TypeOK, ReconcilerStates
<1>3. ~MintIntent
  <2>1. ASSUME NEW i, recon' = [recon EXCEPT !.pc = "publish", !.si = i]
        PROVE  FALSE
    BY <2>1 DEF TypeOK, ReconcilerStates
  <2> QED
    BY <1>1, <2>1 DEF MintIntent
<1>4. ~PublishIntent /\ ~NoteIncomplete
  BY <1>1 DEF PublishIntent, NoteIncomplete, IdleReconciler, TypeOK, ReconcilerStates
<1>5. ~CancelIntent /\ ~DetachCard /\ ~ReconcilerFault
  BY <1>1, <1>2 DEF CancelIntent, DetachCard, ReconcilerFault
<1>6. /\ ~AddFinalizer /\ ~ParentAwaits /\ ~ReleaseFinalizer /\ ~RecordAttempt
      /\ ~Surrender
  BY <1>1 DEF AddFinalizer, ParentAwaits, ReleaseFinalizer, RecordAttempt, Surrender
<1>7. ASSUME NEW r \in Replicas, Crash(r) PROVE UNCHANGED recon
  BY <1>7 DEF Crash, IdleReconciler
<1>8. \/ UNCHANGED recon \/ ReconcilerStep \/ ReconcilerFault
      \/ \E r \in Replicas : Crash(r)
  BY DEF Next, HookStep, vars, kubeVars, CreateChild, DeleteSPM, DeletePM,
     CollectGarbage, SyncSPM, SyncPM, TimerFires, Resync, Lapse, Confirm, Decline,
     RecordOutcome, ProjectOutcome, HookFault, Receive, DropDuplicate
<1> QED
  BY <1>3, <1>4, <1>5, <1>6, <1>7, <1>8 DEF ReconcilerStep

-----------------------------------------------------------------------------
(* The invariant of the queue is inductive                                  *)

\* The reconciler serves only whom it found alive.
LEMMA ServesStep ==
  ASSUME TypeOK, ServesLive, [Next]_vars
  PROVE  ServesLive'
<1> SUFFICES ASSUME recon'.pc \in {"finalize", "retire", "mint"}
             PROVE  /\ At("finalize")' => ~recon'.base.finalizer
                    /\ ~At("finalize")' => ~recon'.base.deleting
  BY DEF ServesLive, At
<1>1. CASE UNCHANGED recon
  BY <1>1 DEF ServesLive, At
<1>2. CASE StartReconcile
  BY <1>2, WorkStartsLive DEF At
<1>3. CASE RetireIntent
  <2>1. recon'.pc = "mint" /\ recon'.base = recon.base
    BY <1>3 DEF RetireIntent, GoTo, TypeOK, ReconcilerStates
  <2> QED
    BY <1>3, <2>1 DEF RetireIntent, ServesLive, At
<1> QED
  BY <1>1, <1>2, <1>3, ServiceComes

\* Queue empty, the reconciler keeps to the copy that the cache shows.
LEMMA CachedStep ==
  ASSUME TypeOK, CleansDeleted, WorkIsCached, [Next]_vars
  PROVE  WorkIsCached'
<1> DEFINE Pcs == CleanupPCs \union {"finalize", "retire", "mint"}
<1> SUFFICES ASSUME queue' = "empty"
             PROVE  /\ recon'.pc \in Pcs => seen'[Leader].spm = recon'.base
                    /\ At("letgo")' => seen'[Leader].spm.deleting
  BY DEF WorkIsCached, CleanupPCs, At
<1>1. CASE StartReconcile
  <2>1. UNCHANGED seen /\ ~At("letgo")'
    BY <1>1, ReconcileStarts
  <2>2. recon'.pc \in Pcs => recon'.base = seen[Leader].spm
    BY <1>1, ReconcileStarts, WorkStartsLive
  <2> QED
    BY <2>1, <2>2
<1>2. CASE queue = "empty" /\ seen'[Leader].spm = seen[Leader].spm
           /\ (UNCHANGED recon \/ Rests \/ InHand)
  <2>1. CASE UNCHANGED recon
    BY <1>2, <2>1 DEF WorkIsCached, At
  <2>2. CASE Rests
    BY <2>2 DEF Rests, IdleReconciler, CleanupPCs, At
  <2>3. CASE CleanupGoesOn
    BY <1>2, <2>3 DEF CleanupGoesOn, WorkIsCached, CleanupPCs, At
  <2>4. CASE LetsGo
    <3>1. recon.base.deleting /\ seen[Leader].spm = recon.base
      BY <1>2, <2>4 DEF LetsGo, CleansDeleted, WorkIsCached, CleanupPCs, At
    <3> QED
      BY <1>2, <2>4, <3>1 DEF LetsGo, CleanupPCs, At
  <2>5. CASE At("retire") /\ recon'.pc = "mint" /\ recon'.base = recon.base
    BY <1>2, <2>5 DEF WorkIsCached, CleanupPCs, At
  <2>6. CASE recon'.pc \in {"publish", "await"}
    BY <2>6 DEF CleanupPCs, At
  <2> QED
    BY <1>2, <2>1, <2>2, <2>3, <2>4, <2>5, <2>6 DEF InHand
<1> QED
  BY <1>1, <1>2, QueueMoves

\* A child that was handled gets no new work unseen.
LEMMA HandledStep ==
  ASSUME TypeOK, DeletionStays, DeletingIsGuarded, CleansDeleted, GuardsLive,
         ParentIsPast, SeenDeletedIsGuarded, ServesLive, WorkIsCached,
         HandledIsOver, [Next]_vars
  PROVE  HandledIsOver'
<1> USE SetupAssumption
<1> DEFINE o == seen[Leader].spm
           Over == \/ /\ ~o.deleting /\ ~o.finalizer
                      /\ o.uid = spm'.uid => spm'.finalizer
                   \/ ~o.deleting /\ ~pm'.exists
                   \/ o.deleting /\ o.uid # spm'.uid
<1> SUFFICES ASSUME queue' = "empty", At("idle")', Unfinished(seen'[Leader].spm)
             PROVE  seen'[Leader].spm = o /\ Over
  BY DEF HandledIsOver, At
<1>0. /\ NoSPM.uid = 0 /\ o.uid \in Nat /\ created \in Nat /\ spm \in SPMs
      /\ o.uid <= created
  BY DEF NoSPM, NewSPM, TypeOK, SPMs, DeletionStays
<1>1. ~StartReconcile
  <2> SUFFICES ASSUME StartReconcile PROVE FALSE
    OBVIOUS
  <2>1. seen'[Leader].spm = o
    BY ReconcileStarts
  <2>2. o.uid = 0 \/ (o.deleting /\ ~o.finalizer) \/ (~o.deleting /\ Terminal(o))
    BY WorkStartsLive
  <2> QED
    BY <2>1, <2>2 DEF Unfinished, SeenDeletedIsGuarded
<1>2. /\ queue = "empty" /\ seen'[Leader].spm = o
      /\ UNCHANGED recon \/ Rests \/ InHand
  BY <1>1, QueueMoves
<1>3. ~InHand
  BY DEF InHand, CleanupGoesOn, LetsGo, CleanupPCs, At
<1>4. Unfinished(o) /\ o.uid # 0
  BY <1>2 DEF Unfinished
<1>5. CASE UNCHANGED recon
  <2>1. \/ ~o.deleting /\ ~o.finalizer /\ (o.uid = spm.uid => spm.finalizer)
        \/ ~o.deleting /\ ~pm.exists
        \/ o.deleting /\ o.uid # spm.uid
    BY <1>2, <1>4, <1>5 DEF HandledIsOver, At
  <2>2. ~Guarded /\ ~Counted
    BY <1>5 DEF Guarded, Counted, At
  <2>3. \/ spm'.uid = spm.uid /\ spm'.finalizer = spm.finalizer
        \/ spm'.uid # o.uid
    <3>1. CASE IdentityKept
      BY <3>1 DEF IdentityKept
    <3>2. CASE Marked
      BY <1>0, <3>2 DEF Marked, SPMs
    <3>3. CASE spm' = NoSPM \/ CreateChild
      BY <1>0, <1>4, <3>3 DEF CreateChild, NewSPM
    <3> QED
      BY <2>2, <3>1, <3>2, <3>3, IdentityWrites
  <2>4. ~pm.exists => ~pm'.exists
    BY ParentsEnd
  <2> QED
    BY <1>2, <2>1, <2>3, <2>4
<1>6. CASE Rests
  <2>1. CASE Guarded
    <3>1. o = recon.base /\ ~o.deleting /\ ~o.finalizer
      BY <1>2, <2>1 DEF Guarded, WorkIsCached, GuardsLive, ServesLive, At
    <3>2. spm'.finalizer
      BY <1>0, <2>1 DEF Guarded, SPMs
    <3> QED
      BY <1>2, <3>1, <3>2
  <2>2. CASE At("mint") /\ ~seen[Leader].pm.exists /\ UNCHANGED <<pm, spm>>
    <3>1. o = recon.base /\ ~o.deleting /\ ~pm.exists
      BY <1>2, <2>2 DEF WorkIsCached, ServesLive, ParentIsPast, At
    <3> QED
      BY <1>2, <2>2, <3>1
  <2>3. CASE At("release") /\ UpdateLands /\ spm' = NoSPM
    <3>1. o = recon.base /\ o.deleting
      BY <1>2, <2>3 DEF WorkIsCached, CleansDeleted, CleanupPCs, At
    <3> QED
      BY <1>0, <1>2, <1>4, <2>3, <3>1
  <2>4. CASE At("letgo") /\ SurrenderLands /\ spm' = NoSPM
    <3>1. o.deleting
      BY <1>2, <2>4 DEF WorkIsCached
    <3> QED
      BY <1>0, <1>2, <1>4, <2>4, <3>1
  <2> QED
    BY <1>6, <2>1, <2>2, <2>3, <2>4 DEF Rests
<1> QED
  BY <1>2, <1>3, <1>5, <1>6

\* The inductive invariant of the workqueue.
THEOREM QueueInvariant == Spec => []QueueInv
<1>1. ASSUME TypeOK, CancelationInv, CleanupInv, QueueInv, [Next]_vars
      PROVE  QueueInv'
  <2>1. ParentIsPast'
    BY <1>1, ParentsEnd DEF QueueInv, ParentIsPast
  <2>2. SeenDeletedIsGuarded'
    BY <1>1, SetupAssumption, CopiesAreRead
       DEF QueueInv, CleanupInv, DeletingIsGuarded, SeenDeletedIsGuarded
  <2> QED
    BY <1>1, <2>1, <2>2, ServesStep, CachedStep, HandledStep
       DEF QueueInv, CleanupInv, CancelationInv
<1> QED
  BY <1>1, InitQueue, TypeCorrect, CancelationInvariant, CleanupInvariant, PTL
     DEF Spec

\* A child that waits for its consumer or for its cleanup is in the workqueue or in
\* work, or a change of it is on its way to the leader: no return of Reconcile, no
\* conflict, failure or restart leaves it with nobody to come back to it.
THEOREM NoChildIsForgotten == Spec => []NotForgotten
<1>1. QueueInv => NotForgotten
  BY DEF QueueInv, HandledIsOver, NotForgotten, Unfinished
<1> QED
  BY <1>1, QueueInvariant, PTL

-----------------------------------------------------------------------------
(* The refinement of CardLifecycle, step by step                            *)

LifecycleStep == Lifecycle!Next \/ UNCHANGED Lifecycle!lifecycleVars

\* Everything the proofs below know of a state.
AllInv == TypeOK /\ ConfirmationInv /\ ChildInv /\ CancelationInv /\ CleanupInv

\* A record is its fields.
Methods == [exists : BOOLEAN, active : BOOLEAN, card : Nat]
Children == [uid : Nat, finalizer : BOOLEAN, deleting : BOOLEAN, attempts : Nat,
             card : Nat]

LEMMA SameMethod ==
  ASSUME NEW m \in Methods, NEW n \in Methods,
         m.exists = n.exists, m.active = n.active, m.card = n.card
  PROVE  m = n
  BY DEF Methods

LEMMA SameChild ==
  ASSUME NEW c \in Children, NEW d \in Children,
         c.uid = d.uid, c.finalizer = d.finalizer, c.deleting = d.deleting,
         c.attempts = d.attempts, c.card = d.card
  PROVE  c = d
  BY DEF Children

\* What is shown of the two objects, before and after a step.
MethodShows ==
  /\ ShownMethod \in Methods
  /\ ShownMethod.exists = pm.exists /\ ShownMethod.card = pm.card
  /\ ShownMethod.active = (pm.phase = "Active")

ChildShows ==
  /\ ShownChild \in Children
  /\ ShownChild.uid = spm.uid /\ ShownChild.finalizer = spm.finalizer
  /\ ShownChild.deleting = spm.deleting
  /\ ShownChild.attempts = spm.attempts /\ ShownChild.card = spm.pmID

LEMMA ShownFields == TypeOK => MethodShows /\ ChildShows
<1> USE ObjectsAssumption
<1>1. TypeOK => MethodShows
  BY DEF MethodShows, ShownMethod, Methods, TypeOK, PMs, SIRefs
<1>2. TypeOK => ChildShows
  BY DEF ChildShows, ShownChild, Children, TypeOK, SPMs, SIRefs
<1> QED
  BY <1>1, <1>2

LEMMA ShownNext == TypeOK /\ [Next]_vars => MethodShows' /\ ChildShows'
<1>1. TypeOK' => (MethodShows /\ ChildShows)'
  BY ShownFields, PTL
<1> QED
  BY <1>1, TypeStep

\* A cleanup runs when the child that it is for is deleted or gone.
LEMMA CleanupIsLeaving ==
  ASSUME AllInv, recon.pc \in CleanupPCs
  PROVE  Lifecycle!Leaving
<1>1. /\ created \in Nat /\ spm.uid \in Nat /\ spm.uid <= created
      /\ recon.base.uid \in 1 .. created
      /\ recon.base.uid = spm.uid => spm.deleting
  BY DEF AllInv, TypeOK, SPMs, CancelationInv, DeletionStays, CleanupInv,
         CleansDeleted
<1> QED
  BY <1>1 DEF Lifecycle!Leaving, ShownChild

\* The steps at Stripe: a SetupIntent is made, confirmed, canceled.
LEMMA IntentSteps ==
  ASSUME AllInv,
         \/ MintIntent \/ RetireIntent \/ CancelIntent \/ Lapse
         \/ \E i \in SIs : Confirm(i)
  PROVE  LifecycleStep
<1> USE DEF kubeVars, clientVars, LifecycleStep, Lifecycle!Next,
            Lifecycle!lifecycleVars, ShownMethod, ShownChild
<1>1. ASSUME CancelUpstream(recon.base.si) \/ UNCHANGED <<intent, pending>>,
             UNCHANGED <<kubeVars, clientVars, attached>>,
             recon.base.si \in SIs /\ intent[recon.base.si] = "open"
               => recon.base.si <= lapsed \/ Lifecycle!Leaving
      PROVE  LifecycleStep
  <2>1. CASE recon.base.si # 0 /\ intent[recon.base.si] = "open"
             /\ CancelUpstream(recon.base.si)
    <3>1. recon.base.si \in SIs
      BY <2>1 DEF AllInv, TypeOK, ReconcilerStates, SPMs, SIRefs, SIs
    <3>2. Lifecycle!Cancel(recon.base.si)
      BY <1>1, <2>1, <3>1 DEF CancelUpstream, Lifecycle!Cancel
    <3> QED
      BY <3>1, <3>2
  <2>2. CASE UNCHANGED intent
    BY <1>1, <2>2
  <2> QED
    BY <1>1, <2>1, <2>2 DEF CancelUpstream
<1>2. CASE RetireIntent
  <2>1. recon.base.deadline # 0 /\ recon.base.deadline <= lapsed
        /\ recon.base.si <= recon.base.deadline
    BY <1>2 DEF RetireIntent, AllInv, CancelationInv, RetiresExpired, Expired,
                CopiesAreSound, Sound
  <2>2. /\ recon.base.deadline \in Nat /\ lapsed \in Nat
        /\ recon.base.si \in Nat
    BY DEF AllInv, TypeOK, ReconcilerStates, SPMs, SIRefs
  <2> QED
    BY <1>1, <1>2, <2>1, <2>2 DEF RetireIntent
<1>3. CASE CancelIntent
  <2>1. Lifecycle!Leaving
    BY <1>3, CleanupIsLeaving DEF CancelIntent, CleanupPCs, At
  <2> QED
    BY <1>1, <1>3, <2>1 DEF CancelIntent
<1>4. CASE MintIntent
  <2>1. ASSUME NEW i \in SIs, intent[i] = "none",
               intent' = [intent EXCEPT ![i] = "open"]
        PROVE  Lifecycle!Offer(i)
    <3>1. spm.finalizer \/ Lifecycle!Leaving
      <4>1. recon.pc = "mint"
        BY <1>4 DEF MintIntent, At
      <4>2. created \in Nat
        BY DEF AllInv, TypeOK
      <4>3. created <= 1 /\ spm.uid # 0 => spm.finalizer
        BY <4>1 DEF AllInv, ChildInv, FinalizerStays, OnlyChild
      <4> QED
        BY <4>2, <4>3 DEF Lifecycle!Leaving
    <3> QED
      BY <1>4, <2>1, <3>1 DEF MintIntent, Lifecycle!Offer
  <2> QED
    BY <1>4, <2>1 DEF MintIntent
<1>5. CASE Lapse
  BY <1>5 DEF Lapse, stripeVars, Lifecycle!Lapse
<1>6. ASSUME NEW i \in SIs, Confirm(i) PROVE LifecycleStep
  BY <1>6 DEF Confirm, Lifecycle!Confirm
<1> QED
  BY <1>2, <1>3, <1>4, <1>5, <1>6

\* A card is detached while the child leaves.
LEMMA CardSteps ==
  ASSUME AllInv, DetachCard
  PROVE  LifecycleStep
<1> USE DEF kubeVars, clientVars, LifecycleStep, Lifecycle!Next,
            Lifecycle!lifecycleVars, ShownMethod, ShownChild
<1>1. CASE recon.base.pmID \in SIs
  <2>1. Lifecycle!Leaving
    BY CleanupIsLeaving DEF DetachCard, CleanupPCs, At
  <2> QED
    BY <1>1, <2>1 DEF DetachCard, Lifecycle!Detach
<1>2. CASE recon.base.pmID \notin SIs
  <2>1. UNCHANGED attached
    BY <1>2 DEF DetachCard, AllInv, TypeOK
  <2> QED
    BY <2>1 DEF DetachCard
<1> QED
  BY <1>1, <1>2

\* The writes of the PaymentMethod show the card that it showed, or one that was
\* confirmed, and say Active only with one.
LEMMA ParentSteps ==
  ASSUME AllInv, ConfirmationInv', [Next]_vars,
         DeletePM \/ ParentAwaits \/ \E q \in Requests : ProjectOutcome(q)
  PROVE  LifecycleStep
<1> USE DEF kubeVars, clientVars, LifecycleStep, Lifecycle!Next,
            Lifecycle!lifecycleVars, ShownChild
<1> DEFINE Gone == [Lifecycle!NewMethod EXCEPT !.exists = FALSE]
<1>0. MethodShows /\ MethodShows'
  BY ShownFields, ShownNext DEF AllInv
<1>1. CASE DeletePM
  <2>1. pm'.exists = FALSE /\ pm'.phase # "Active" /\ pm'.card = 0
    BY <1>1 DEF DeletePM, NoPM, NewPM
  <2>2. Gone \in Methods /\ ~Gone.exists /\ ~Gone.active /\ Gone.card = 0
    BY DEF Lifecycle!NewMethod, Methods
  <2>3. ShownMethod' \in Methods /\ ShownMethod'.exists = FALSE
        /\ ShownMethod'.active = FALSE /\ ShownMethod'.card = 0
    BY <1>0, <2>1 DEF MethodShows
  <2>4. Gone.exists = FALSE /\ Gone.active = FALSE
    BY <2>2 DEF Methods
  <2> HIDE DEF Gone
  <2>5. ShownMethod' = Gone
    BY <2>2, <2>3, <2>4, SameMethod
  <2> QED
    BY <1>1, <2>5 DEF DeletePM, stripeVars, Lifecycle!Withdraw, Gone
<1>2. ASSUME pm.exists, pm'.exists, UNCHANGED <<spm, created, intent, attached, lapsed>>,
             pm'.card = pm.card \/ pm'.card \in Lifecycle!Confirmed,
             pm'.phase = "Active" => pm'.card \in Lifecycle!Confirmed
      PROVE  LifecycleStep
  <2> DEFINE card == pm'.card
             active == (pm'.phase = "Active")
  <2>1. card \in {ShownMethod.card} \union Lifecycle!Confirmed
    BY <1>2 DEF ShownMethod
  <2>2. ShownMethod' = [ShownMethod EXCEPT !.active = active, !.card = card]
    <3> DEFINE shown == [ShownMethod EXCEPT !.active = active, !.card = card]
    <3>1. pm'.exists = pm.exists /\ card \in Nat
      BY <1>0, <1>2 DEF MethodShows, Methods, AllInv, TypeOK, PMs
    <3>2. /\ shown \in Methods /\ shown.exists = ShownMethod.exists
          /\ shown.active = active /\ shown.card = card
      BY <1>0, <3>1 DEF MethodShows, Methods
    <3> HIDE DEF shown
    <3>3. shown = ShownMethod'
      BY <1>0, <3>1, <3>2, SameMethod DEF MethodShows
    <3> QED
      BY <3>3 DEF shown
  <2>3. Lifecycle!Report
    BY <1>0, <1>2, <2>1, <2>2 DEF Lifecycle!Report, MethodShows
  <2> QED
    BY <2>3
<1>3. CASE ParentAwaits
  <2>1. UNCHANGED <<spm, created, intent, attached, lapsed>>
    BY <1>3 DEF ParentAwaits, stripeVars
  <2>2. \/ UNCHANGED pm
        \/ pm.exists /\ pm'.exists /\ pm'.card = pm.card /\ pm'.phase = "Awaiting"
    BY <1>3 DEF ParentAwaits, AllInv, TypeOK, PMs
  <2> QED
    BY <1>2, <2>1, <2>2 DEF ShownMethod
<1>4. ASSUME NEW q \in Requests, ProjectOutcome(q) PROVE LifecycleStep
  <2> DEFINE base == seen[hook[q].replica].pm
             ev == hook[q].ev
  <2>1. UNCHANGED <<spm, created, intent, attached, lapsed>> /\ hook[q].pc # "idle"
    BY <1>4 DEF ProjectOutcome
  <2>2. base \in PMs /\ pm \in PMs /\ pm' \in PMs /\ ev \in Events
    BY DEF AllInv, ConfirmationInv, TypeOK, HookStates
  <2>3. \/ UNCHANGED pm
        \/ /\ pm.exists /\ pm'.exists
           /\ pm'.card = pm.card \/ (ev.type = "succeeded" /\ pm'.card = ev.si)
    BY <1>4, <2>2 DEF ProjectOutcome, MergePM, Merge, ParentWithEvent, PMs
  <2>4. ev.type = "succeeded" => ev.si \in Lifecycle!Confirmed
    BY <2>1, <2>2 DEF AllInv, ConfirmationInv, EventsAreTrue, Lifecycle!Confirmed,
                      Events
  <2>5. pm'.phase = "Active" => pm'.card \in Lifecycle!Confirmed
    BY <2>1, <2>2 DEF ConfirmationInv, ShownCardsStay, CopiesAreConfirmed,
                      Confirmed, Lifecycle!Confirmed, PMs, SIRefs, SIs
  <2> QED
    BY <1>2, <2>1, <2>3, <2>4, <2>5 DEF ShownMethod
<1> QED
  BY <1>1, <1>3, <1>4

\* The steps of the child outside a cleanup: it comes, is guarded, records a card
\* and is deleted; the patch of a new SetupIntent shows none of this.
LEMMA ChildSteps ==
  ASSUME AllInv, [Next]_vars,
         \/ CreateChild \/ AddFinalizer \/ PublishIntent
         \/ DeleteSPM \/ CollectGarbage
         \/ \E q \in Requests : RecordOutcome(q)
  PROVE  LifecycleStep
<1> USE DEF kubeVars, stripeVars, clientVars, LifecycleStep, Lifecycle!Next,
            Lifecycle!lifecycleVars, Lifecycle!Becomes, ShownMethod, ShownChild
<1>0. ChildShows /\ ChildShows'
  BY ShownFields, ShownNext DEF AllInv
<1>1. spm \in SPMs
  BY DEF AllInv, TypeOK
<1>2. CASE CreateChild
  BY <1>2 DEF CreateChild, NewSPM, Lifecycle!Create, Lifecycle!NewChild
<1>3. CASE AddFinalizer
  <2>1. CASE UpdateLands
    <3>1. spm.uid # 0 /\ ~spm.deleting
      BY <1>3, <2>1 DEF AddFinalizer, UpdateLands, AllInv, CleanupInv, GuardsLive
    <3>2. ShownChild' = [ShownChild EXCEPT !.finalizer = TRUE]
      <4> DEFINE shown == [ShownChild EXCEPT !.finalizer = TRUE]
      <4>1. spm' = [spm EXCEPT !.finalizer = TRUE]
        BY <1>3, <2>1 DEF AddFinalizer
      <4>2. /\ shown \in Children /\ shown.uid = ShownChild.uid
            /\ shown.finalizer = TRUE /\ shown.deleting = ShownChild.deleting
            /\ shown.attempts = ShownChild.attempts
            /\ shown.card = ShownChild.card
        BY <1>0 DEF ChildShows, Children
      <4>3. /\ spm'.uid = spm.uid /\ spm'.finalizer = TRUE
            /\ spm'.deleting = spm.deleting /\ spm'.attempts = spm.attempts
            /\ spm'.pmID = spm.pmID
        BY <1>1, <4>1 DEF SPMs
      <4> HIDE DEF shown, ShownChild
      <4>4. shown = ShownChild'
        BY <1>0, <4>2, <4>3, SameChild DEF ChildShows
      <4> QED
        BY <4>4 DEF shown
    <3> QED
      BY <1>3, <2>1, <3>1, <3>2 DEF AddFinalizer, Lifecycle!Guard
  <2>2. CASE ~UpdateLands
    BY <1>3, <2>2 DEF AddFinalizer
  <2> QED
    BY <2>1, <2>2
<1>4. CASE PublishIntent
  <2>1. recon.base \in SPMs /\ recon.si \in SIs
    BY <1>4 DEF PublishIntent, At, AllInv, TypeOK, ReconcilerStates, SIs, SIRefs
  <2>2. UNCHANGED ShownChild
    BY <1>1, <1>4, <2>1
       DEF PublishIntent, WithSetupIntent, MergeSPM, Merge, SPMs
  <2> QED
    BY <1>4, <2>2 DEF PublishIntent
<1>5. CASE DeleteSPM \/ CollectGarbage
  <2>1. spm.uid # 0 /\ ~spm.deleting /\ spm' = Deleted(spm)
        /\ UNCHANGED <<pm, created, stripeVars, clientVars>>
    BY <1>5 DEF DeleteSPM, CollectGarbage
  <2>2. ShownChild' = IF ShownChild.finalizer
                      THEN [ShownChild EXCEPT !.deleting = TRUE]
                      ELSE Lifecycle!NoChild
    BY <1>1, <2>1 DEF Deleted, NoSPM, NewSPM, SPMs, Lifecycle!NoChild,
                      Lifecycle!NewChild
  <2> QED
    BY <2>1, <2>2 DEF Lifecycle!Delete
<1>6. ASSUME NEW q \in Requests, RecordOutcome(q) PROVE LifecycleStep
  <2> DEFINE base == seen[hook[q].replica].spm
             ev == hook[q].ev
  <2>1. /\ UNCHANGED <<pm, created, intent, attached, clientVars>>
        /\ hook[q].pc # "idle"
    BY <1>6 DEF RecordOutcome
  <2>2. base \in SPMs /\ ev \in Events
    BY DEF AllInv, TypeOK, HookStates
  <2>3. \/ UNCHANGED ShownChild
        \/ /\ spm.uid # 0 /\ ev.type = "succeeded"
           /\ ShownChild' = [ShownChild EXCEPT !.card = ev.si]
    <3> DEFINE shown == [ShownChild EXCEPT !.card = ev.si]
    <3>1. CASE UNCHANGED spm
      BY <3>1
    <3>2. CASE spm.uid # 0 /\ spm' = MergeSPM(base, WithEvent(base, ev), spm)
      <4>1. /\ spm'.uid = spm.uid /\ spm'.finalizer = spm.finalizer
            /\ spm'.deleting = spm.deleting /\ spm'.attempts = spm.attempts
        BY <1>1, <3>2 DEF MergeSPM, SPMs
      <4>2. spm'.pmID = spm.pmID \/ (ev.type = "succeeded" /\ spm'.pmID = ev.si)
        BY <1>1, <2>2, <3>2, RecordedCard DEF MergeSPM, Merge, SPMs
      <4>3. /\ shown \in Children /\ shown.uid = ShownChild.uid
            /\ shown.finalizer = ShownChild.finalizer
            /\ shown.deleting = ShownChild.deleting
            /\ shown.attempts = ShownChild.attempts /\ shown.card = ev.si
        BY <1>0, <2>2 DEF ChildShows, Children, Events, SIs
      <4> HIDE DEF shown, ShownChild
      <4>4. ShownChild' = ShownChild \/ (ev.type = "succeeded" /\ ShownChild' = shown)
        BY <1>0, <4>1, <4>2, <4>3, SameChild DEF ChildShows
      <4> QED
        BY <3>2, <4>4 DEF shown
    <3> QED
      BY <1>6, <3>1, <3>2 DEF RecordOutcome
  <2>4. ev.type = "succeeded" => ev.si \in Lifecycle!Confirmed /\ ev.si \in SIs
    BY <2>1, <2>2 DEF AllInv, ConfirmationInv, EventsAreTrue, Lifecycle!Confirmed,
                      Events
  <2> QED
    BY <2>1, <2>3, <2>4 DEF Lifecycle!Record
<1> QED
  BY <1>2, <1>3, <1>4, <1>5, <1>6

\* The steps that end a cleanup: it failed and is counted, the finalizer is taken
\* off, or the child is given up.
LEMMA CleanupSteps ==
  ASSUME AllInv, RecordAttempt \/ ReleaseFinalizer \/ Surrender
  PROVE  LifecycleStep
<1> USE DEF kubeVars, stripeVars, clientVars, LifecycleStep, Lifecycle!Next,
            Lifecycle!lifecycleVars, Lifecycle!Becomes, ShownMethod, ShownChild
<1>1. spm \in SPMs /\ MaxAttempts \in Nat
  BY ObjectsAssumption DEF AllInv, TypeOK
<1>2. UpdateLands /\ recon.pc \in CleanupPCs => spm.deleting
  BY DEF UpdateLands, AllInv, CleanupInv, CleansDeleted
<1>3. ASSUME spm' = NoSPM PROVE ShownChild' = Lifecycle!NoChild
  BY <1>3 DEF NoSPM, NewSPM, Lifecycle!NoChild, Lifecycle!NewChild
<1>4. CASE RecordAttempt
  <2>1. CASE UpdateLands
    <3>1. spm.deleting /\ spm.attempts + 1 < MaxAttempts
      BY <1>1, <1>2, <1>4, <2>1
         DEF RecordAttempt, UpdateLands, OutOfAttempts, Attempts, CleanupPCs, At, SPMs
    <3>2. ShownChild' = [ShownChild EXCEPT !.attempts = @ + 1]
      BY <1>1, <1>4, <2>1 DEF RecordAttempt, UpdateLands, Attempts, SPMs
    <3> QED
      BY <1>4, <3>1, <3>2 DEF RecordAttempt, Lifecycle!FailCleanup
  <2>2. CASE ~UpdateLands
    BY <1>4, <2>2 DEF RecordAttempt
  <2> QED
    BY <2>1, <2>2
<1>5. CASE ReleaseFinalizer
  <2>1. CASE UpdateLands
    <3>1. spm.deleting /\ spm.pmID \notin attached
      BY <1>2, <1>5, <2>1
         DEF ReleaseFinalizer, UpdateLands, CleanupPCs, At, AllInv, ConfirmationInv,
             DetachedBeforeRelease
    <3> QED
      BY <1>3, <1>5, <2>1, <3>1 DEF ReleaseFinalizer, Lifecycle!Release
  <2>2. CASE ~UpdateLands
    BY <1>5, <2>2 DEF ReleaseFinalizer
  <2> QED
    BY <2>1, <2>2
<1>6. CASE Surrender
  <2>1. CASE SurrenderLands
    <3>1. spm.deleting /\ spm.attempts = MaxAttempts - 1
      BY <1>6, <2>1 DEF Surrender, SurrenderLands, AllInv, CleanupInv, LetGoIsDue
    <3> QED
      BY <1>1, <1>3, <1>6, <2>1, <3>1 DEF Surrender, Lifecycle!GiveUp
  <2>2. CASE ~SurrenderLands
    BY <1>6, <2>2 DEF Surrender
  <2> QED
    BY <2>1, <2>2
<1> QED
  BY <1>4, <1>5, <1>6

\* PaymentMethodSetup implements CardLifecycle: the stale copies, the merge
\* patches, the late, repeated and lost events, the failures and the restarts are
\* hidden behind a PaymentMethod that shows confirmed cards only and a child
\* that goes when its card is detached or its attempts are used up.
THEOREM LifecycleImplemented == Spec => ImplementsLifecycle
<1>1. Init => Lifecycle!Init
  <2> SUFFICES ASSUME Init PROVE Lifecycle!Init
    OBVIOUS
  <2>1. ShownMethod = Lifecycle!NewMethod
    <3>1. MethodShows
      BY InitType, ShownFields
    <3>2. /\ Lifecycle!NewMethod \in Methods /\ Lifecycle!NewMethod.exists = TRUE
          /\ Lifecycle!NewMethod.active = FALSE /\ Lifecycle!NewMethod.card = 0
      BY DEF Lifecycle!NewMethod, Methods
    <3>3. pm.exists = TRUE /\ pm.phase # "Active" /\ pm.card = 0
      BY DEF Init, NewPM
    <3> QED
      BY <3>1, <3>2, <3>3, SameMethod DEF MethodShows
  <2>2. ShownChild = Lifecycle!NoChild
    BY DEF Init, ShownChild, NoSPM, NewSPM, Lifecycle!NoChild, Lifecycle!NewChild
  <2> QED
    BY <2>1, <2>2 DEF Init, Lifecycle!Init
<1>2. AllInv /\ ConfirmationInv' /\ [Next]_vars
        => [Lifecycle!Next]_(Lifecycle!lifecycleVars)
  <2> SUFFICES ASSUME AllInv, ConfirmationInv', [Next]_vars PROVE LifecycleStep
    BY DEF LifecycleStep
  <2>1. CASE UNCHANGED <<pm, spm, created, intent, attached, lapsed>>
    BY <2>1 DEF LifecycleStep, Lifecycle!lifecycleVars, ShownMethod, ShownChild
  <2>2. \/ UNCHANGED <<pm, spm, created, intent, attached, lapsed>>
        \/ MintIntent \/ RetireIntent \/ CancelIntent \/ Lapse
        \/ \E i \in SIs : Confirm(i)
        \/ DetachCard
        \/ DeletePM \/ ParentAwaits \/ \E q \in Requests : ProjectOutcome(q)
        \/ CreateChild \/ AddFinalizer \/ PublishIntent
        \/ DeleteSPM \/ CollectGarbage
        \/ \E q \in Requests : RecordOutcome(q)
        \/ RecordAttempt \/ ReleaseFinalizer \/ Surrender
    BY DEF Next, ReconcilerStep, HookStep, vars, kubeVars, stripeVars, clientVars,
       SyncSPM, SyncPM, Crash, TimerFires, Resync, Decline, StartReconcile,
       NoteIncomplete, ReconcilerFault, HookFault, Receive, DropDuplicate
  <2> QED
    BY <2>1, <2>2, IntentSteps, CardSteps, ParentSteps, ChildSteps, CleanupSteps
<1>3. TypeOK /\ ConfirmationInv /\ ChildInv /\ CancelationInv /\ CleanupInv
        <=> AllInv
  BY DEF AllInv
<1> QED
  BY <1>1, <1>2, <1>3, TypeCorrect, ConfirmationInvariant, ChildInvariant,
     CancelationInvariant, CleanupInvariant, PTL
     DEF Spec, ImplementsLifecycle, Lifecycle!Spec
=============================================================================
