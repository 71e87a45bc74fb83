---------------------- MODULE PaymentMethodSetupProofs ----------------------
(***************************************************************************)
(* What PaymentMethodSetup guarantees for every number of replicas,         *)
(* requests, SetupIntents, recreated children, attempts and failures.       *)
(***************************************************************************)
EXTENDS PaymentMethodSetup, TLAPS

-----------------------------------------------------------------------------
(* The merge patches and the statuses they are computed from                *)

\* Whatever copies it is computed from, a merge patch of a child's status
\* leaves a well-formed child.
LEMMA MergeSPMType ==
  ASSUME NEW base \in SPMs, NEW new \in SPMs, NEW current \in SPMs
  PROVE  MergeSPM(base, new, current) \in SPMs
  BY DEF MergeSPM, Merge, SPMs

\* The same of a parent's.
LEMMA MergePMType ==
  ASSUME NEW base \in PMs, NEW new \in PMs, NEW current \in PMs
  PROVE  MergePM(base, new, current) \in PMs
  BY DEF MergePM, Merge, PMs

\* Every event kind of a SetupIntent is an event.
LEMMA EventType ==
  ASSUME NEW i \in SIs, NEW type \in {"succeeded", "setup_failed", "canceled"}
  PROVE  Event(type, i) \in Events
  BY DEF Event, Events

\* Every status that is written is well-formed.
LEMMA AwaitingType ==
  ASSUME NEW o \in SPMs, NEW i \in SIs
  PROVE  WithSetupIntent(o, i) \in SPMs
<1>1. i \in SIRefs
  BY ObjectsAssumption DEF SIs, SIRefs
<1> QED
  BY <1>1 DEF WithSetupIntent, SPMs, SPMPhases, SIStatuses

\* The outcome of an event leaves the child's status well-formed.
LEMMA OutcomeType ==
  ASSUME NEW o \in SPMs, NEW ev \in Events
  PROVE  WithEvent(o, ev) \in SPMs
<1>1. ev.si \in SIRefs /\ 0 \in SIRefs
  BY ObjectsAssumption DEF SIs, SIRefs, Events
<1>2. PayloadStatus(ev) \in SIStatuses
  BY DEF PayloadStatus, Events, SIStatuses
<1>3. WithSuccess(o, ev) \in SPMs
  BY <1>1, <1>2 DEF WithSuccess, SPMs, SPMPhases
<1>4. WithFailure(o, ev) \in SPMs
  BY <1>1, <1>2 DEF WithFailure, SPMs, SPMPhases
<1> QED
  BY <1>3, <1>4 DEF WithEvent

\* And the parent's.
LEMMA ParentOutcomeType ==
  ASSUME NEW p \in PMs, NEW ev \in Events
  PROVE  ParentWithEvent(p, ev) \in PMs
<1>1. ev.si \in SIRefs
  BY ObjectsAssumption DEF SIs, SIRefs, Events
<1> QED
  BY <1>1 DEF ParentWithEvent, PMs, PMPhases

\* The watcher creates well-formed children.
LEMMA NewSPMType ==
  ASSUME NEW uid \in 0 .. MaxUID
  PROVE  NewSPM(uid) \in SPMs
  BY ObjectsAssumption DEF NewSPM, SPMs, SPMPhases, SIStatuses, SIRefs

\* The idle reconciler and handler are well-formed, and there is a replica.
LEMMA IdleTypes ==
  /\ NoSPM \in SPMs
  /\ NewPM \in PMs /\ NoPM \in PMs
  /\ IdleReconciler \in ReconcilerStates
  /\ IdleHook \in HookStates
<1>1. 0 \in 0 .. MaxUID /\ 0 \in SIRefs /\ 1 \in SIs
  BY ObjectsAssumption DEF SIRefs, SIs
<1>2. NoSPM \in SPMs
  BY <1>1, NewSPMType DEF NoSPM
<1>3. NewPM \in PMs /\ NoPM \in PMs
  BY <1>1 DEF NewPM, NoPM, PMs, PMPhases
<1>4. IdleReconciler \in ReconcilerStates
  BY <1>1, <1>2 DEF IdleReconciler, ReconcilerPCs, ReconcilerStates
<1>5. IdleHook \in HookStates
  BY <1>1, EventType, SetupAssumption DEF IdleHook, HookPCs, HookStates
<1> QED
  BY <1>2, <1>3, <1>4, <1>5

-----------------------------------------------------------------------------
(* Type correctness                                                         *)

\* The initial state is well-typed.
LEMMA InitType == Init => TypeOK
<1> SUFFICES ASSUME Init PROVE TypeOK
  OBVIOUS
<1> USE ObjectsAssumption, SetupAssumption
<1>1. pm \in PMs /\ spm \in SPMs /\ recon \in ReconcilerStates
  BY IdleTypes DEF Init
<1>2. seen \in [Replicas -> [pm : PMs, spm : SPMs]]
  BY IdleTypes DEF Init
<1>3. hook \in [Requests -> HookStates]
  BY IdleTypes DEF Init
<1> QED
  BY <1>1, <1>2, <1>3 DEF Init, TypeOK

\* Every step keeps every variable well-typed.
LEMMA TypeStep == TypeOK /\ [Next]_vars => TypeOK'
<1> SUFFICES ASSUME TypeOK, [Next]_vars PROVE TypeOK'
  OBVIOUS
<1> USE ObjectsAssumption, SetupAssumption
    DEF kubeVars, stripeVars, clientVars, hookVars
<1>1. CASE CreateChild
  <2>1. created + 1 \in 0 .. MaxUID
    BY <1>1 DEF CreateChild, TypeOK
  <2>2. spm' \in SPMs
    BY <1>1, <2>1, NewSPMType DEF CreateChild
  <2> QED
    BY <1>1, <2>1, <2>2 DEF CreateChild, TypeOK
<1>2. CASE DeleteSPM
  <2>1. spm' \in SPMs
    BY <1>2, IdleTypes DEF DeleteSPM, Deleted, TypeOK, SPMs
  <2> QED
    BY <1>2, <2>1 DEF DeleteSPM, TypeOK
<1>3. CASE DeletePM
  BY <1>3, IdleTypes DEF DeletePM, TypeOK
<1>4. CASE CollectGarbage
  <2>1. spm' \in SPMs
    BY <1>4, IdleTypes DEF CollectGarbage, Deleted, TypeOK, SPMs
  <2> QED
    BY <1>4, <2>1 DEF CollectGarbage, TypeOK
<1>5. ASSUME NEW r \in Replicas, SyncSPM(r) PROVE TypeOK'
  BY <1>5 DEF SyncSPM, TypeOK
<1>6. ASSUME NEW r \in Replicas, SyncPM(r) PROVE TypeOK'
  BY <1>6 DEF SyncPM, TypeOK
<1>7. ASSUME NEW r \in Replicas, Crash(r) PROVE TypeOK'
  <2>1. hook' \in [Requests -> HookStates]
    BY <1>7, IdleTypes DEF Crash, TypeOK
  <2>2. recon' \in ReconcilerStates
        /\ queue' \in {"empty", "now", "later"}
    BY <1>7, IdleTypes DEF Crash, TypeOK
  <2> QED
    BY <1>7, <2>1, <2>2 DEF Crash, Fails, TypeOK
<1>8. CASE TimerFires \/ Resync
  BY <1>8 DEF TimerFires, Resync, TypeOK
<1>9. CASE Lapse
  BY <1>9 DEF Lapse, TypeOK, SIs
<1>10. ASSUME NEW i \in SIs, Confirm(i) PROVE TypeOK'
  BY <1>10, EventType DEF Confirm, TypeOK
<1>11. ASSUME NEW i \in SIs, Decline(i) PROVE TypeOK'
  BY <1>11, EventType DEF Decline, TypeOK
<1>12. CASE StartReconcile
  <2>1. /\ Entry(seen[Leader].spm) \in ReconcilerPCs \ {"publish"}
        /\ seen[Leader].spm \in SPMs
    BY <1>12 DEF Entry, ReconcilerPCs, TypeOK
  <2>2. recon' \in ReconcilerStates
    BY <1>12, <2>1, IdleTypes DEF StartReconcile, ReconcilerStates, SIRefs
  <2> QED
    BY <1>12, <2>2 DEF StartReconcile, TypeOK
<1>13. ASSUME NEW i \in SIRefs, CancelUpstream(i)
       PROVE  /\ intent' \in [SIs -> {"none", "open", "succeeded", "canceled"}]
              /\ pending' \in SUBSET Events
  <2>1. CASE i # 0 /\ intent[i] = "open"
    <3>1. i \in SIs
      BY <2>1 DEF SIs, SIRefs
    <3> QED
      BY <1>13, <2>1, <3>1, EventType DEF CancelUpstream, TypeOK
  <2>2. CASE ~(i # 0 /\ intent[i] = "open")
    BY <1>13, <2>2 DEF CancelUpstream, TypeOK
  <2> QED
    BY <2>1, <2>2
<1>14. recon.base.si \in SIRefs /\ recon.base \in SPMs
  BY DEF TypeOK, ReconcilerStates, SPMs
<1>15. ASSUME NEW pc \in ReconcilerPCs \ {"publish"}, GoTo(pc)
       PROVE  recon' \in ReconcilerStates
  BY <1>15 DEF GoTo, TypeOK, ReconcilerStates
<1>16. ASSUME RequeueAfter \/ Requeue \/ Done
       PROVE  /\ recon' \in ReconcilerStates
              /\ queue' \in {"empty", "now", "later"}
  BY <1>16, IdleTypes DEF RequeueAfter, Requeue, Done, TypeOK
<1>17. CASE AddFinalizer
  <2>1. [spm EXCEPT !.finalizer = TRUE] \in SPMs /\ spm \in SPMs
    BY DEF TypeOK, SPMs
  <2> QED
    BY <1>17, <1>16, <2>1 DEF AddFinalizer, TypeOK
<1>18. CASE RetireIntent
  <2>1. "mint" \in ReconcilerPCs \ {"publish"}
    BY DEF ReconcilerPCs
  <2> QED
    BY <1>13, <1>14, <1>15, <1>18, <2>1 DEF RetireIntent, TypeOK
<1>19. CASE MintIntent
  <2>1. /\ recon' \in ReconcilerStates
        /\ queue' \in {"empty", "now", "later"}
        /\ intent' \in [SIs -> {"none", "open", "succeeded", "canceled"}]
    <3>1. CASE Done /\ UNCHANGED intent
      BY <1>16, <3>1 DEF TypeOK
    <3>2. CASE Requeue /\ UNCHANGED intent
      BY <1>16, <3>2 DEF TypeOK
    <3>3. ASSUME NEW i \in SIs,
                 intent' = [intent EXCEPT ![i] = "open"],
                 recon' = [recon EXCEPT !.pc = "publish", !.si = i],
                 UNCHANGED queue
          PROVE  /\ recon' \in ReconcilerStates
                 /\ queue' \in {"empty", "now", "later"}
                 /\ intent' \in [SIs -> {"none", "open", "succeeded", "canceled"}]
      <4>1. i \in SIRefs /\ i # 0
        BY DEF SIs, SIRefs
      <4> QED
        BY <3>3, <4>1 DEF TypeOK, ReconcilerStates, ReconcilerPCs
    <3> QED
      BY <1>19, <3>1, <3>2, <3>3 DEF MintIntent
  <2> QED
    BY <1>19, <2>1 DEF MintIntent, TypeOK
<1>20. CASE PublishIntent
  <2>1. CASE spm.uid # 0
    <3>1. recon.si \in SIs
      BY <1>20 DEF PublishIntent, At, TypeOK, ReconcilerStates, SIs, SIRefs
    <3>2. spm' \in SPMs
      BY <1>14, <1>20, <2>1, <3>1, MergeSPMType, AwaitingType
         DEF PublishIntent, TypeOK
    <3>3. recon' \in ReconcilerStates
      BY <1>20, <2>1, IdleTypes DEF PublishIntent, ReconcilerStates, ReconcilerPCs
    <3> QED
      BY <1>20, <2>1, <3>1, <3>2, <3>3 DEF PublishIntent, TypeOK
  <2>2. CASE spm.uid = 0
    BY <1>16, <1>20, <2>2 DEF PublishIntent, TypeOK
  <2> QED
    BY <2>1, <2>2
<1>21. CASE ParentAwaits
  <2>1. pm' \in PMs
    BY <1>21 DEF ParentAwaits, TypeOK, PMs, PMPhases
  <2> QED
    BY <1>16, <1>21, <2>1 DEF ParentAwaits, TypeOK
<1>22. CASE CancelIntent
  <2>1. {"detach", "failed"} \subseteq ReconcilerPCs \ {"publish"}
    BY DEF ReconcilerPCs
  <2>2. /\ recon' \in ReconcilerStates
        /\ intent' \in [SIs -> {"none", "open", "succeeded", "canceled"}]
        /\ pending' \in SUBSET Events
    BY <1>13, <1>14, <1>15, <1>22, <2>1 DEF CancelIntent, TypeOK
  <2> QED
    BY <1>22, <2>2 DEF CancelIntent, TypeOK
<1>23. CASE DetachCard
  <2>1. {"release", "failed"} \subseteq ReconcilerPCs \ {"publish"}
    BY DEF ReconcilerPCs
  <2> QED
    BY <1>15, <1>23, <2>1 DEF DetachCard, TypeOK
<1>24. CASE ReleaseFinalizer
  BY <1>16, <1>24, IdleTypes DEF ReleaseFinalizer, TypeOK
<1>25. CASE RecordAttempt
  <2>1. recon.base.attempts \in 0 .. MaxAttempts - 1
    BY <1>14 DEF SPMs
  <2>2. Attempts \in 0 .. MaxAttempts - 1
    BY <1>25, <2>1 DEF RecordAttempt, OutOfAttempts, Attempts
  <2>3. spm' \in SPMs
    BY <1>25, <2>2 DEF RecordAttempt, TypeOK, SPMs
  <2> QED
    BY <1>16, <1>25, <2>3 DEF RecordAttempt, TypeOK
<1>26. CASE NoteIncomplete
  BY <1>26 DEF NoteIncomplete, ReconcilerStates, ReconcilerPCs, TypeOK
<1>27. CASE Surrender
  <2>1. spm.uid \in 0 .. MaxUID
    BY DEF TypeOK, SPMs
  <2>2. spm' \in SPMs /\ surrendered' \in SUBSET (0 .. MaxUID)
    BY <1>27, <2>1, IdleTypes DEF Surrender, TypeOK
  <2>3. recon' \in ReconcilerStates /\ queue' \in {"empty", "now", "later"}
    BY <1>16, <1>27 DEF Surrender
  <2>4. UNCHANGED <<pm, created, seen, hookVars, stripeVars, clientVars, faults>>
    BY <1>27 DEF Surrender
  <2> QED
    BY <2>2, <2>3, <2>4 DEF TypeOK
<1>28. CASE ReconcilerFault
  <2>1. "letgo" \in ReconcilerPCs \ {"publish"}
    BY DEF ReconcilerPCs
  <2>2. recon' \in ReconcilerStates /\ queue' \in {"empty", "now", "later"}
    <3>1. CASE GoTo("letgo") /\ UNCHANGED queue
      BY <1>15, <2>1, <3>1 DEF TypeOK
    <3>2. CASE RequeueAfter \/ Requeue
      BY <1>16, <3>2
    <3> QED
      BY <1>28, <3>1, <3>2 DEF ReconcilerFault
  <2>3. faults' \in 0 .. MaxFaults
    <3>1. faults < MaxFaults /\ faults' = faults + 1
      BY <1>28 DEF ReconcilerFault, Fails
    <3> QED
      BY <3>1 DEF TypeOK
  <2> QED
    BY <1>28, <2>2, <2>3 DEF ReconcilerFault, TypeOK
<1>29. ASSUME NEW ev \in Events, Acknowledge(ev) \/ Forget(ev)
       PROVE  pending' \in SUBSET Events /\ dedup' \in [Replicas -> SUBSET Events]
  BY <1>29 DEF Acknowledge, Forget, TypeOK
<1>30. ASSUME NEW q \in Requests, RecordOutcome(q) PROVE TypeOK'
  <2>1. /\ hook[q].ev \in Events
        /\ hook[q].replica \in Replicas /\ seen[hook[q].replica].spm \in SPMs
    BY DEF TypeOK, HookStates
  <2>2. spm' \in SPMs
    BY <1>30, <2>1, MergeSPMType, OutcomeType DEF RecordOutcome, TypeOK
  <2>3. hook' \in [Requests -> HookStates]
    <3>1. [hook[q] EXCEPT !.pc = "project"] \in HookStates
      BY DEF TypeOK, HookStates, HookPCs
    <3> QED
      BY <1>30, <3>1, IdleTypes DEF RecordOutcome, TypeOK
  <2>4. pending' \in SUBSET Events /\ dedup' \in [Replicas -> SUBSET Events]
    BY <1>29, <1>30, <2>1 DEF RecordOutcome, TypeOK
  <2> QED
    BY <1>30, <2>2, <2>3, <2>4 DEF RecordOutcome, TypeOK
<1>31. ASSUME NEW q \in Requests, ProjectOutcome(q) PROVE TypeOK'
  <2>1. /\ hook[q].ev \in Events
        /\ hook[q].replica \in Replicas /\ seen[hook[q].replica].pm \in PMs
    BY DEF TypeOK, HookStates
  <2>2. pm' \in PMs
    BY <1>31, <2>1, MergePMType, ParentOutcomeType DEF ProjectOutcome, TypeOK
  <2>3. hook' \in [Requests -> HookStates]
    BY <1>31, IdleTypes DEF ProjectOutcome, TypeOK
  <2>4. pending' \in SUBSET Events /\ dedup' \in [Replicas -> SUBSET Events]
    BY <1>29, <1>31, <2>1 DEF ProjectOutcome, TypeOK
  <2> QED
    BY <1>31, <2>2, <2>3, <2>4 DEF ProjectOutcome, TypeOK
<1>32. ASSUME NEW q \in Requests, HookFault(q) PROVE TypeOK'
  <2>1. hook' \in [Requests -> HookStates]
    BY <1>32, IdleTypes DEF HookFault, TypeOK
  <2>2. faults' \in 0 .. MaxFaults
    <3>1. faults < MaxFaults /\ faults' = faults + 1
      BY <1>32 DEF HookFault, Fails
    <3> QED
      BY <3>1 DEF TypeOK
  <2> QED
    BY <1>32, <2>1, <2>2 DEF HookFault, TypeOK
<1>33. ASSUME NEW q \in Requests, NEW r \in Replicas, NEW ev \in pending,
              Receive(q, r, ev)
       PROVE  TypeOK'
  <2>1. ev \in Events
    BY DEF TypeOK
  <2> QED
    BY <1>33, <2>1 DEF Receive, HookStates, HookPCs, TypeOK
<1>34. ASSUME NEW r \in Replicas, NEW ev \in pending, DropDuplicate(r, ev)
       PROVE  TypeOK'
  <2>1. ev \in Events
    BY DEF TypeOK
  <2> QED
    BY <1>29, <1>34, <2>1 DEF DropDuplicate, TypeOK
<1>35. CASE UNCHANGED vars
  BY <1>35 DEF vars, TypeOK
<1> QED
  BY <1>1, <1>2, <1>3, <1>4, <1>5, <1>6, <1>7, <1>8, <1>9, <1>10, <1>11,
     <1>12, <1>17, <1>18, <1>19, <1>20, <1>21, <1>22, <1>23, <1>24, <1>25,
     <1>26, <1>27, <1>28, <1>30, <1>31, <1>32, <1>33, <1>34, <1>35
     DEF Next, ReconcilerStep, HookStep

\* Every variable holds a value of its kind (the statuses of the CRDs and the
\* program counters), however many replicas, requests and failures there are.
THEOREM TypeCorrect == Spec => []TypeOK
  BY InitType, TypeStep, PTL DEF Spec

-----------------------------------------------------------------------------
(* A confirmed card stays confirmed                                         *)

\* Stripe never takes a confirmation back: neither the cancelation of an intent
\* nor the creation of another one changes an intent that has succeeded.
LEMMA SuccessIsFinal ==
  ASSUME TypeOK, [Next]_vars, NEW i \in SIs, intent[i] = "succeeded"
  PROVE  intent'[i] = "succeeded"
<1> USE DEF stripeVars, TypeOK
<1>1. ASSUME NEW j, CancelUpstream(j) PROVE intent'[i] = "succeeded"
  BY <1>1 DEF CancelUpstream
<1>2. CASE RetireIntent
  BY <1>1, <1>2 DEF RetireIntent
<1>3. CASE CancelIntent
  BY <1>1, <1>3 DEF CancelIntent
<1>4. CASE MintIntent
  BY <1>4 DEF MintIntent
<1>5. ASSUME NEW j \in SIs, Confirm(j) PROVE intent'[i] = "succeeded"
  BY <1>5 DEF Confirm
<1>6. CASE UNCHANGED intent
  BY <1>6
<1>7. \/ UNCHANGED intent \/ RetireIntent \/ CancelIntent \/ MintIntent
      \/ \E j \in SIs : Confirm(j)
  BY DEF Next, ReconcilerStep, HookStep, vars, CreateChild, DeleteSPM, DeletePM,
     CollectGarbage, SyncSPM, SyncPM, Crash, TimerFires, Resync, Lapse, Decline,
     StartReconcile, AddFinalizer, PublishIntent, ParentAwaits, DetachCard,
     ReleaseFinalizer, RecordAttempt, NoteIncomplete, Surrender, ReconcilerFault,
     RecordOutcome, ProjectOutcome, HookFault, Receive, DropDuplicate
<1> QED
  BY <1>2, <1>3, <1>4, <1>5, <1>6, <1>7

\* The pm_ id and the uid after a merge patch.
LEMMA MergedIdentity ==
  ASSUME NEW base \in SPMs, NEW new \in SPMs, NEW current \in SPMs
  PROVE  /\ MergeSPM(base, new, current).uid = current.uid
         /\ MergeSPM(base, new, current).pmID \in {new.pmID, current.pmID}
  BY DEF MergeSPM, Merge, SPMs

\* The card after an event is the one of before, or the confirmed one.
LEMMA RecordedCard ==
  ASSUME NEW o \in SPMs, NEW ev \in Events
  PROVE  WithEvent(o, ev).pmID = IF ev.type = "succeeded" THEN ev.si ELSE o.pmID
  BY DEF WithEvent, WithSuccess, WithFailure, SPMs

\* A freshly minted SetupIntent does not touch the recorded card.
LEMMA AwaitedCard ==
  ASSUME NEW o \in SPMs, NEW i \in SIs
  PROVE  WithSetupIntent(o, i).pmID = o.pmID
  BY DEF WithSetupIntent, SPMs
-----------------------------------------------------------------------------
(* The inductive invariant                                                  *)

\* Initially no card is named and nothing is in flight.
LEMMA InitConfirmation == Init => ConfirmationInv
<1> SUFFICES ASSUME Init PROVE ConfirmationInv
  OBVIOUS
<1> USE SetupAssumption
<1>1. NoSPM.pmID = 0 /\ NewPM.card = 0 /\ NewPM.phase = "Pending"
  BY DEF NoSPM, NewSPM, NewPM
<1>2. recon.base.pmID = 0 /\ recon.pc = "idle"
  BY <1>1 DEF Init, IdleReconciler
<1>3. CopiesAreConfirmed
  BY <1>1, <1>2 DEF Init, CopiesAreConfirmed, Confirmed
<1>4. \A q \in Requests : hook[q].pc = "idle"
  BY DEF Init, IdleHook
<1>5. EventsAreTrue
  BY <1>4 DEF Init, EventsAreTrue
<1>6. ShownCardsStay
  BY <1>1 DEF Init, ShownCardsStay
<1>7. DetachedBeforeRelease
  BY <1>2 DEF DetachedBeforeRelease, At
<1> QED
  BY <1>3, <1>5, <1>6, <1>7, InitType DEF ConfirmationInv

\* What a request handles is what it handled before, or was delivered just now.
LEMMA HandlersGotTheirEvent ==
  ASSUME TypeOK, [Next]_vars, NEW q \in Requests, hook'[q].pc # "idle"
  PROVE  \/ hook[q].pc # "idle" /\ hook'[q].ev = hook[q].ev
         \/ hook'[q].ev \in pending
<1> USE DEF hookVars
<1> DEFINE Old == \/ hook[q].pc # "idle" /\ hook'[q].ev = hook[q].ev
                  \/ hook'[q].ev \in pending
<1>1. CASE UNCHANGED hook
  BY <1>1
<1>2. IdleHook.pc = "idle"
  BY DEF IdleHook
<1>3. ASSUME NEW p \in Requests, hook' = [hook EXCEPT ![p] = IdleHook]
      PROVE  Old
  BY <1>2, <1>3 DEF TypeOK
<1>4. ASSUME NEW p \in Requests, RecordOutcome(p) PROVE Old
  BY <1>2, <1>4 DEF RecordOutcome, TypeOK, HookStates
<1>5. ASSUME NEW p \in Requests, NEW r \in Replicas, NEW ev \in pending,
             Receive(p, r, ev)
      PROVE  Old
  BY <1>5 DEF Receive, TypeOK
<1>6. ASSUME NEW r \in Replicas, Crash(r) PROVE Old
  BY <1>2, <1>6 DEF Crash, TypeOK
<1>7. \/ UNCHANGED hook
      \/ \E p \in Requests : hook' = [hook EXCEPT ![p] = IdleHook]
      \/ \E p \in Requests : RecordOutcome(p)
      \/ \E p \in Requests, r \in Replicas : \E ev \in pending : Receive(p, r, ev)
      \/ \E r \in Replicas : Crash(r)
  BY DEF Next, ReconcilerStep, HookStep, vars, CreateChild, DeleteSPM,
     DeletePM, CollectGarbage, SyncSPM, SyncPM, TimerFires, Resync, Lapse, Confirm,
     Decline, StartReconcile, AddFinalizer, RetireIntent, MintIntent,
     PublishIntent, ParentAwaits, CancelIntent, DetachCard,
     ReleaseFinalizer, RecordAttempt, NoteIncomplete, Surrender,
     ReconcilerFault, ProjectOutcome, HookFault, DropDuplicate
<1> QED
  BY <1>1, <1>3, <1>4, <1>5, <1>6, <1>7

\* Only events of confirmed SetupIntents say so.
LEMMA EventsStep ==
  ASSUME TypeOK, EventsAreTrue, [Next]_vars
  PROVE  EventsAreTrue'
<1> USE DEF kubeVars, stripeVars, clientVars, hookVars
<1>1. TypeOK'
  BY TypeStep
<1>2. ASSUME NEW ev \in pending', ev.type = "succeeded"
      PROVE  intent'[ev.si] = "succeeded"
  <2>1. ev \in Events /\ ev.si \in SIs
    BY <1>1, <1>2 DEF TypeOK, Events
  <2>2. CASE ev \in pending
    BY <1>2, <2>1, <2>2, SuccessIsFinal DEF EventsAreTrue
  <2>3. ASSUME NEW i \in SIs, Confirm(i), ev \notin pending
        PROVE  intent'[ev.si] = "succeeded"
    BY <1>2, <2>3 DEF Confirm, Event, TypeOK
  <2>4. ASSUME NEW i, CancelUpstream(i), ev \notin pending
        PROVE  FALSE
    BY <1>2, <2>4 DEF CancelUpstream, Event
  <2>5. ASSUME NEW i, Decline(i), ev \notin pending
        PROVE  FALSE
    BY <1>2, <2>5 DEF Decline, Event
  <2>6. CASE ev \notin pending
    <3>1. \/ \E i \in SIs : Confirm(i) \/ Decline(i)
          \/ \E i : CancelUpstream(i)
      BY <1>2, <2>6
         DEF Next, ReconcilerStep, HookStep, vars, CreateChild, DeleteSPM,
         DeletePM, CollectGarbage, SyncSPM, SyncPM, Crash, TimerFires, Resync, Lapse,
         StartReconcile, AddFinalizer, RetireIntent, MintIntent, PublishIntent,
         ParentAwaits, CancelIntent, DetachCard, ReleaseFinalizer, RecordAttempt,
         NoteIncomplete, Surrender, ReconcilerFault, RecordOutcome,
         ProjectOutcome, HookFault, Receive, DropDuplicate, Acknowledge, Forget
    <3> QED
      BY <2>3, <2>4, <2>5, <2>6, <3>1
  <2> QED
    BY <2>2, <2>6
<1>3. ASSUME NEW q \in Requests,
             hook'[q].pc # "idle", hook'[q].ev.type = "succeeded"
      PROVE  intent'[hook'[q].ev.si] = "succeeded"
  <2>1. hook'[q].ev.si \in SIs
    BY <1>1, <1>3 DEF TypeOK, HookStates, Events
  <2>2. CASE hook[q].pc # "idle" /\ hook'[q].ev = hook[q].ev
    BY <1>3, <2>1, <2>2, SuccessIsFinal DEF EventsAreTrue
  <2>3. CASE hook'[q].ev \in pending
    BY <1>3, <2>1, <2>3, SuccessIsFinal DEF EventsAreTrue
  <2>4. \/ hook[q].pc # "idle" /\ hook'[q].ev = hook[q].ev
        \/ hook'[q].ev \in pending
    BY <1>3, HandlersGotTheirEvent
  <2> QED
    BY <2>2, <2>3, <2>4
<1> QED
  BY <1>2, <1>3 DEF EventsAreTrue

\* A copy of an object is read from another copy, or patched with the outcome of
\* an event: neither brings in the card of an unconfirmed SetupIntent.
LEMMA CopiesStep ==
  ASSUME TypeOK, EventsAreTrue, CopiesAreConfirmed, [Next]_vars
  PROVE  CopiesAreConfirmed'
<1> USE SetupAssumption DEF kubeVars, stripeVars, clientVars, hookVars
<1> DEFINE Kept == /\ Confirmed(pm'.card) /\ Confirmed(spm'.pmID)
                   /\ Confirmed(recon'.base.pmID)
                   /\ \A r \in Replicas : /\ Confirmed(seen'[r].pm.card)
                                          /\ Confirmed(seen'[r].spm.pmID)
<1>1. TypeOK'
  BY TypeStep
<1>2. /\ NoSPM.pmID = 0 /\ NoPM.card = 0 /\ IdleReconciler.base.pmID = 0
      /\ \A uid \in 0 .. MaxUID : NewSPM(uid).pmID = 0
  BY DEF NoSPM, NewSPM, NoPM, NewPM, IdleReconciler
<1>3. Confirmed(0)
  BY DEF Confirmed
<1>4. Kept => CopiesAreConfirmed'
  <2>1. ASSUME NEW c \in SIRefs, Confirmed(c) PROVE c # 0 => intent'[c] = "succeeded"
    <3>1. c = 0 \/ c \in SIs
      BY DEF SIRefs, SIs
    <3> QED
      BY <2>1, <3>1, SuccessIsFinal DEF Confirmed
  <2>2. /\ pm'.card \in SIRefs /\ spm'.pmID \in SIRefs
        /\ recon'.base.pmID \in SIRefs
        /\ \A r \in Replicas : /\ seen'[r].pm.card \in SIRefs
                               /\ seen'[r].spm.pmID \in SIRefs
    BY <1>1 DEF TypeOK, PMs, SPMs, ReconcilerStates
  <2> QED
    BY <2>1, <2>2 DEF CopiesAreConfirmed, Confirmed
<1> SUFFICES Kept
  BY <1>4
<1>5. CASE UNCHANGED <<pm, spm, seen, recon>>
  BY <1>5 DEF CopiesAreConfirmed
<1>6. CASE CreateChild \/ DeleteSPM \/ DeletePM \/ CollectGarbage
  <2>1. spm'.pmID \in {0, spm.pmID} /\ pm'.card \in {0, pm.card}
    <3>1. ASSUME CreateChild PROVE spm'.pmID = 0 /\ pm' = pm
      BY <3>1 DEF CreateChild, NewSPM
    <3>2. Deleted(spm).pmID \in {0, spm.pmID}
      BY <1>2 DEF Deleted, TypeOK, SPMs
    <3>3. ASSUME DeleteSPM \/ CollectGarbage PROVE spm' = Deleted(spm) /\ pm' = pm
      BY <3>3 DEF DeleteSPM, CollectGarbage
    <3>4. ASSUME DeletePM PROVE pm'.card = 0 /\ spm' = spm
      BY <1>2, <3>4 DEF DeletePM
    <3> QED
      BY <1>6, <3>1, <3>2, <3>3, <3>4
  <2> QED
    BY <1>3, <1>6, <2>1 DEF CreateChild, DeleteSPM, DeletePM, CollectGarbage,
                            CopiesAreConfirmed
<1>7. ASSUME NEW r \in Replicas, SyncSPM(r) \/ SyncPM(r) PROVE Kept
  BY <1>7 DEF SyncSPM, SyncPM, CopiesAreConfirmed, TypeOK
<1>8. ASSUME NEW r \in Replicas, Crash(r) PROVE Kept
  BY <1>2, <1>3, <1>8 DEF Crash, CopiesAreConfirmed, TypeOK
<1>9. CASE /\ UNCHANGED <<pm, spm, seen>>
           /\ recon'.base \in {NoSPM, recon.base, seen[Leader].spm, spm}
  BY <1>2, <1>3, <1>9 DEF CopiesAreConfirmed
<1>10. CASE StartReconcile
  <2>1. recon'.base \in {NoSPM, seen[Leader].spm}
    BY <1>10 DEF StartReconcile, IdleReconciler
  <2> QED
    BY <1>9, <1>10, <2>1 DEF StartReconcile
<1>11. ASSUME Done \/ Requeue \/ RequeueAfter PROVE recon'.base = NoSPM
  BY <1>11 DEF Done, Requeue, RequeueAfter, IdleReconciler
<1>12. ASSUME NEW pc, GoTo(pc) PROVE recon'.base = recon.base
  BY <1>12 DEF GoTo, TypeOK, ReconcilerStates
<1>13. CASE RetireIntent \/ CancelIntent \/ DetachCard
  <2>1. recon'.base = recon.base
    BY <1>12, <1>13 DEF RetireIntent, CancelIntent, DetachCard
  <2> QED
    BY <1>9, <1>13, <2>1 DEF RetireIntent, CancelIntent, DetachCard
<1>14. CASE MintIntent
  <2>1. recon'.base \in {NoSPM, recon.base}
    BY <1>11, <1>14 DEF MintIntent, TypeOK, ReconcilerStates
  <2> QED
    BY <1>9, <1>14, <2>1 DEF MintIntent
<1>15. CASE NoteIncomplete
  <2>1. recon'.base \in {recon.base, spm}
    BY <1>15 DEF NoteIncomplete, TypeOK, ReconcilerStates
  <2> QED
    BY <1>9, <1>15, <2>1 DEF NoteIncomplete
<1>16. CASE ReconcilerFault
  <2>1. recon'.base \in {NoSPM, recon.base}
    BY <1>11, <1>12, <1>16 DEF ReconcilerFault
  <2> QED
    BY <1>9, <1>16, <2>1 DEF ReconcilerFault
<1>17. CASE AddFinalizer \/ ReleaseFinalizer \/ RecordAttempt \/ Surrender
  <2>1. recon'.base = NoSPM
    BY <1>11, <1>17 DEF AddFinalizer, ReleaseFinalizer, RecordAttempt, Surrender
  <2>2. spm'.pmID \in {0, spm.pmID}
    BY <1>2, <1>17
       DEF AddFinalizer, ReleaseFinalizer, RecordAttempt, Surrender, TypeOK, SPMs
  <2>3. UNCHANGED <<pm, seen>>
    BY <1>17 DEF AddFinalizer, ReleaseFinalizer, RecordAttempt, Surrender
  <2> QED
    BY <1>2, <1>3, <2>1, <2>2, <2>3 DEF CopiesAreConfirmed
<1>18. CASE PublishIntent
  <2>1. recon'.base = NoSPM
    BY <1>11, <1>18 DEF PublishIntent, IdleReconciler
  <2>2. Confirmed(spm'.pmID)
    <3>1. recon.base \in SPMs /\ recon.si \in SIs
      BY <1>18 DEF PublishIntent, At, TypeOK, ReconcilerStates, SIs, SIRefs
    <3>2. WithSetupIntent(recon.base, recon.si) \in SPMs
      BY <3>1, AwaitingType
    <3>3. spm' = spm \/ spm'.pmID \in {recon.base.pmID, spm.pmID}
      BY <1>18, <3>1, <3>2, MergedIdentity, AwaitedCard DEF PublishIntent, TypeOK
    <3> QED
      BY <3>3 DEF CopiesAreConfirmed
  <2> QED
    BY <1>2, <1>3, <1>18, <2>1, <2>2 DEF PublishIntent, CopiesAreConfirmed
<1>19. CASE ParentAwaits
  <2>1. recon'.base = NoSPM
    BY <1>11, <1>19 DEF ParentAwaits
  <2>2. pm'.card = pm.card
    BY <1>19 DEF ParentAwaits, TypeOK, PMs
  <2> QED
    BY <1>2, <1>3, <1>19, <2>1, <2>2 DEF ParentAwaits, CopiesAreConfirmed
<1>20. ASSUME NEW q \in Requests, RecordOutcome(q) PROVE Kept
  <2> DEFINE base == seen[hook[q].replica].spm
  <2>1. hook[q].ev \in Events /\ hook[q].replica \in Replicas /\ base \in SPMs
    BY DEF TypeOK, HookStates
  <2>2. WithEvent(base, hook[q].ev) \in SPMs
    BY <2>1, OutcomeType
  <2>3. Confirmed(WithEvent(base, hook[q].ev).pmID)
    BY <1>20, <2>1, RecordedCard
       DEF RecordOutcome, EventsAreTrue, CopiesAreConfirmed, Confirmed
  <2>4. spm' = spm \/ spm'.pmID \in {WithEvent(base, hook[q].ev).pmID, spm.pmID}
    BY <1>20, <2>1, <2>2, MergedIdentity DEF RecordOutcome, TypeOK
  <2>5. UNCHANGED <<pm, seen, recon>>
    BY <1>20 DEF RecordOutcome
  <2> QED
    BY <2>3, <2>4, <2>5 DEF CopiesAreConfirmed
<1>21. ASSUME NEW q \in Requests, ProjectOutcome(q) PROVE Kept
  <2> DEFINE base == seen[hook[q].replica].pm
  <2>1. hook[q].ev \in Events /\ hook[q].replica \in Replicas /\ base \in PMs
    BY DEF TypeOK, HookStates
  <2>2. Confirmed(ParentWithEvent(base, hook[q].ev).card)
    BY <1>21, <2>1
       DEF ProjectOutcome, ParentWithEvent, PMs, EventsAreTrue,
           CopiesAreConfirmed, Confirmed
  <2>3. \/ pm' = pm
        \/ pm'.card \in {ParentWithEvent(base, hook[q].ev).card, pm.card}
    BY <1>21, <2>1 DEF ProjectOutcome, MergePM, Merge, TypeOK, PMs
  <2>4. UNCHANGED <<spm, seen, recon>>
    BY <1>21 DEF ProjectOutcome
  <2> QED
    BY <2>2, <2>3, <2>4 DEF CopiesAreConfirmed
<1>22. \/ UNCHANGED <<pm, spm, seen, recon>>
       \/ CreateChild \/ DeleteSPM \/ DeletePM \/ CollectGarbage
       \/ \E r \in Replicas : SyncSPM(r) \/ SyncPM(r) \/ Crash(r)
       \/ ReconcilerStep \/ ReconcilerFault
       \/ \E q \in Requests : RecordOutcome(q) \/ ProjectOutcome(q)
  BY DEF Next, HookStep, vars, TimerFires, Resync, Lapse, Confirm, Decline, HookFault,
     Receive, DropDuplicate
<1> QED
  BY <1>4, <1>5, <1>6, <1>7, <1>8, <1>10, <1>13, <1>14, <1>15, <1>16, <1>17,
     <1>18, <1>19, <1>20, <1>21, <1>22 DEF ReconcilerStep

\* An Active parent shows a card: a projection that leaves the card alone was
\* computed from a copy that shows one, and then so does the parent.
LEMMA ShownStep ==
  ASSUME TypeOK, ShownCardsStay, [Next]_vars
  PROVE  ShownCardsStay'
<1> USE SetupAssumption DEF kubeVars, stripeVars, clientVars, hookVars
<1>1. CASE UNCHANGED <<pm, seen>>
  BY <1>1 DEF ShownCardsStay
<1>2. CASE DeletePM
  BY <1>2 DEF DeletePM, NoPM, NewPM, ShownCardsStay
<1>3. ASSUME NEW r \in Replicas, SyncSPM(r) PROVE ShownCardsStay'
  BY <1>3 DEF SyncSPM, ShownCardsStay, TypeOK
<1>4. ASSUME NEW r \in Replicas, SyncPM(r) PROVE ShownCardsStay'
  BY <1>4 DEF SyncPM, ShownCardsStay, TypeOK
<1>5. ASSUME NEW r \in Replicas, Crash(r) PROVE ShownCardsStay'
  BY <1>5 DEF Crash, ShownCardsStay, TypeOK
<1>6. CASE ParentAwaits
  <2>1. pm' = pm \/ pm' = [pm EXCEPT !.phase = "Awaiting"]
    BY <1>6 DEF ParentAwaits
  <2>2. UNCHANGED seen
    BY <1>6 DEF ParentAwaits
  <2> QED
    BY <2>1, <2>2 DEF ShownCardsStay, TypeOK, PMs
<1>7. ASSUME NEW q \in Requests, ProjectOutcome(q) PROVE ShownCardsStay'
  <2> DEFINE ev == hook[q].ev
             base == seen[hook[q].replica].pm
  <2>1. /\ ev \in Events /\ ev.si # 0
        /\ hook[q].replica \in Replicas /\ base \in PMs /\ pm \in PMs
    BY DEF TypeOK, HookStates, Events, SIs
  <2>2. UNCHANGED seen
    BY <1>7 DEF ProjectOutcome
  <2>3. CASE UNCHANGED pm
    BY <1>1, <2>2, <2>3
  <2>4. CASE /\ base.exists /\ pm.exists
             /\ pm' = MergePM(base, ParentWithEvent(base, ev), pm)
    <3>1. pm'.card # 0 \/ (pm'.card = pm.card /\ pm'.phase = "Failed")
                       \/ (pm'.card = pm.card /\ pm'.phase = pm.phase)
      <4>1. CASE ev.type = "succeeded"
        <5>1. pm'.card = IF ev.si # base.card THEN ev.si ELSE pm.card
          BY <2>1, <2>4, <4>1 DEF MergePM, Merge, ParentWithEvent, PMs
        <5>2. base.card # 0 => pm.card # 0
          BY <2>1, <2>4 DEF ShownCardsStay
        <5> QED
          BY <2>1, <5>1, <5>2
      <4>2. CASE ev.type # "succeeded"
        BY <2>1, <2>4, <4>2 DEF MergePM, Merge, ParentWithEvent, PMs
      <4> QED
        BY <4>1, <4>2
    <3>2. pm.card # 0 => pm'.card # 0
      BY <3>1
    <3> QED
      BY <2>2, <2>4, <3>1, <3>2 DEF ShownCardsStay
  <2> QED
    BY <1>7, <2>3, <2>4 DEF ProjectOutcome
<1>8. \/ UNCHANGED <<pm, seen>> \/ DeletePM \/ ParentAwaits
      \/ \E r \in Replicas : SyncSPM(r) \/ SyncPM(r) \/ Crash(r)
      \/ \E q \in Requests : ProjectOutcome(q)
  BY DEF Next, ReconcilerStep, HookStep, vars, CreateChild, DeleteSPM,
     CollectGarbage, TimerFires, Resync, Lapse, Confirm, Decline, StartReconcile,
     AddFinalizer, RetireIntent, MintIntent, PublishIntent, CancelIntent,
     DetachCard, ReleaseFinalizer, RecordAttempt, NoteIncomplete, Surrender,
     ReconcilerFault, RecordOutcome, HookFault, Receive, DropDuplicate
<1> QED
  BY <1>1, <1>2, <1>3, <1>4, <1>5, <1>6, <1>7, <1>8

\* Between detach and the Update nothing attaches the card again: a card is only
\* attached by the confirmation of its own, still open SetupIntent.
LEMMA DetachedStep ==
  ASSUME TypeOK, CopiesAreConfirmed, DetachedBeforeRelease, [Next]_vars
  PROVE  DetachedBeforeRelease'
<1> USE SetupAssumption DEF kubeVars, stripeVars, clientVars, hookVars
<1>1. CASE recon'.pc # "release"
  BY <1>1 DEF DetachedBeforeRelease, At
<1>2. CASE UNCHANGED <<recon, attached>>
  BY <1>2 DEF DetachedBeforeRelease, At
<1>3. CASE DetachCard
  BY <1>3 DEF DetachCard, GoTo, DetachedBeforeRelease, At, TypeOK, ReconcilerStates
<1>4. ASSUME NEW i \in SIs, Confirm(i) PROVE DetachedBeforeRelease'
  <2>1. intent[i] = "open" /\ attached' = attached \union {i} /\ UNCHANGED recon
    BY <1>4 DEF Confirm
  <2>2. recon.base.pmID # i
    BY <2>1 DEF CopiesAreConfirmed, Confirmed, SIs
  <2> QED
    BY <2>1, <2>2 DEF DetachedBeforeRelease, At
<1>5. ASSUME Done \/ Requeue \/ RequeueAfter PROVE recon'.pc # "release"
  BY <1>5 DEF Done, Requeue, RequeueAfter, IdleReconciler
<1>6. ASSUME NEW pc, pc # "release", GoTo(pc) PROVE recon'.pc # "release"
  BY <1>6 DEF GoTo, TypeOK, ReconcilerStates
<1>7. CASE AddFinalizer \/ ReleaseFinalizer \/ RecordAttempt \/ Surrender
           \/ ParentAwaits
  <2>1. Done \/ Requeue \/ RequeueAfter
    BY <1>7 DEF AddFinalizer, ReleaseFinalizer, RecordAttempt, Surrender,
                ParentAwaits
  <2> QED
    BY <1>1, <1>5, <2>1
<1>8. CASE StartReconcile
  BY <1>1, <1>8 DEF StartReconcile, Entry, IdleReconciler
<1>9. CASE RetireIntent \/ CancelIntent
  BY <1>1, <1>6, <1>9 DEF RetireIntent, CancelIntent
<1>10. CASE MintIntent
  BY <1>1, <1>5, <1>10 DEF MintIntent, TypeOK, ReconcilerStates
<1>11. CASE PublishIntent
  BY <1>1, <1>5, <1>11 DEF PublishIntent, IdleReconciler
<1>12. CASE NoteIncomplete
  BY <1>1, <1>12 DEF NoteIncomplete, TypeOK, ReconcilerStates
<1>13. CASE ReconcilerFault
  BY <1>1, <1>5, <1>6, <1>13 DEF ReconcilerFault
<1>14. ASSUME NEW r \in Replicas, Crash(r) PROVE DetachedBeforeRelease'
  BY <1>1, <1>2, <1>14 DEF Crash, IdleReconciler
<1>15. \/ UNCHANGED <<recon, attached>> \/ ReconcilerStep \/ ReconcilerFault
       \/ \E i \in SIs : Confirm(i)
       \/ \E r \in Replicas : Crash(r)
  BY DEF Next, HookStep, vars, CreateChild, DeleteSPM, DeletePM, CollectGarbage,
     SyncSPM, SyncPM, TimerFires, Resync, Lapse, Decline, RecordOutcome, ProjectOutcome,
     HookFault, Receive, DropDuplicate
<1> QED
  BY <1>2, <1>3, <1>4, <1>7, <1>8, <1>9, <1>10, <1>11, <1>12, <1>13, <1>14,
     <1>15 DEF ReconcilerStep

\* The inductive invariant: the events tell the truth, no copy names an
\* unconfirmed card, shown cards stay, and a release comes after its detach.
THEOREM ConfirmationInvariant == Spec => []ConfirmationInv
<1>1. ConfirmationInv /\ [Next]_vars => ConfirmationInv'
  BY TypeStep, EventsStep, CopiesStep, ShownStep, DetachedStep
     DEF ConfirmationInv
<1> QED
  BY <1>1, InitConfirmation, PTL DEF Spec

-----------------------------------------------------------------------------
(* What follows                                                             *)

\* A PaymentMethod is Active only with a card that Stripe confirmed, whatever
\* stale copies the merge patches of the webhook and the reconciler come from.
THEOREM OnlyConfirmedCardsAreActive == Spec => []ActiveIsConfirmed
<1>1. ConfirmationInv => ActiveIsConfirmed
  BY DEF ConfirmationInv, ShownCardsStay, CopiesAreConfirmed, Confirmed,
         ActiveIsConfirmed
<1> QED
  BY <1>1, ConfirmationInvariant, PTL

\* No copy of either object, in any replica, names an unconfirmed card.
THEOREM OnlyConfirmedCardsAreCopied == Spec => []CopiesAreConfirmed
<1>1. ConfirmationInv => CopiesAreConfirmed
  BY DEF ConfirmationInv
<1> QED
  BY <1>1, ConfirmationInvariant, PTL

\* Unless the cleanup was given up, reconcileDelete lets a child go only when
\* the card that the child records at that moment is detached: the optimistic
\* lock of its last Update covers the patches that came in since it read it.
THEOREM ReleasesAreClean == Spec => ReleaseIsClean
<1>1. ASSUME ConfirmationInv, [Next]_vars PROVE [CleanRelease]_vars
  <2> USE DEF kubeVars, stripeVars, clientVars, hookVars
  <2>1. CASE spm'.uid = spm.uid \/ spm.uid = 0 \/ ~spm.finalizer
    BY <2>1 DEF CleanRelease
  <2>2. CASE ReleaseFinalizer
    <3>1. attached' = attached /\ (spm = recon.base \/ spm' = spm)
      BY <2>2 DEF ReleaseFinalizer, UpdateLands
    <3>2. recon.base.pmID \notin attached
      BY <1>1, <2>2 DEF ReleaseFinalizer, ConfirmationInv, DetachedBeforeRelease
    <3> QED
      BY <3>1, <3>2 DEF CleanRelease
  <2>3. CASE Surrender
    BY <2>3 DEF Surrender, CleanRelease
  <2>4. CASE DeleteSPM \/ CollectGarbage
    <3>1. spm.finalizer => Deleted(spm).uid = spm.uid
      BY <1>1 DEF Deleted, ConfirmationInv, TypeOK, SPMs
    <3>2. spm' = Deleted(spm)
      BY <2>4 DEF DeleteSPM, CollectGarbage
    <3> QED
      BY <2>1, <3>1, <3>2
  <2>5. CASE AddFinalizer \/ RecordAttempt
    BY <1>1, <2>1, <2>5 DEF AddFinalizer, RecordAttempt, ConfirmationInv, TypeOK, SPMs
  <2>6. CASE PublishIntent
    BY <1>1, <2>1, <2>6 DEF PublishIntent, MergeSPM, ConfirmationInv, TypeOK, SPMs
  <2>7. ASSUME NEW q \in Requests, RecordOutcome(q) PROVE [CleanRelease]_vars
    BY <1>1, <2>1, <2>7 DEF RecordOutcome, MergeSPM, ConfirmationInv, TypeOK, SPMs
  <2>8. CASE CreateChild
    BY <2>1, <2>8, SetupAssumption DEF CreateChild
  <2>9. CASE UNCHANGED spm
    BY <2>1, <2>9
  <2> QED
    BY <1>1, <2>2, <2>3, <2>4, <2>5, <2>6, <2>7, <2>8, <2>9
       DEF Next, ReconcilerStep, HookStep, vars, DeletePM, SyncSPM, SyncPM,
           Crash, TimerFires, Resync, Lapse, Confirm, Decline, StartReconcile,
           RetireIntent, MintIntent, ParentAwaits, CancelIntent, DetachCard,
           NoteIncomplete, ReconcilerFault, ProjectOutcome, HookFault, Receive,
           DropDuplicate
<1> QED
  BY <1>1, ConfirmationInvariant, PTL DEF Spec, ReleaseIsClean
=============================================================================
