------------------------------ MODULE Deliveries ------------------------------
(***************************************************************************)
(* Stripe's deliveries, retries and duplicates of events about one payment  *)
(* method, against several webhook processes, each with its MemoryDeduper   *)
(* and its cache of the parent PaymentMethod; and what the deliveries leave *)
(* on the activity timeline of the organization.  Deliveries are handled    *)
(* side by side, those of one event too.  PaymentMethodSetup has the        *)
(* reconciler and the child.                                                *)
(***************************************************************************)
EXTENDS MemoryDeduper

CONSTANTS Replicas,      \* webhook processes
          Confirmations, \* ids of setup_intent.succeeded events
          Declines,      \* ids of setup_failed and canceled events
          MaxTries,      \* how often Stripe delivers one of these; the others once
          MaxServing,    \* how many deliveries are handled at once
          MaxFaults      \* failed handlers and restarts

ASSUME DeliveriesAssumption ==
  /\ Confirmations \union Declines \subseteq Ids
  /\ Confirmations \intersect Declines = {}
  /\ MaxTries \in Nat \ {0}
  /\ MaxServing \in Nat
  /\ MaxFaults \in Nat

VARIABLES
  tries,      \* Stripe: how often each event was delivered
  dedupe,     \* dedupe[r]: the MemoryDeduper of r
  stage,      \* stage[d]: how far the handler of delivery d is
  parent,     \* the phase of the PaymentMethod
  seen,       \* seen[r]: the phase in the cache of r
  timeline,   \* the deliveries that recorded an Event
  faults,     \* failures that happened so far
  forgotten,  \* history: forgotten[r], ids evicted or lost by r
  setters,    \* history: the delivery that wrote the phase last, if any
  unreported, \* history: deliveries that failed or died between patch and Event
  presented, since  \* history: what each process was presented with, and after what

phaseVars == <<parent, setters>>
windowVars == <<presented, since>>
vars == <<tries, dedupe, stage, phaseVars, seen, timeline, faults, forgotten,
          unreported, windowVars>>

Phases == {"Pending", "Active", "Failed"}

\* The n-th delivery of event i, to process r.
Deliveries == Replicas \X Ids \X (1 .. MaxTries)

\* Not under way; handed to the handler; read a parent in another phase than the
\* event's, or in that phase; patched a parent that was news.
Stages == {"none", "started", "news", "known", "patched"}

Serving == {d \in Deliveries : stage[d] # "none"}
Reporting == {d \in Deliveries : stage[d] = "patched"}

\* The other ids are events about other objects: they take room, nothing else.
Handled == Confirmations \union Declines
PhaseOf(i) == IF i \in Confirmations THEN "Active" ELSE "Failed"

Limit(i) == IF i \in Handled THEN MaxTries ELSE 1

Window == INSTANCE EventWindow WITH Tries <- 1 .. MaxTries, serving <- Serving

Init ==
  /\ tries = [i \in Ids |-> 0]
  /\ dedupe = [r \in Replicas |-> NewDeduper]
  /\ stage = [d \in Deliveries |-> "none"]
  /\ parent = "Pending" /\ seen = [r \in Replicas |-> "Pending"]
  /\ timeline = {} /\ setters = {} /\ unreported = {}
  /\ faults = 0
  /\ forgotten = [r \in Replicas |-> {}]
  /\ presented = [r \in Replicas |-> {}]
  /\ since = [r \in Replicas |-> [i \in Ids |-> {}]]

Moves(d, to) == stage' = [stage EXCEPT ![d] = to]

\* The ids that SeenOrRecord(i) evicts.
Evicted(d, i) == d.index \ AfterSeeing(d, i).index

\* Mutant: an id counts as seen only when its delivery has been handled.
DropsIfHandled(r, i) ==
  Remembers(dedupe[r], i) /\ \A d \in Serving : d[1] # r \/ d[2] # i

\* What SeenOrRecord answers: the id was recorded on reception.
Drops(r, i) == Remembers(dedupe[r], i)

\* ServeHTTP up to the handler, at whatever stage earlier deliveries of i are; a
\* duplicate is answered and dropped.
Receive(r, i) ==
  /\ tries[i] < Limit(i) /\ tries' = [tries EXCEPT ![i] = @ + 1]
  /\ Cardinality(Serving) < MaxServing
  /\ dedupe' = [dedupe EXCEPT ![r] = AfterSeeing(@, i)]
  /\ forgotten' = [forgotten EXCEPT ![r] = @ \union Evicted(dedupe[r], i)]
  /\ IF Drops(r, i) THEN UNCHANGED stage
                    ELSE Moves(<<r, i, tries[i] + 1>>, "started")
  /\ Window!Note(r, i)
  /\ UNCHANGED <<phaseVars, seen, timeline, faults, unreported>>

\* dispatch: nothing to do for other events.
Ignore(d) ==
  /\ stage[d] = "started" /\ d[2] \notin Handled
  /\ Moves(d, "none")
  /\ UNCHANGED <<tries, dedupe, phaseVars, seen, timeline, faults, forgotten,
                 unreported, windowVars>>

\* wasActive or wasFailed, from the cached parent.
ReadParent(d) ==
  /\ stage[d] = "started" /\ d[2] \in Handled
  /\ Moves(d, IF seen[d[1]] = PhaseOf(d[2]) THEN "known" ELSE "news")
  /\ UNCHANGED <<tries, dedupe, phaseVars, seen, timeline, faults, forgotten,
                 unreported, windowVars>>

\* Mutant: the status is written whole.
WritesAlways(d) == TRUE

\* A merge patch: a phase that the copy already had is not part of it.
WritesPhase(d) == stage[d] = "news"

PatchLands(d) ==
  IF WritesPhase(d) THEN parent' = PhaseOf(d[2]) /\ setters' = {d}
                    ELSE UNCHANGED phaseVars

\* Status().Patch of the parent; what is no news is answered.
PatchParent(d) ==
  /\ stage[d] \in {"news", "known"}
  /\ PatchLands(d)
  /\ Moves(d, IF stage[d] = "news" THEN "patched" ELSE "none")
  /\ UNCHANGED <<tries, dedupe, seen, timeline, faults, forgotten, unreported,
                 windowVars>>

\* recordPaymentMethodEvent: the Event is handed to the recorder.  Then the answer.
RecordEvent(d) ==
  /\ stage[d] = "patched"
  /\ timeline' = timeline \union {d}
  /\ Moves(d, "none")
  /\ UNCHANGED <<tries, dedupe, phaseVars, seen, faults, forgotten, unreported,
                 windowVars>>

\* A read, the child's patch or the parent's fails and the answer is 500.  A patch
\* that reported an error may have been done.
HandlerFails(d) ==
  /\ faults < MaxFaults /\ faults' = faults + 1
  /\ stage[d] \in {"started", "news", "known"} /\ d[2] \in Handled
  /\ Moves(d, "none")
  /\ \/ UNCHANGED <<phaseVars, unreported>>
     \/ /\ stage[d] = "news" /\ PatchLands(d)
        /\ unreported' = unreported \union {d}
  /\ UNCHANGED <<tries, dedupe, seen, timeline, forgotten, windowVars>>

\* A process dies and another takes its place: its handlers are gone, at any stage; it
\* lists its cache again and remembers no event.
Restart(r) ==
  /\ faults < MaxFaults /\ faults' = faults + 1
  /\ dedupe' = [dedupe EXCEPT ![r] = NewDeduper]
  /\ forgotten' = [forgotten EXCEPT ![r] = Ids]
  /\ stage' = [d \in Deliveries |-> IF d[1] = r THEN "none" ELSE stage[d]]
  /\ unreported' = unreported \union {d \in Reporting : d[1] = r}
  /\ seen' = [seen EXCEPT ![r] = parent]
  /\ Window!Forget(r)
  /\ UNCHANGED <<tries, phaseVars, timeline>>

Sync(r) ==
  /\ seen[r] # parent
  /\ seen' = [seen EXCEPT ![r] = parent]
  /\ UNCHANGED <<tries, dedupe, stage, phaseVars, timeline, faults, forgotten,
                 unreported, windowVars>>

Next ==
  \/ \E r \in Replicas : Sync(r) \/ Restart(r) \/ \E i \in Ids : Receive(r, i)
  \/ \E d \in Deliveries :
       \/ Ignore(d) \/ ReadParent(d) \/ PatchParent(d) \/ RecordEvent(d)
       \/ HandlerFails(d)

Spec == Init /\ [][Next]_vars

-----------------------------------------------------------------------------
\* Every variable holds a value of its kind.
TypeOK ==
  /\ tries \in [Ids -> 0 .. MaxTries]
  /\ dedupe \in [Replicas -> Dedupers]
  /\ stage \in [Deliveries -> Stages]
  /\ parent \in Phases
  /\ seen \in [Replicas -> Phases]
  /\ timeline \subseteq Deliveries
  /\ faults \in 0 .. MaxFaults
  /\ setters \subseteq Deliveries
  /\ unreported \subseteq Deliveries
  /\ forgotten \in [Replicas -> SUBSET Ids]
  /\ presented \in [Replicas -> SUBSET Ids]
  /\ since \in [Replicas -> [Ids -> SUBSET Ids]]

\* The list and the index of every deduper agree, and it is within its capacity.
DedupersWellFormed == \A r \in Replicas : WellFormed(dedupe[r])

\* On the list, after an id, is what the process was presented with after it ...
ListIsSince ==
  \A r \in Replicas : \A k \in 1 .. Len(dedupe[r].order) :
    since[r][dedupe[r].order[k]] = Behind(dedupe[r].order, k)

\* ... and an id that is not on it any more is out of the window.
GoneIsOutside ==
  \A r \in Replicas :
    /\ dedupe[r].index \subseteq presented[r]
    /\ \A i \in presented[r] \ dedupe[r].index :
         Cardinality(since[r][i]) >= Capacity

\* The inductive invariant of the refinement.
DeduperInv == TypeOK /\ DedupersWellFormed /\ ListIsSince /\ GoneIsOutside

\* A list with an index, evicting at its capacity, answers as if it remembered
\* exactly the last Capacity distinct events: no event is handled again within
\* them, and none outside of them is dropped.
ImplementsWindow == Window!Spec

\* However often Stripe delivers an event, and however the deliveries overlap, one
\* process leaves at most one Event about it on the timeline, unless it evicted the
\* id or restarted.
OneEventPerProcess ==
  \A d, e \in timeline :
    d[1] = e[1] /\ d[2] = e[2] => d = e \/ d[2] \in forgotten[d[1]]

\* The phase that the PaymentMethod shows is on the timeline, or about to be: the very
\* delivery that wrote it records an Event, whatever the order of the deliveries and
\* however stale the caches, unless its patch reported an error or its process died
\* before the Event.
PhaseIsOnTimeline ==
  /\ setters \subseteq timeline \union Reporting \union unreported
  /\ parent # "Pending" => \E d \in setters : PhaseOf(d[2]) = parent
=============================================================================
