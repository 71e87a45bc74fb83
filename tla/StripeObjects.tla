---------------------------- MODULE StripeObjects ----------------------------
(***************************************************************************)
(* The values the payment-method controllers work on: the status of the    *)
(* billing PaymentMethod and of its StripePaymentMethod child, the Stripe  *)
(* events about a SetupIntent, and the JSON merge patch with which every    *)
(* controller writes a status.  A SetupIntent is a number in 1..MaxSI, in   *)
(* the order of creation; the card (`pm_...') it confirms has the same      *)
(* number, and 0 stands for an empty field.                                *)
(***************************************************************************)
EXTENDS Naturals

CONSTANTS MaxSI,       \* SetupIntents that can be created
          MaxUID,      \* StripePaymentMethods created under the one name
          MaxAttempts  \* stripeCleanupMaxAttempts

ASSUME ObjectsAssumption ==
  /\ MaxSI \in Nat \ {0}
  /\ MaxUID \in Nat \ {0}
  /\ MaxAttempts \in Nat \ {0}

SIs == 1 .. MaxSI
SIRefs == 0 .. MaxSI

\* "Pending" also stands for the empty phase, which no code tells from it.
PMPhases == {"Pending", "Awaiting", "Active", "Failed"}
SPMPhases == {"Initializing", "Awaiting", "Active", "Failed"}
SIStatuses == {"none", "requires_payment_method", "succeeded", "canceled"}

\* The fields of the parent PaymentMethod that this provider reads or writes;
\* "card" is the confirmed card shown in status.details.
PMs == [exists : BOOLEAN, phase : PMPhases, card : SIRefs]

\* status.setupIntent is flattened: si (id), secret (clientSecret), siStatus and
\* deadline (expiresAt, named by the SetupIntent it was computed for).
SPMs == [uid : 0 .. MaxUID, deleting : BOOLEAN, finalizer : BOOLEAN,
         attempts : 0 .. MaxAttempts - 1, phase : SPMPhases, si : SIRefs,
         secret : SIRefs, siStatus : SIStatuses, deadline : SIRefs,
         pmID : SIRefs]

NewSPM(uid) ==
  [uid |-> uid, deleting |-> FALSE, finalizer |-> FALSE, attempts |-> 0,
   phase |-> "Initializing", si |-> 0, secret |-> 0, siStatus |-> "none",
   deadline |-> 0, pmID |-> 0]

NoSPM == NewSPM(0)

Events == [type : {"succeeded", "setup_failed", "canceled"}, si : SIs]

Event(type, i) == [type |-> type, si |-> i]

\* The SetupIntent status in the payload of an event.
PayloadStatus(ev) ==
  IF ev.type = "setup_failed" THEN "requires_payment_method" ELSE ev.type

-----------------------------------------------------------------------------
\* client.MergeFrom(base): a field the writer did not change with respect to
\* the copy it read is not part of the patch.
Merge(base, new, current) == IF new # base THEN new ELSE current

MergeSPM(base, new, current) ==
  [current EXCEPT
     !.phase    = Merge(base.phase, new.phase, current.phase),
     !.si       = Merge(base.si, new.si, current.si),
     !.secret   = Merge(base.secret, new.secret, current.secret),
     !.siStatus = Merge(base.siStatus, new.siStatus, current.siStatus),
     !.deadline = Merge(base.deadline, new.deadline, current.deadline),
     !.pmID     = Merge(base.pmID, new.pmID, current.pmID)]

MergePM(base, new, current) ==
  [current EXCEPT !.phase = Merge(base.phase, new.phase, current.phase),
                  !.card  = Merge(base.card, new.card, current.card)]

\* reconcileSetupIntent's status for the freshly minted SetupIntent i.
WithSetupIntent(o, i) ==
  [o EXCEPT !.phase = "Awaiting", !.si = i, !.secret = i,
            !.siStatus = "requires_payment_method", !.deadline = i]

\* patchStripeSuccess and patchStripeFailure.
WithSuccess(o, ev) ==
  [o EXCEPT !.phase = "Active", !.pmID = ev.si, !.si = ev.si,
            !.siStatus = PayloadStatus(ev), !.secret = 0]

WithFailure(o, ev) ==
  [o EXCEPT !.phase = "Failed", !.si = ev.si, !.siStatus = PayloadStatus(ev)]

\* Mutants: dispatch takes a cancelation for a confirmation; the details of the
\* card are left out.
WithEventMisrouted(o, ev) ==
  IF ev.type # "setup_failed" THEN WithSuccess(o, ev) ELSE WithFailure(o, ev)

ParentMisrouted(p, ev) ==
  IF ev.type # "setup_failed" THEN [p EXCEPT !.phase = "Active", !.card = ev.si]
                              ELSE [p EXCEPT !.phase = "Failed"]

ParentWithoutDetails(p, ev) ==
  [p EXCEPT !.phase = IF ev.type = "succeeded" THEN "Active" ELSE "Failed"]

WithEvent(o, ev) ==
  IF ev.type = "succeeded" THEN WithSuccess(o, ev) ELSE WithFailure(o, ev)

\* projectOntoPaymentMethod and projectFailureOntoPaymentMethod.
ParentWithEvent(p, ev) ==
  IF ev.type = "succeeded" THEN [p EXCEPT !.phase = "Active", !.card = ev.si]
                           ELSE [p EXCEPT !.phase = "Failed"]

\* setupIntentNeedsCancel
NeedsCancel(o) == o.si # 0 /\ o.siStatus \notin {"succeeded", "canceled"}

Terminal(o) == o.phase \in {"Active", "Failed"}
=============================================================================
