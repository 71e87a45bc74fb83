---------------------------- MODULE CardLifecycle ----------------------------
(***************************************************************************)
(* What the provider promises about one PaymentMethod and its card at       *)
(* Stripe, whatever caches, patches, queues and deliveries lie in between:  *)
(* the PaymentMethod shows confirmed cards only; a SetupIntent that can be  *)
(* used is not canceled and a card not detached before its time; the child  *)
(* goes when its card is detached, or after MaxAttempts failed cleanups.    *)
(***************************************************************************)
EXTENDS Naturals

CONSTANTS SetupIntents, \* numbered from 1; the card one confirms has its number
          MaxAttempts   \* cleanups before the child is given up

VARIABLES
  intent,   \* the state of each SetupIntent
  attached, \* the cards attached to the Customer
  lapsed,   \* the SetupIntents up to this one have passed their deadline
  method,   \* the PaymentMethod
  child,    \* the child that keeps the card, uid 0 when there is none
  created   \* how many there have been

lifecycleVars == <<intent, attached, lapsed, method, child, created>>

NewChild(uid) == [uid |-> uid, finalizer |-> FALSE, deleting |-> FALSE,
                  attempts |-> 0, card |-> 0]
NoChild == NewChild(0)
NewMethod == [exists |-> TRUE, active |-> FALSE, card |-> 0]

Confirmed == {i \in SetupIntents : intent[i] = "succeeded"}

\* The child is on its way out or gone.  One created again under its name can be
\* taken for the other: of it nothing is promised here.
Leaving == child.deleting \/ child.uid = 0 \/ created > 1

Init ==
  /\ intent = [i \in SetupIntents |-> "none"]
  /\ attached = {} /\ lapsed = 0
  /\ method = NewMethod
  /\ child = NoChild /\ created = 0

-----------------------------------------------------------------------------
(* SetupIntents and cards                                                   *)

\* A SetupIntent is made only under the protection of the finalizer.
Offer(i) ==
  /\ intent[i] = "none"
  /\ child.finalizer \/ Leaving
  /\ intent' = [intent EXCEPT ![i] = "open"]
  /\ UNCHANGED <<attached, lapsed, method, child, created>>

Confirm(i) ==
  /\ intent[i] = "open"
  /\ intent' = [intent EXCEPT ![i] = "succeeded"]
  /\ attached' = attached \union {i}
  /\ UNCHANGED <<lapsed, method, child, created>>

Lapse ==
  /\ lapsed' = lapsed + 1
  /\ UNCHANGED <<intent, attached, method, child, created>>

Cancel(i) ==
  /\ intent[i] = "open" /\ (i <= lapsed \/ Leaving)
  /\ intent' = [intent EXCEPT ![i] = "canceled"]
  /\ UNCHANGED <<attached, lapsed, method, child, created>>

Detach(i) ==
  /\ Leaving
  /\ attached' = attached \ {i}
  /\ UNCHANGED <<intent, lapsed, method, child, created>>

-----------------------------------------------------------------------------
(* The PaymentMethod                                                        *)

\* It may leave Active (a failed attempt, a stale patch), and shows the card that
\* it showed or another that was confirmed; without one it is not Active.
Report ==
  /\ method.exists
  /\ \E card \in {method.card} \union Confirmed, active \in BOOLEAN :
       /\ active => card \in Confirmed
       /\ method' = [method EXCEPT !.active = active, !.card = card]
  /\ UNCHANGED <<intent, attached, lapsed, child, created>>

Withdraw ==
  /\ method' = [NewMethod EXCEPT !.exists = FALSE]
  /\ UNCHANGED <<intent, attached, lapsed, child, created>>

-----------------------------------------------------------------------------
(* The child                                                                *)

Create ==
  /\ child.uid = 0
  /\ created' = created + 1
  /\ child' = NewChild(created + 1)
  /\ UNCHANGED <<intent, attached, lapsed, method>>

Becomes(c) ==
  child' = c /\ UNCHANGED <<intent, attached, lapsed, method, created>>

Guard ==
  child.uid # 0 /\ ~child.deleting /\ Becomes([child EXCEPT !.finalizer = TRUE])

Record(card) ==
  child.uid # 0 /\ card \in Confirmed /\ Becomes([child EXCEPT !.card = card])

Delete ==
  /\ child.uid # 0 /\ ~child.deleting
  /\ Becomes(IF child.finalizer THEN [child EXCEPT !.deleting = TRUE] ELSE NoChild)

FailCleanup ==
  /\ child.deleting /\ child.attempts + 1 < MaxAttempts
  /\ Becomes([child EXCEPT !.attempts = @ + 1])

Release ==
  /\ child.deleting /\ child.card \notin attached
  /\ Becomes(NoChild)

GiveUp ==
  /\ child.deleting /\ child.attempts + 1 >= MaxAttempts
  /\ Becomes(NoChild)

-----------------------------------------------------------------------------
Next ==
  \/ \E i \in SetupIntents :
       Offer(i) \/ Confirm(i) \/ Cancel(i) \/ Detach(i) \/ Record(i)
  \/ Lapse \/ Report \/ Withdraw
  \/ Create \/ Guard \/ Delete \/ FailCleanup \/ Release \/ GiveUp

Spec == Init /\ [][Next]_lifecycleVars
=============================================================================
