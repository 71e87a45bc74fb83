--------------------------- MODULE CustomerRegistry ---------------------------
(***************************************************************************)
(* What StripeCustomers promises about the BillingAccounts of one name and  *)
(* their Stripe Customers, whatever callers, caches, searches and locks lie *)
(* in between: an entry names one Customer for as long as it exists; short  *)
(* of a failure an account has one Customer made for it, and that one is on *)
(* its entry.                                                               *)
(***************************************************************************)
EXTENDS Naturals

CONSTANT Customers \* numbered from 1

VARIABLES
  account, \* uid of the account, 0 when there is none
  uids,    \* how many there have been
  entry,   \* the published id and the account it is for, uid 0: no entry
  madeFor, \* the uid each Customer was made for, 0 when it was not
  trouble  \* has anything failed?

registryVars == <<account, uids, entry, madeFor, trouble>>

NoEntry == [owner |-> 0, customer |-> 0]

\* The Customers made for u; with Customer 1 one account may begin.
Of(u) == {c \in Customers : madeFor[c] = u}

Init ==
  /\ account = 1 /\ uids = 1
  /\ entry = NoEntry
  /\ \E old \in SUBSET ({1} \cap Customers) :
       madeFor = [c \in Customers |-> IF c \in old THEN 1 ELSE 0]
  /\ ~trouble

\* A step that is done may be reported as failed.
MayFail == trouble' \in BOOLEAN /\ (trouble => trouble')

Delete ==
  /\ account' = 0
  /\ UNCHANGED <<uids, entry, madeFor, trouble>>

Recreate ==
  /\ account = 0
  /\ account' = uids + 1 /\ uids' = uids + 1
  /\ UNCHANGED <<entry, madeFor, trouble>>

\* A caller may work for an account that is gone, never for one to come.
Enter(u) ==
  /\ entry.owner = 0
  /\ entry' = [owner |-> u, customer |-> 0]
  /\ UNCHANGED <<account, uids, madeFor, trouble>>

\* Once, and for an account that has a Customer of its own no other.
Publish(c) ==
  /\ entry.owner # 0 /\ entry.customer = 0 /\ madeFor[c] # 0
  /\ trouble \/ entry.owner # account \/ Of(account) \subseteq {c}
  /\ entry' = [entry EXCEPT !.customer = c]
  /\ UNCHANGED <<account, uids, madeFor, trouble>>

\* With its account, or by mistake.
Vanish ==
  /\ entry.owner # account \/ trouble'
  /\ entry' = NoEntry /\ MayFail
  /\ UNCHANGED <<account, uids, madeFor>>

\* The second Customer of an account has a failure for its cause.
Make(c, u) ==
  /\ madeFor[c] = 0
  /\ trouble \/ u # account \/ Of(u) = {}
  /\ madeFor' = [madeFor EXCEPT ![c] = u] /\ MayFail
  /\ UNCHANGED <<account, uids, entry>>

Fail ==
  trouble' /\ UNCHANGED <<account, uids, entry, madeFor>>

Next ==
  \/ Delete \/ Recreate \/ Vanish \/ Fail
  \/ \E u \in 1 .. uids : Enter(u)
  \/ \E c \in Customers : Publish(c)
  \/ \E c \in Customers, u \in 1 .. uids : Make(c, u)

Spec == Init /\ [][Next]_registryVars
=============================================================================
