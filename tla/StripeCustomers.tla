--------------------------- MODULE StripeCustomers ---------------------------
(***************************************************************************)
(* StripeCustomers.Ensure: how one BillingAccount (of one name) comes by    *)
(* its Stripe Customer.  The BillingAccount reconciler and the              *)
(* StripePaymentMethod reconciler both call it, with the account they read  *)
(* from the cache; Ensure takes the lock of the account's name, reads the   *)
(* StripeCustomer past the cache, and looks for the Customer in turn in its *)
(* status, on the account's StripePaymentMethods and in Stripe's search     *)
(* (which lags) before it creates one.  An account can be deleted and       *)
(* created again: its uid is then another one, the lock the same.           *)
(*                                                                         *)
(* Customers are numbered in the order of creation; 0 is an empty id and    *)
(* an absent uid.                                                           *)
(***************************************************************************)
EXTENDS Naturals

CONSTANTS MaxUID,       \* BillingAccounts created under the one name
          MaxCustomers, \* Stripe Customers that can be created
          MaxFaults,    \* failed calls and crashes
          Legacy        \* may the account have a card from before StripeCustomer?

ASSUME CustomersAssumption ==
  /\ MaxUID \in Nat \ {0}
  /\ MaxCustomers \in Nat \ {0}
  /\ MaxFaults \in Nat
  /\ Legacy \in BOOLEAN

UIDs == 1 .. MaxUID
Customers == 1 .. MaxCustomers
CustomerRefs == 0 .. MaxCustomers

\* The controllers that share the StripeCustomers; each has one worker.
Callers == {"account", "card"}

\* metadata.billing_account_uid: 0 on a Customer from before it was stamped.
Stamps == 0 .. MaxUID
Unlisted == MaxUID + 1

VARIABLES
  account,     \* uid of the BillingAccount on the API server
  uids,        \* how many there have been
  sc,          \* the StripeCustomer: its owner's uid and status.stripeCustomerId
  recorded,    \* ids on the status of the account's StripePaymentMethods
  seen,        \* the cache: seen.account and seen.recorded
  lock,        \* the holder of the lock of the account's name
  call,        \* what each caller is doing
  madeFor,     \* Stripe: the uid each Customer was created for
  stamp,       \* Stripe: the uid in its metadata now
  index,       \* Stripe's search: the uid each Customer is listed with
  faults,      \* failures that happened so far
  strayed      \* Customers whose id was lost, or that another account took over

stripeVars == <<madeFor, stamp, index>>
accountVars == <<account, uids>>
vars == <<accountVars, sc, recorded, seen, lock, call, stripeVars, faults,
          strayed>>

NoSC == [owner |-> 0, customer |-> 0]
Idle == [pc |-> "idle", uid |-> 0, copy |-> 0, id |-> 0, searched |-> FALSE,
         ok |-> FALSE]
PCs == {"idle", "waiting", "find", "write", "publish", "record"}

CallStates == [pc : PCs, uid : 0 .. MaxUID, copy : CustomerRefs,
               id : CustomerRefs, searched : BOOLEAN, ok : BOOLEAN]

\* A fresh account, or one whose card was added before StripeCustomers existed:
\* Customer 1, without a uid, is on its StripePaymentMethod.
Init ==
  /\ account = 1 /\ uids = 1 /\ sc = NoSC
  /\ \E old \in {{}} \union (IF Legacy THEN {{1}} ELSE {}) :
       /\ recorded = old
       /\ seen = [account |-> 1, recorded |-> old]
       /\ madeFor = [c \in Customers |-> IF c \in old THEN 1 ELSE 0]
       /\ index = [c \in Customers |-> IF c \in old THEN 0 ELSE Unlisted]
  /\ stamp = [c \in Customers |-> 0]
  /\ lock = "free"
  /\ call = [w \in Callers |-> Idle]
  /\ faults = 0 /\ strayed = {}

-----------------------------------------------------------------------------
(* The cluster                                                              *)

DeleteAccount ==
  /\ account # 0 /\ account' = 0
  /\ UNCHANGED <<uids, sc, recorded, seen, lock, call, stripeVars, faults,
                 strayed>>

RecreateAccount ==
  /\ account = 0 /\ uids < MaxUID
  /\ account' = uids + 1 /\ uids' = uids + 1
  /\ UNCHANGED <<sc, recorded, seen, lock, call, stripeVars, faults, strayed>>

\* The owner reference: the StripeCustomer goes with its account.
CollectGarbage ==
  /\ sc.owner \notin {0, account}
  /\ sc' = NoSC
  /\ UNCHANGED <<accountVars, recorded, seen, lock, call, stripeVars, faults,
                 strayed>>

\* A Customer that the search does not list yet cannot be found by it.
Unfindable(c) == c # 0 /\ index[c] = Unlisted

\* Someone deletes the StripeCustomer while its account still needs it.
DeleteSC ==
  /\ faults < MaxFaults /\ sc.owner # 0
  /\ faults' = faults + 1
  /\ sc' = NoSC
  /\ strayed' = strayed \union {c \in {sc.customer} : Unfindable(c)}
  /\ UNCHANGED <<accountVars, recorded, seen, lock, call, stripeVars>>

\* The consumer deletes the payment method that records c.
DeleteCard(c) ==
  /\ recorded' = recorded \ {c} /\ c \in recorded
  /\ UNCHANGED <<accountVars, sc, seen, lock, call, stripeVars, faults,
                 strayed>>

SyncAccount ==
  /\ seen.account # account
  /\ seen' = [seen EXCEPT !.account = account]
  /\ UNCHANGED <<accountVars, sc, recorded, lock, call, stripeVars, faults, strayed>>

SyncCards ==
  /\ seen.recorded # recorded
  /\ seen' = [seen EXCEPT !.recorded = recorded]
  /\ UNCHANGED <<accountVars, sc, recorded, lock, call, stripeVars, faults, strayed>>

\* Stripe's customer search catches up with c.
Index(c) ==
  /\ madeFor[c] # 0 /\ index[c] # stamp[c]
  /\ index' = [index EXCEPT ![c] = stamp[c]]
  /\ UNCHANGED <<accountVars, sc, recorded, seen, lock, call, madeFor, stamp,
                 faults, strayed>>

-----------------------------------------------------------------------------
(* Ensure                                                                   *)

At(w, pc) == call[w].pc = pc

\* Whatever Ensure returns, it releases the lock.
Return(w) ==
  /\ call' = [call EXCEPT ![w] = Idle]
  /\ lock' = "free"

\* Something enqueued the account or a card (or an error requeued it), and the
\* cache has the account.  Billed by invoice, it always needs a Customer.
Start(w) ==
  /\ At(w, "idle") /\ seen.account # 0
  /\ call' = [call EXCEPT ![w].pc = "waiting", ![w].uid = seen.account]
  /\ UNCHANGED <<accountVars, sc, recorded, seen, lock, stripeVars, faults, strayed>>

\* Mutant: no lock.
LockIgnored == TRUE

LockFree == lock = "free"

\* Mutant: the owner is not compared.
OwnedByAnyone(o, u) == TRUE

Owned(o, u) == o.owner = u

\* getOrCreate, once w has the lock: a StripeCustomer left behind by an earlier
\* account is not touched.
GetOrCreate(w) ==
  /\ At(w, "waiting") /\ LockFree
  /\ LET u == call[w].uid
         found == IF sc.owner = 0 THEN [owner |-> u, customer |-> 0] ELSE sc IN
       /\ sc' = found
       /\ IF Owned(found, u)
          THEN /\ lock' = w
               /\ call' = [call EXCEPT ![w].pc = IF found.customer = 0 THEN "find"
                                                 ELSE "write",
                                       ![w].copy = found.customer,
                                       ![w].id = found.customer,
                                       ![w].searched = FALSE]
          ELSE Return(w)
  /\ UNCHANGED <<accountVars, recorded, seen, stripeVars, faults, strayed>>

\* Mutant: a Customer from before the uid was stamped is not found.
MatchesStamped(u) == {c \in Customers : index[c] = u}

\* findCustomerByBillingAccount: by uid, else those of its name without a uid.
Matches(u) ==
  LET stamped == {c \in Customers : index[c] = u} IN
    IF stamped # {} THEN stamped ELSE {c \in Customers : index[c] = 0}

\* findExistingCustomerID takes the first StripePaymentMethod of the account's
\* name that has an id; when none has, EnsureCustomer searches.
FindExisting(w) ==
  /\ At(w, "find")
  /\ LET known == IF seen.recorded # {} THEN seen.recorded
                  ELSE Matches(call[w].uid) IN
       \E c \in IF known = {} THEN {0} ELSE known :
         call' = [call EXCEPT ![w].pc = "write", ![w].id = c,
                              ![w].searched = seen.recorded = {}]
  /\ UNCHANGED <<accountVars, sc, recorded, seen, lock, stripeVars, faults,
                 strayed>>

\* The next Customer, created for u.
Created(c, u) ==
  /\ madeFor[c] = 0 /\ \A d \in Customers : d < c => madeFor[d] # 0
  /\ madeFor' = [madeFor EXCEPT ![c] = u]
  /\ stamp' = [stamp EXCEPT ![c] = u]
  /\ UNCHANGED index

\* Customer c is stamped with u, whoever it was created for.
Stamped(c, u) ==
  /\ stamp' = [stamp EXCEPT ![c] = u]
  /\ strayed' = IF madeFor[c] = u THEN strayed ELSE strayed \union {c}
  /\ UNCHANGED <<madeFor, index>>

\* EnsureCustomer updates the Customer, which stamps it with the uid, or
\* creates one; a tax id that Stripe rejects does not change what follows.
UpdateCustomer(w) ==
  /\ At(w, "write") /\ call[w].id # 0
  /\ Stamped(call[w].id, call[w].uid)
  /\ call' = [call EXCEPT ![w].pc = "publish", ![w].ok = TRUE]
  /\ UNCHANGED <<accountVars, sc, recorded, seen, lock, faults>>

CreateCustomer(w) ==
  /\ At(w, "write") /\ call[w].id = 0
  /\ \E c \in Customers :
       /\ Created(c, call[w].uid)
       /\ call' = [call EXCEPT ![w].pc = "publish", ![w].id = c, ![w].ok = TRUE]
  /\ UNCHANGED <<accountVars, sc, recorded, seen, lock, faults, strayed>>

\* What is lost when w ends without having published its Customer: one that the
\* search lists is found again.
Lost(w) == {c \in {call[w].id} \ {call[w].copy} : Unfindable(c)}

\* patchStatus, a merge patch on the copy that getOrCreate returned (not sent when
\* it changes nothing), then the return: the error of a failed sync, or the id.
PatchStatus(w) ==
  /\ At(w, "publish")
  /\ LET c == call[w] IN
       \/ /\ \/ /\ sc.owner # 0
                /\ sc' = [sc EXCEPT !.customer = IF c.id # c.copy THEN c.id ELSE @]
             \/ c.id = c.copy /\ UNCHANGED sc
          /\ IF w = "card" /\ c.ok
             THEN /\ call' = [call EXCEPT ![w] = [Idle EXCEPT !.pc = "record",
                                                            !.id = c.id]]
                  /\ lock' = "free"
             ELSE Return(w)
          /\ UNCHANGED strayed
       \/ /\ sc.owner = 0
          /\ strayed' = strayed \union Lost(w)
          /\ Return(w)
          /\ UNCHANGED sc
  /\ UNCHANGED <<accountVars, recorded, seen, stripeVars, faults>>

\* reconcileSetupIntent puts the id on the StripePaymentMethod (or that is gone).
RecordOnCard(w) ==
  /\ At(w, "record")
  /\ recorded' \in {recorded, recorded \union ({call[w].id} \ {0})}
  /\ call' = [call EXCEPT ![w] = Idle]
  /\ UNCHANGED <<accountVars, sc, seen, lock, stripeVars, faults, strayed>>

EnsureStep(w) ==
  \/ GetOrCreate(w) \/ FindExisting(w) \/ UpdateCustomer(w)
  \/ CreateCustomer(w) \/ PatchStatus(w) \/ RecordOnCard(w)

-----------------------------------------------------------------------------
(* Failures                                                                 *)

Fails == faults < MaxFaults /\ faults' = faults + 1

\* The reads fail: nothing was done, the reconcile is retried.
ReadFails(w) ==
  /\ Fails
  /\ \/ At(w, "waiting") /\ LockFree
     \/ At(w, "find")
     \/ At(w, "write") /\ ~call[w].searched
  /\ Return(w)
  /\ UNCHANGED <<accountVars, sc, recorded, seen, stripeVars, strayed>>

\* Mutant: the status of a failed sync is written without the id.
FailedWithoutID(w) ==
  call' = [call EXCEPT ![w].pc = "publish", ![w].ok = FALSE, ![w].id = 0]

Failed(w) ==
  call' = [call EXCEPT ![w].pc = "publish", ![w].ok = FALSE,
                       ![w].id = IF call[w].searched THEN 0 ELSE @]

\* EnsureCustomer fails: the status keeps the id that Ensure gave it (one found by
\* the search it does not know), with Ready false.  A write that reported an error
\* may have happened all the same.
StripeFails(w) ==
  /\ Fails
  /\ At(w, "write") \/ (At(w, "find") /\ seen.recorded = {})
  /\ \/ UNCHANGED <<stripeVars, strayed>>
     \/ /\ At(w, "write") /\ call[w].id # 0
        /\ Stamped(call[w].id, call[w].uid)
     \/ /\ At(w, "write") /\ call[w].id = 0
        /\ \E c \in Customers :
             Created(c, call[w].uid) /\ strayed' = strayed \union {c}
  /\ Failed(w)
  /\ UNCHANGED <<accountVars, sc, recorded, seen, lock>>

PatchFails(w) ==
  /\ Fails
  /\ At(w, "publish")
  /\ strayed' = strayed \union Lost(w)
  /\ Return(w)
  /\ UNCHANGED <<accountVars, sc, recorded, seen, stripeVars>>

\* The leader restarts: locks and calls are gone, the caches are listed again.
Crash ==
  /\ Fails
  /\ seen' = [account |-> account, recorded |-> recorded]
  /\ strayed' = strayed \union
       UNION {Lost(w) : w \in {v \in Callers : At(v, "publish")}}
  /\ lock' = "free"
  /\ call' = [w \in Callers |-> Idle]
  /\ UNCHANGED <<accountVars, sc, recorded, stripeVars>>

-----------------------------------------------------------------------------
Next ==
  \/ DeleteAccount \/ RecreateAccount \/ CollectGarbage \/ DeleteSC
  \/ SyncAccount \/ SyncCards \/ Crash
  \/ \E c \in Customers : DeleteCard(c) \/ Index(c)
  \/ \E w \in Callers :
       \/ Start(w) \/ EnsureStep(w)
       \/ ReadFails(w) \/ StripeFails(w) \/ PatchFails(w)

Spec == Init /\ [][Next]_vars

-----------------------------------------------------------------------------
\* Every variable holds a value of its kind.
TypeOK ==
  /\ account \in 0 .. MaxUID /\ uids \in UIDs
  /\ sc \in [owner : 0 .. MaxUID, customer : CustomerRefs]
  /\ recorded \in SUBSET Customers
  /\ seen \in [account : 0 .. MaxUID, recorded : SUBSET Customers]
  /\ lock \in Callers \union {"free"}
  /\ call \in [Callers -> CallStates]
  /\ madeFor \in [Customers -> 0 .. MaxUID]
  /\ stamp \in [Customers -> Stamps]
  /\ index \in [Customers -> Stamps \union {Unlisted}]
  /\ faults \in 0 .. MaxFaults
  /\ strayed \in SUBSET Customers

\* An account gets a second Stripe Customer only after the id of one was lost (a
\* failed patch, a crash, a deleted StripeCustomer) while the search did not list
\* it yet, or an earlier account of the name took it over: never because two
\* reconcilers run at once or the cache is stale.
OneCustomer ==
  \A c, d \in Customers :
    account # 0 /\ madeFor[c] = account /\ madeFor[d] = account
      => c = d \/ c \in strayed \/ d \in strayed

\* All cards of an account are on the Customer that its StripeCustomer names, as
\* long as no Customer went astray and the first account of the name is there.
CardsShareTheCustomer ==
  account = 1 /\ strayed = {}
    => /\ \A c, d \in recorded : c = d
       /\ \A c \in recorded : sc.customer \in {0, c}

\* The published id is what invoicing providers bill: while the StripeCustomer
\* exists it never changes, whatever the callers, failures and restarts.
KeepsPublishedID ==
  sc.owner # 0 /\ sc.customer # 0 /\ sc'.owner = sc.owner
    => sc'.customer = sc.customer

PublishedIsFinal == [][KeepsPublishedID]_vars

\* As long as nothing fails, the account that is there has one Customer made for it,
\* however the reconcilers race and however stale cache and search are.
OneWithoutFailure ==
  faults = 0 /\ account # 0 =>
    \A c, d \in Customers :
      madeFor[c] = account /\ madeFor[d] = account => c = d

\* Why: Ensure is alone between lock and unlock ...
Holding(w) == call[w].pc \in {"find", "write", "publish"}

HolderIsAlone == \A w \in Callers : Holding(w) => lock = w

\* ... so the StripeCustomer is its account's and as it read it, or gone, and an id
\* that it read there is the one it syncs and writes.
CopyIsCurrent ==
  \A w \in Callers :
    Holding(w) => /\ sc.owner # 0 => /\ sc.owner = call[w].uid
                                    /\ sc.customer = call[w].copy
                  /\ call[w].copy # 0 => /\ call[w].pc # "find"
                                         /\ ~call[w].searched
                                         /\ call[w].id = call[w].copy

\* The inductive invariant of these two, with the types.
PublishedInv == TypeOK /\ HolderIsAlone /\ CopyIsCurrent

-----------------------------------------------------------------------------
(* The abstract specification                                               *)

Registry ==
  INSTANCE CustomerRegistry WITH entry <- sc, trouble <- faults > 0

\* Callers, lock, cache and search keep what CustomerRegistry promises.
ImplementsRegistry == Registry!Spec

-----------------------------------------------------------------------------
(* What comments and documents of the repository say, and the code does not *)

\* "so an account never gets two"
NeverTwo ==
  \A c, d \in Customers : madeFor[c] # 0 /\ madeFor[c] = madeFor[d] => c = d

\* "Wait for garbage collection to remove it rather than bill the new account to
\* it": the Customer of an earlier account of the name.
NotBilledToPredecessor ==
  sc.customer # 0 => madeFor[sc.customer] = sc.owner
=============================================================================
