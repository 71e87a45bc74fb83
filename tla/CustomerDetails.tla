--------------------------- MODULE CustomerDetails ---------------------------
(***************************************************************************)
(* What a BillingAccount and the cluster around it say of the account's     *)
(* Stripe Customer, and how EnsureCustomer writes it: the fields that are   *)
(* sent, the list of projects cut to what a metadata value can hold, and    *)
(* the tax ids, which Stripe takes one at a time.                           *)
(***************************************************************************)
EXTENDS Naturals, Sequences

CONSTANTS Names,       \* contact names; NoName among them
          NoName,      \* the empty name
          NameBytes,   \* lengths of the project names, in the names' order
          MetadataMax, \* bytes that Stripe accepts as a metadata value
          Ellipsis,    \* bytes of the ellipsis
          TaxIDs,      \* tax ids
          Invalid      \* those that Stripe rejects

ASSUME DetailsAssumption ==
  /\ NoName \in Names
  /\ NameBytes \in Seq(Nat)
  /\ Ellipsis \in Nat /\ MetadataMax \in Nat /\ Ellipsis <= MetadataMax
  /\ Invalid \subseteq TaxIDs

\* A project is the place of its name in the lexicographic order.
Projects == 1 .. Len(NameBytes)
Separator == 2

\* A rendered list: the names in it, whether it ends in the ellipsis, its length.
Lists == [shown : SUBSET Projects, cut : BOOLEAN, bytes : Nat]
NoList == [shown |-> {}, cut |-> FALSE, bytes |-> 0]

\* Of the name p, with what separates it from the names before it.
Width(out, p) == NameBytes[p] + (IF out.shown = {} THEN 0 ELSE Separator)

Fits(out, p) == out.bytes + Width(out, p) <= MetadataMax - Ellipsis

\* The loop body of joinNamesForMetadata.
Joined(out, p) ==
  IF Fits(out, p)
  THEN [out EXCEPT !.shown = @ \union {p}, !.bytes = @ + Width(out, p)]
  ELSE [out EXCEPT !.cut = TRUE, !.bytes = @ + Ellipsis]

\* joinNamesForMetadata, of the projects b in order; the loop ends at the cut.
JoinNames ==
  [b \in SUBSET Projects |->
     LET out[n \in 0 .. Len(NameBytes)] ==
           IF n = 0 THEN NoList
           ELSE IF n \in b /\ ~out[n - 1].cut THEN Joined(out[n - 1], n)
           ELSE out[n - 1]
     IN out[Len(NameBytes)]]

Length(b) ==
  LET sum[n \in 0 .. Len(NameBytes)] ==
        IF n = 0 THEN 0
        ELSE IF n \in b THEN sum[n - 1] + NameBytes[n] + Separator ELSE sum[n - 1]
  IN IF b = {} THEN 0 ELSE sum[Len(NameBytes)] - Separator

\* All the names, joined ...
Whole(b) == [shown |-> b, cut |-> FALSE, bytes |-> Length(b)]

\* ... or the first of them, whole names, as many as leave room for the ellipsis.
Truncated(b) ==
  LET prefixes == {s \in SUBSET b : \A p \in s, q \in b : q < p => q \in s}
      fitting == {s \in prefixes : Length(s) <= MetadataMax - Ellipsis}
      most == CHOOSE s \in fitting : \A t \in fitting : t \subseteq s
  IN [shown |-> most, cut |-> TRUE, bytes |-> Length(most) + Ellipsis]

\* What its comment says: truncated when the joined value would exceed the cap.
Abridged ==
  [b \in SUBSET Projects |->
     IF Length(b) <= MetadataMax THEN Whole(b) ELSE Truncated(b)]

\* The lists for which it does something else: they fit, but not with an ellipsis.
NearCap(b) == Length(b) <= MetadataMax /\ Length(b) > MetadataMax - Ellipsis

\* What can be made of the comment and of the code: in the gap between them, either.
Renderings(b) == {Abridged[b]} \union (IF NearCap(b) THEN {Truncated(b)} ELSE {})

-----------------------------------------------------------------------------
(* Tax ids                                                                  *)

Values(s) == {s[k] : k \in DOMAIN s}

\* Mutant: nothing is deleted.
CreateTaxIDs(desired, existing) == existing \union (Values(desired) \ Invalid)

\* Those that it creates: it returns at the first that is rejected.
Created(desired) ==
  {desired[k] : k \in {j \in DOMAIN desired : \A i \in 1 .. j : desired[i] \notin Invalid}}

\* reconcileTaxIDs: the stale ids are deleted when all the desired ones are there.
ReconcileTaxIDs(desired, existing) ==
  IF Values(desired) \intersect Invalid = {} THEN Values(desired)
  ELSE existing \union Created(desired)

\* Does it return without an error?
TaxIDsAccepted(desired) == Values(desired) \intersect Invalid = {}

\* What can be there when a call fails: some of the creations are done, or all of
\* them and some of the deletions.
InterruptedTaxIDs(desired, existing) ==
  {existing \union {desired[i] : i \in {j \in DOMAIN desired : j < k}} :
     k \in {j \in DOMAIN desired : \A i \in 1 .. (j - 1) : desired[i] \notin Invalid}}
  \union {Values(desired) \union left :
            left \in IF TaxIDsAccepted(desired) THEN SUBSET existing ELSE {}}

-----------------------------------------------------------------------------
(* The Customer                                                             *)

Accounts == [name : Names, default : BOOLEAN, tax : Seq(TaxIDs), invoice : BOOLEAN]

Details == [name : Names, card : BOOLEAN, projects : SUBSET Projects,
            tax : Seq(TaxIDs), invoice : BOOLEAN]

\* buildCustomerDetails: of account a, its bound projects b, and its card c if that
\* is the default.
DetailsOf(a, b, c) ==
  [name |-> a.name, card |-> a.default /\ c, projects |-> b, tax |-> a.tax,
   invoice |-> a.invoice]

\* An empty name is not sent: Stripe keeps the one it has.
NameAfter(cu, d) == IF d.name = NoName THEN cu.name ELSE d.name

\* applyCustomerDetails: every other field is always sent.
WithDetails(cu, d) ==
  [cu EXCEPT !.made = TRUE, !.name = NameAfter(cu, d), !.card = d.card,
             !.projects = JoinNames[d.projects], !.invoice = d.invoice]
=============================================================================
