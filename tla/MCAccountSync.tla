---------------------------- MODULE MCAccountSync ----------------------------
(***************************************************************************)
(* AccountSync for TLC: two projects, the names of which fit one at a time, *)
(* and two lists of tax ids, one with an id that Stripe rejects.            *)
(***************************************************************************)
EXTENDS AccountSync

CONSTANTS acme, holder, vat, bogus, gst

MCNames == {NoName, acme, holder}
MCNameBytes == <<8, 15>>

\* A rejected id between two others, and a list that lacks the first of them.
MCTaxLists == {<<gst>>, <<vat, bogus, gst>>}

\* The loop against its comment, for every selection of names of these lengths: lists
\* that just fit, that are one byte too long, and that are much too long.  Where a
\* list fits but leaves no room for an ellipsis, the loop truncates it nevertheless.
Long == INSTANCE CustomerDetails WITH NameBytes <- <<5, 3, 1, 4, 6, 2, 5>>

ASSUME JoinNamesAsDescribed ==
  \A b \in SUBSET Long!Projects :
    Long!JoinNames[b] = IF Long!NearCap(b) THEN Long!Truncated(b)
                                           ELSE Long!Abridged[b]

ASSUME JoinNamesCutsEarly ==
  \E b \in SUBSET Long!Projects : Long!JoinNames[b] # Long!Abridged[b]
=============================================================================
