------------------------ MODULE MCPaymentMethodSetup ------------------------
(***************************************************************************)
(* PaymentMethodSetup for TLC: the replicas and the webhook requests are    *)
(* model values.  Every run names the subsets and bounds it takes.          *)
(***************************************************************************)
EXTENDS PaymentMethodSetup

CONSTANTS r1, r2, q1
=============================================================================
