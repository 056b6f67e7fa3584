-------------------------- MODULE MCInvoiceWebhooks --------------------------
(* Two watches of one merchant backend.                                     *)
EXTENDS InvoiceWebhooks

CONSTANTS w1, w2

=============================================================================
