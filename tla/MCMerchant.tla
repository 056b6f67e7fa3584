----------------------------- MODULE MCMerchant -----------------------------
(* Loops and queues: receiving and the liquidity monitor of a merchant, two  *)
(* sales at a time; the settlement webhooks of two watches; the lock by key  *)
(* under three calls for one merchant and one for another.  They share no    *)
(* state, so a behaviour is one of any of them: `part` says which, and the   *)
(* others stay where they start.                                             *)
EXTENDS Inbound, InvoiceWebhooks, KeyedLock

CONSTANTS w1, w2, c1, c2, c3, c4, merchant1, merchant2

VARIABLE part

MCKey == [c \in Runs |-> IF c = c4 THEN merchant2 ELSE merchant1]

MerchantInit ==
    /\ part \in {"inbound", "webhooks", "lock"}
    /\ InboundInit /\ (part = "inbound" \/ (hook /\ feeMode = "prepaid"))
    /\ Init
    /\ LockInit

MerchantNext ==
    /\ UNCHANGED part
    /\ \/ part = "inbound" /\ InboundNext /\ UNCHANGED <<vars, lockVars>>
       \/ part = "webhooks" /\ Next /\ UNCHANGED <<inboundVars, lockVars>>
       \/ part = "lock" /\ LockNext /\ UNCHANGED <<inboundVars, vars>>

\* No step that any part owes is enabled while the part has not started.
MerchantSpec ==
    /\ MerchantInit /\ [][MerchantNext]_<<part, inboundVars, vars, lockVars>>
    /\ InboundFairness /\ Fairness /\ LockFairness

=============================================================================
