------------------------------ MODULE JitEscrow ------------------------------
(***************************************************************************)
(* What a just-in-time order promises, whatever the LSP does inside: "hold *)
(* before funding, merchant payment before hold settlement", and a failure *)
(* before the merchant's payment gives the customer the money back.        *)
(***************************************************************************)
CONSTANT Orders

VARIABLES
    payer,    \* the customer's money: unpaid, locked, taken or returned
    capital,  \* the LSP has put its capital into a channel for the order
    merchant  \* the merchant's money: unpaid, paying or paid

vars == <<payer, capital, merchant>>

Init ==
    /\ payer = [o \in Orders |-> "unpaid"]
    /\ capital = [o \in Orders |-> FALSE]
    /\ merchant = [o \in Orders |-> "unpaid"]

Lock(o) ==
    /\ payer[o] = "unpaid"
    /\ payer' = [payer EXCEPT ![o] = "locked"]
    /\ UNCHANGED <<capital, merchant>>

\* The customer's money may go back while the channel is being opened.
Fund(o) ==
    /\ payer[o] # "unpaid"
    /\ capital' = [capital EXCEPT ![o] = TRUE]
    /\ UNCHANGED <<payer, merchant>>

\* The merchant is offered payment only over a channel, and only while the
\* customer's money is locked.
Offer(o) ==
    /\ capital[o]
    /\ payer[o] = "locked"
    /\ merchant[o] = "unpaid"
    /\ merchant' = [merchant EXCEPT ![o] = "paying"]
    /\ UNCHANGED <<payer, capital>>

Conclude(o) ==
    /\ merchant[o] = "paying"
    /\ \E m \in {"paid", "unpaid"} : merchant' = [merchant EXCEPT ![o] = m]
    /\ UNCHANGED <<payer, capital>>

Take(o) ==
    /\ merchant[o] = "paid"
    /\ payer[o] = "locked"
    /\ payer' = [payer EXCEPT ![o] = "taken"]
    /\ UNCHANGED <<capital, merchant>>

Return(o) ==
    /\ merchant[o] = "unpaid"
    /\ payer[o] = "locked"
    /\ payer' = [payer EXCEPT ![o] = "returned"]
    /\ UNCHANGED <<capital, merchant>>

Next ==
    \E o \in Orders :
        Lock(o) \/ Fund(o) \/ Offer(o) \/ Conclude(o) \/ Take(o) \/ Return(o)

Spec == Init /\ [][Next]_vars

=============================================================================
