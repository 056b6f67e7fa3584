----------------------------- MODULE MCLspNode ------------------------------
(* What is asked of the LSP's node without an escrow: prepaid openings, and  *)
(* the mock network under whatever its callers ask of it.  They share no     *)
(* state, so a behaviour is one of either: `part` says which.                *)
EXTENDS MCPrepaid, MockWorld

VARIABLE part

(* The customer's channel to the hold node, and the LSP's to the merchant;  *)
(* a hold invoice of the LSP, a regular one of the merchant.                *)
MCMeets == {<<"C", "H">>}
MCOpens == {<<"C", "H">>, <<"H", "M">>}
MCObserved == {<<"H", "b2">>}
MCBills == [b1 |-> [issuer |-> "H", asset |-> "R", held |-> TRUE],
            b2 |-> [issuer |-> "M", asset |-> "R", held |-> FALSE]]

LspNodeInit == part \in {"prepaid", "mock"} /\ Init /\ WorldInit

LspNodeNext ==
    /\ UNCHANGED part
    /\ \/ part = "prepaid" /\ Next /\ UNCHANGED worldVars
       \/ part = "mock" /\ WorldNext /\ UNCHANGED vars

\* The openings do not move while the mock does, so a behaviour of the mock is
\* not a fair one: what must end is asked of the openings only.
LspNodeSpec == LspNodeInit /\ [][LspNodeNext]_<<part, vars, worldVars>> /\ Fairness

=============================================================================
