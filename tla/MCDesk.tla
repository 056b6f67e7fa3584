------------------------------- MODULE MCDesk -------------------------------
(* What stands around an order: the market a merchant shops in, its checkout *)
(* and books, its streaming lease, the prover's key cache, rebalancing, the  *)
(* preimage source, the reference server and the records of the demo.        *)
(* They share no state, so a behaviour is one of any of them: `part` says    *)
(* which, and the others stay where they start.                              *)
EXTENDS Market, Checkout, StreamingLease, LinkedProver, Rebalance,
        PreimageSource, LspServer, Demo

VARIABLE part

-----------------------------------------------------------------------------
MCChannels == <<"a", "b", "c">>
MCTotal == [c \in {"a", "b", "c"} |-> 4]

(* Two spellings of a key, two asset floors, an endpoint known only from    *)
(* the graph, and more nodes than a page.                                   *)
MCNorm(k) == IF k = "0xk1" THEN "k1" ELSE k
Info(k, b, p, mx, m) ==
    [pubkey |-> k, asset |-> "CKB", base |-> b, bps |-> p, min |-> 2, max |-> mx,
     modes |-> m, stream |-> 5000]
MCInfos ==
    [u1 |-> {Info("k1", 1, 5000, 8, {"prepaid"})},
     u2 |-> {Info("0xk1", 2, 0, 8, {"prepaid", "from_capacity"}),
             Info("0xk1", 3, 0, 2, {"from_capacity"})},
     u3 |-> {Info("k2", 2, 2500, 8, {"prepaid"}), Info("k2", 1, 0, 2, {"prepaid"})}]
MCRegistry == <<[url |-> "u1", pubkey |-> "none"], [url |-> "u2", pubkey |-> "0xk1"]>>
FloorOf(a, f) == [asset |-> a, floor |-> f]
MCGraph ==
    <<[pubkey |-> "k1", url |-> "none", lsp |-> TRUE,
       floors |-> <<FloorOf("CKB", 1), FloorOf("UDT", 1)>>],
      [pubkey |-> "k2", url |-> "u3", lsp |-> TRUE, floors |-> <<FloorOf("CKB", 3)>>],
      [pubkey |-> "k3", url |-> "none", lsp |-> TRUE, floors |-> <<FloorOf("CKB", 2)>>],
      [pubkey |-> "k4", url |-> "none", lsp |-> FALSE,
       floors |-> <<FloorOf("CKB", 0), FloorOf("UDT", 1)>>]>>
MCAsk == [asset |-> "CKB", amount |-> 4, mode |-> "prepaid", client |-> 0]

(* Two native proofs of one process, and one of another, whose hold hash is *)
(* not its secret's.                                                        *)
MCProc == [p1 |-> "A", p2 |-> "A", p3 |-> "B"]
MCBackend == [p1 |-> "native", p2 |-> "native", p3 |-> "wasm"]
Honestly(s) == [secret |-> s, hold |-> <<"hold", s>>, merchant |-> <<"merchant", s>>]
MCWanted == [p1 |-> Honestly("s"), p2 |-> Honestly("s"),
             p3 |-> [Honestly("s") EXCEPT !.hold = <<"hold", "x">>]]

(* Environments: one node or two, one that is given twice, keys that can    *)
(* and cannot be read, the exposed secret.                                  *)
Deployment(k, v, e, p, f) ==
    [pubkey |-> k, vk |-> v, exposed |-> e, pay |-> p, files |-> f, merchant |-> f]
MCDeployments ==
    {Deployment(FALSE, "good", FALSE, "none", TRUE),
     Deployment(FALSE, "none", FALSE, "other", TRUE),
     Deployment(TRUE, "bad", FALSE, "same", TRUE),
     Deployment(FALSE, "none", FALSE, "same", FALSE),
     Deployment(FALSE, "good", TRUE, "other", FALSE),
     Deployment(FALSE, "bad", TRUE, "other", FALSE)}

(* A fit topology, two chains, one node in two roles, a channel that is not *)
(* ready, a peer that is gone.                                              *)
Found(chain, key, usable, peer) ==
    [nodes |-> [lsp |-> [key |-> "L", chain |-> "t"], merchant |-> [key |-> key, chain |-> "t"],
                customer |-> [key |-> "C", chain |-> chain]],
     channels |-> {[enabled |-> TRUE, ready |-> usable, matches |-> TRUE, local |-> 2]},
     peer |-> peer, observes |-> TRUE]
MCTopologies == {Found("t", "M", TRUE, TRUE), Found("m", "M", TRUE, TRUE),
                 Found("t", "L", TRUE, TRUE), Found("t", "M", FALSE, TRUE),
                 Found("t", "M", TRUE, FALSE)}

-----------------------------------------------------------------------------

DeskInit ==
    /\ part \in {"market", "checkout", "lease", "prover", "rebalance", "source",
                "server", "demo"}
    /\ MarketInit /\ (part = "market" \/ serving = [u \in Urls |-> Down])
    /\ CheckoutInit
    /\ part = "checkout" \/ checkoutTerms = <<"none", "linked", FALSE, FALSE>>
    /\ LeaseInit
    /\ ProverInit
    /\ part = "prover" \/ (ark = <<Absent>> /\ checks = CHOOSE s \in Selected : TRUE)
    /\ RebalInit /\ (part = "rebalance" \/ local = [c \in Chans |-> 2])
    /\ SrcInit
    /\ ServerInit
    /\ part = "server" \/ (/\ deploy = Deployment(FALSE, "none", FALSE, "other", TRUE)
                           /\ holdUp /\ payUp /\ kind = [o \in Orders |-> "jit"])
    /\ DemoInit /\ (part = "demo" \/ (hosted /\ topology = Found("t", "M", TRUE, TRUE)))

DeskNext ==
    /\ UNCHANGED part
    /\ \/ /\ part = "market" /\ MarketNext
          /\ UNCHANGED <<checkoutVars, leaseVars, prvVars, rebalVars, srcVars, srvVars, demoVars>>
       \/ /\ part = "checkout" /\ CheckoutNext
          /\ UNCHANGED <<mktVars, leaseVars, prvVars, rebalVars, srcVars, srvVars, demoVars>>
       \/ /\ part = "lease" /\ LeaseNext
          /\ UNCHANGED <<mktVars, checkoutVars, prvVars, rebalVars, srcVars, srvVars, demoVars>>
       \/ /\ part = "prover" /\ ProverNext
          /\ UNCHANGED <<mktVars, checkoutVars, leaseVars, rebalVars, srcVars, srvVars, demoVars>>
       \/ /\ part = "rebalance" /\ RebalNext
          /\ UNCHANGED <<mktVars, checkoutVars, leaseVars, prvVars, srcVars, srvVars, demoVars>>
       \/ /\ part = "source" /\ SrcNext
          /\ UNCHANGED <<mktVars, checkoutVars, leaseVars, prvVars, rebalVars, srvVars, demoVars>>
       \/ /\ part = "server" /\ ServerNext
          /\ UNCHANGED <<mktVars, checkoutVars, leaseVars, prvVars, rebalVars, srcVars, demoVars>>
       \/ /\ part = "demo" /\ DemoNext
          /\ UNCHANGED <<mktVars, checkoutVars, leaseVars, prvVars, rebalVars, srcVars, srvVars>>

DeskSpec ==
    DeskInit /\ [][DeskNext]_<<part, mktVars, checkoutVars, leaseVars, prvVars, rebalVars,
                                 srcVars, srvVars, demoVars>>

=============================================================================
