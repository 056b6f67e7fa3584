--------------------------- MODULE PreimageSource ---------------------------
(***************************************************************************)
(* One observation of FnnStoreChangePreimageSource                         *)
(* (packages/fiber/src/preimageSource.ts) with the payment it is armed     *)
(* for: observe() opens a socket, subscribes, and hands out a promise of   *)
(* the preimage; forward() of JitService sends the payment after that.     *)
(*                                                                         *)
(* The stream of the paying node is live only.  The socket's events come   *)
(* in turns of their own: open, messages in the order sent, errors, close. *)
(***************************************************************************)
EXTENDS Sequences, Integers

CONSTANTS
    Own, Others,  \* the hash observed, and hashes of other payments
    MaxWire       \* bound on messages under way

ASSUME HashAssumption ==
    /\ Own \notin Others /\ MaxWire \in Nat
    /\ ({Own} \cup Others) \cap {"ack", "refusal", "pending", "nothing"} = {}

VARIABLES
    socket,    \* connecting, open, closing (close() was called), closed
    wire,      \* messages the node sent and the socket has not delivered
    node,      \* the node's side: none, asked, subscribed
    setup,     \* the promise of observe(): pending, armed, failed
    known,     \* subscriptionId is set
    preimage,  \* the promise handed out: pending, nothing, or a hash's preimage
    payment,   \* unsent, sent, paid
    lost       \* history: the connection broke, or the caller closed it

srcVars == <<socket, wire, node, setup, known, preimage, payment, lost>>

SrcInit ==
    /\ socket = "connecting" /\ wire = <<>> /\ node = "none"
    /\ setup = "pending" /\ known = FALSE /\ preimage = "pending"
    /\ payment = "unsent" /\ lost = FALSE

-----------------------------------------------------------------------------
(* Slips: mistakes one could make in the steps below, none of them in the   *)
(* code.                                                                    *)

\* The hash of the event is not compared.
MatchesAny(h) == TRUE

-----------------------------------------------------------------------------

Shut == socket' = IF socket = "closed" THEN "closed" ELSE "closing"
Finish(value) == preimage' = IF preimage = "pending" THEN value ELSE preimage

\* failSetup: before the observation is armed it fails; after, it ends.
FailSetup ==
    IF setup # "pending"
    THEN Finish("nothing") /\ UNCHANGED <<setup, socket, known>>
    ELSE setup' = "failed" /\ Shut /\ UNCHANGED <<preimage, known>>

Connect ==
    /\ socket = "connecting"
    /\ socket' = "open" /\ node' = "asked"
    /\ UNCHANGED <<wire, setup, known, preimage, payment, lost>>

\* The answer to subscribe_store_changes.
Refused == FailSetup
Acked ==
    /\ known' = TRUE
    /\ setup' = IF setup = "pending" THEN "armed" ELSE setup
    /\ UNCHANGED <<socket, preimage>>

\* A store change: one before the answer belongs to no known subscription.
Matches(h) == h = Own
Event(h) ==
    IF known /\ Matches(h)
    THEN Finish(h) /\ Shut /\ UNCHANGED <<setup, known>>
    ELSE UNCHANGED <<socket, setup, known, preimage>>

Message ==
    /\ socket \in {"open", "closing"}
    /\ wire # <<>>
    /\ wire' = Tail(wire)
    /\ CASE Head(wire) = "ack" -> Acked
         [] Head(wire) = "refusal" -> Refused
         [] OTHER -> Event(Head(wire))
    /\ UNCHANGED <<node, payment, lost>>

\* The socket reports an error; its close follows.
SocketError ==
    /\ socket # "closed"
    /\ ~lost
    /\ lost' = TRUE
    /\ FailSetup
    /\ UNCHANGED <<wire, node, payment>>

\* The socket closes, by itself or because it was asked to.
SocketClose ==
    /\ socket # "closed"
    /\ socket' = "closed" /\ wire' = <<>>
    /\ setup' = IF setup = "pending" THEN "failed" ELSE setup
    /\ IF setup = "pending" THEN UNCHANGED preimage ELSE Finish("nothing")
    /\ lost' = (lost \/ socket # "closing")
    /\ UNCHANGED <<node, known, payment>>

\* close() of the observation; forward() calls it when it stops waiting.
Close ==
    /\ setup = "armed"
    /\ payment # "unsent"
    /\ Finish("nothing") /\ Shut
    /\ lost' = (lost \/ preimage = "pending")
    /\ UNCHANGED <<wire, node, setup, known, payment>>

\* forward() sends once observe() resolved, or failed.
SendAfter ==
    /\ payment = "unsent" /\ setup # "pending"
    /\ payment' = "sent"
    /\ UNCHANGED <<socket, wire, node, setup, known, preimage, lost>>

-----------------------------------------------------------------------------
(* The paying node *)

Live == socket \in {"open", "closing"}
Publish(h) == IF Live /\ node # "none" /\ node # "asked" THEN Append(wire, h) ELSE wire

NodeAnswers ==
    /\ node = "asked" /\ Live
    /\ \/ node' = "subscribed" /\ wire' = Append(wire, "ack")
       \/ node' = "none" /\ wire' = Append(wire, "refusal")
    /\ UNCHANGED <<socket, setup, known, preimage, payment, lost>>

PaymentEnds ==
    /\ payment = "sent"
    /\ payment' = "paid"
    /\ wire' = Publish(Own)
    /\ UNCHANGED <<socket, node, setup, known, preimage, lost>>

\* Another payment of the node.
OtherPayment(h) ==
    /\ Len(wire) < MaxWire
    /\ Live /\ node = "subscribed"
    /\ wire' = Append(wire, h)
    /\ UNCHANGED <<socket, node, setup, known, preimage, payment, lost>>

SrcNext ==
    \/ Connect \/ Message \/ SocketError \/ SocketClose \/ Close \/ SendAfter
    \/ NodeAnswers \/ PaymentEnds \/ \E h \in Others : OtherPayment(h)

SrcSpec == SrcInit /\ [][SrcNext]_srcVars

-----------------------------------------------------------------------------
(* Properties *)

\* The observation yields the preimage of its own payment or nothing, and
\* nothing only if the connection was lost or given up.  The preimage of a
\* payment sent after observe() resolved is never missed: it is on its way (the
\* subscription is confirmed before the promise is handed out), and nobody
\* waits on a closed socket.
OwnPreimageOnly ==
    /\ preimage \in {"pending", "nothing", Own}
    /\ preimage = "nothing" /\ setup = "armed" => lost
    /\ payment = "paid" /\ setup = "armed" /\ preimage = "pending" =>
          \E i \in DOMAIN wire : wire[i] = Own
    /\ setup = "armed" => known
    /\ socket = "closed" => setup # "pending" /\ (setup = "armed" => preimage # "pending")

=============================================================================
