----------------------------- MODULE OpenChannel -----------------------------
(***************************************************************************)
(* openChannelAndAwait, packages/fiber/src/openChannel.ts: open a channel  *)
(* to a merchant, wait until it is ready, and return it.  The node does    *)
(* not say which channel an open became: the caller remembers the channels *)
(* that were there before, and takes a ready one that was not.             *)
(*                                                                         *)
(* Several openers work on one merchant: JIT orders, which take openLock   *)
(* and abandon what did not become ready, and prepaid orders, which do     *)
(* neither.  A channel is named by the opener whose open_channel made it.  *)
(***************************************************************************)
EXTENDS Naturals

CONSTANTS
    Openers,   \* the calls, all for one merchant node
    Locked,    \* the openers that hold openLock while they work
    Abandons,  \* the openers called with abandonOrphanOnTimeout
    Asset,     \* Asset[o] is the asset of the channel o wants
    Tries,     \* featureRetryAttempts
    Faults     \* what may go wrong in this instance

AllFaults == {"rpc", "features"}

ASSUME LockedAssumption == Locked \subseteq Openers
ASSUME AbandonsAssumption == Abandons \subseteq Openers
ASSUME TriesAssumption == Tries \in Nat \ {0}
ASSUME FaultsAssumption == Faults \subseteq AllFaults

VARIABLES
    pc,      \* where each opener waits
    tries,   \* attempts to open so far
    before,  \* the channels each opener saw before it opened its own
    todo,    \* the orphans each opener is abandoning
    found,   \* what each opener returned: a set of at most one channel
    chan     \* node: the channel each opener's open_channel made

vars == <<pc, tries, before, todo, found, chan>>

Working == {"snapshot", "open", "poll", "listOrphans", "abandon"}
Pcs == Working \cup {"idle", "done"}

Goto(o, p) == pc' = [pc EXCEPT ![o] = p]

\* list_channels shows pending and ready channels, and not abandoned ones.
Listed == {c \in Openers : chan[c] \in {"pending", "ready"}}
Ours(o) == {c \in Listed \ before[o] : Asset[c] = Asset[o]}

Init ==
    /\ pc = [o \in Openers |-> "idle"]
    /\ tries = [o \in Openers |-> 0]
    /\ before = [o \in Openers |-> {}]
    /\ todo = [o \in Openers |-> {}]
    /\ found = [o \in Openers |-> {}]
    /\ chan = [o \in Openers |-> "none"]

-----------------------------------------------------------------------------
(* Slips: mistakes one could make in the steps below.                       *)

\* Only ready channels count as there before.
SnapshotReady(o) ==
    /\ pc[o] = "snapshot"
    /\ before' = [before EXCEPT ![o] = {c \in Openers : chan[c] = "ready"}]
    /\ Goto(o, "open")
    /\ UNCHANGED <<tries, todo, found, chan>>

\* Every channel that is not ready is an orphan.
ListOrphansAll(o) ==
    /\ pc[o] = "listOrphans"
    /\ todo' = [todo EXCEPT ![o] = {c \in Listed : chan[c] # "ready"}]
    /\ Goto(o, "abandon")
    /\ UNCHANGED <<tries, before, found, chan>>

-----------------------------------------------------------------------------

\* The caller takes openLock, or has none to take.
Begin(o) ==
    /\ pc[o] = "idle"
    /\ o \in Locked => \A p \in Locked \ {o} : pc[p] \notin Working
    /\ Goto(o, "snapshot")
    /\ UNCHANGED <<tries, before, todo, found, chan>>

\* Connect to the merchant if needed, and list the channels with it.
Snapshot(o) ==
    /\ pc[o] = "snapshot"
    /\ \/ /\ before' = [before EXCEPT ![o] = Listed]
          /\ Goto(o, "open")
       \/ /\ "rpc" \in Faults
          /\ Goto(o, "done")
          /\ UNCHANGED before
    /\ UNCHANGED <<tries, todo, found, chan>>

\* The node takes the open (its answer may be lost), or refuses it.
Open(o) ==
    /\ pc[o] = "open"
    /\ \/ /\ chan' = [chan EXCEPT ![o] = "pending"]
          /\ Goto(o, "poll") \/ ("rpc" \in Faults /\ Goto(o, "done"))
       \/ /\ Goto(o, "done")
          /\ UNCHANGED chan
    /\ UNCHANGED <<tries, before, todo, found>>

\* The merchant's features are not known yet: connect afresh and try again.
\* Only JIT orders ask for this (reconnectOnFeatureMiss) and for the clean-up.
OpenAgain(o) ==
    /\ "features" \in Faults
    /\ o \in Abandons
    /\ pc[o] = "open"
    /\ tries[o] < Tries - 1
    /\ tries' = [tries EXCEPT ![o] = @ + 1]
    /\ UNCHANGED <<pc, before, todo, found, chan>>

\* A poll that sees a new, ready channel of the asset returns it.
PollFinds(o) ==
    /\ pc[o] = "poll"
    /\ \E c \in Ours(o) :
          /\ chan[c] = "ready"
          /\ found' = [found EXCEPT ![o] = {c}]
    /\ Goto(o, "done")
    /\ UNCHANGED <<tries, before, todo, chan>>

\* The last poll saw none, or a poll failed, which is not caught.
PollEnds(o) ==
    /\ pc[o] = "poll"
    /\ \/ /\ \A c \in Ours(o) : chan[c] # "ready"
          /\ Goto(o, IF o \in Abandons THEN "listOrphans" ELSE "done")
       \/ "rpc" \in Faults /\ Goto(o, "done")
    /\ UNCHANGED <<tries, before, todo, found, chan>>

ListOrphans(o) ==
    /\ pc[o] = "listOrphans"
    /\ \/ /\ todo' = [todo EXCEPT ![o] = {c \in Ours(o) : chan[c] # "ready"}]
          /\ Goto(o, "abandon")
       \/ /\ "rpc" \in Faults
          /\ Goto(o, "done")
          /\ UNCHANGED todo
    /\ UNCHANGED <<tries, before, found, chan>>

\* One orphan after the other; the first failure ends it.
Abandon(o) ==
    /\ pc[o] = "abandon"
    /\ \/ \E c \in todo[o] :
             /\ chan[c] = "pending"
             /\ chan' = [chan EXCEPT ![c] = "abandoned"]
             /\ todo' = [todo EXCEPT ![o] = @ \ {c}]
             /\ UNCHANGED pc
       \/ /\ \/ todo[o] = {}
             \/ \E c \in todo[o] : chan[c] # "pending" \/ "rpc" \in Faults
          /\ Goto(o, "done")
          /\ UNCHANGED <<todo, chan>>
    /\ UNCHANGED <<tries, before, found>>

\* The node: the funding transaction confirms.
ChannelReady(o) ==
    /\ chan[o] = "pending"
    /\ chan' = [chan EXCEPT ![o] = "ready"]
    /\ UNCHANGED <<pc, tries, before, todo, found>>

Next ==
    \E o \in Openers :
        \/ Begin(o) \/ Snapshot(o) \/ Open(o) \/ OpenAgain(o)
        \/ PollFinds(o) \/ PollEnds(o) \/ ListOrphans(o) \/ Abandon(o)
        \/ ChannelReady(o)

Spec == Init /\ [][Next]_vars

-----------------------------------------------------------------------------
(* Properties *)

TypeOK ==
    /\ pc \in [Openers -> Pcs]
    /\ tries \in [Openers -> 0 .. Tries - 1]
    /\ before \in [Openers -> SUBSET Openers]
    /\ todo \in [Openers -> SUBSET Openers]
    /\ found \in [Openers -> SUBSET Openers]
    /\ chan \in [Openers -> {"none", "pending", "ready", "abandoned"}]

\* An opener returns the channel that its own open made, and no other ("which
\* channel to this peer is new", keyedLock.ts).
OwnChannel == \A o \in Openers : found[o] \subseteq {o}

\* A channel is abandoned only by the opener that opened it: no order loses
\* its channel to the clean-up of another.
AbandonsOwn ==
    [][\A c \in Openers :
          chan[c] # "abandoned" /\ chan'[c] = "abandoned" => pc[c] = "abandon"]_vars

=============================================================================
