----------------------------- MODULE DeskProofs -----------------------------
(***************************************************************************)
(* The theorems about what stands around the engine on the LSP's side:     *)
(* PreimageSource, the reference server, rebalancing and the linked prover.*)
(* They share no state; each part below has its inductive invariant, one   *)
(* proof per action, and its theorems.                                     *)
(***************************************************************************)
EXTENDS PreimageSource, LspServer, Rebalance, LinkedProver,
        SequenceTheorems, FiniteSetTheorems, TLAPS

-----------------------------------------------------------------------------
(* PreimageSource                                                           *)

\* OwnPreimageOnly is about what the observer sees; what it rests on is in the
\* wire: the node answers the subscription once, so an observer that is armed
\* has no refusal coming, and a node whose answer was delivered publishes every
\* payment from then on.

Messages == {"ack", "refusal", Own} \cup Others
Holds(m) == \E i \in 1 .. Len(wire) : wire[i] = m

SrcTypeOK ==
    /\ socket \in {"connecting", "open", "closing", "closed"}
    /\ wire \in Seq(Messages)
    /\ node \in {"none", "asked", "subscribed"}
    /\ setup \in {"pending", "armed", "failed"}
    /\ known \in BOOLEAN /\ lost \in BOOLEAN
    /\ payment \in {"unsent", "sent", "paid"}

\* The node answers once, after the socket opened.
AnswersOnce ==
    /\ socket = "connecting" => setup = "pending" /\ node = "none"
    /\ socket = "connecting" \/ node = "asked" =>
          ~known /\ ~Holds("ack") /\ ~Holds("refusal")
    /\ Holds("ack") \/ known => node = "subscribed"
    /\ Holds("refusal") => node = "none"

\* Until it is armed or fails the socket is there; armed, it is closed only
\* with the promise settled.
SrcWaits ==
    /\ setup = "pending" => ~known /\ socket \in {"connecting", "open"}
    /\ setup = "pending" => payment = "unsent" /\ preimage = "pending"
    /\ setup = "armed" /\ socket = "closing" => preimage # "pending"

\* OwnPreimageOnly, in the terms of Holds.
Yields ==
    /\ preimage \in {"pending", "nothing", Own}
    /\ preimage = "nothing" /\ setup = "armed" => lost
    /\ payment = "paid" /\ setup = "armed" /\ preimage = "pending" => Holds(Own)
    /\ setup = "armed" => known
    /\ socket = "closed" => setup # "pending" /\ (setup = "armed" => preimage # "pending")

SrcInv == SrcTypeOK /\ AnswersOnce /\ SrcWaits /\ Yields

-----------------------------------------------------------------------------

\* A message that is sent comes last.
LEMMA SendRight ==
    ASSUME wire \in Seq(Messages), NEW m \in Messages, wire' = Append(wire, m)
    PROVE  /\ wire' \in Seq(Messages)
           /\ \A n : Holds(n)' <=> Holds(n) \/ n = m
<1>1. /\ wire' \in Seq(Messages) /\ Len(wire') = Len(wire) + 1
      /\ wire'[Len(wire) + 1] = m
      /\ \A i \in 1 .. Len(wire) : wire'[i] = wire[i]
  BY AppendProperties
<1>2. Len(wire) \in Nat
  BY LenProperties
<1>3. ASSUME NEW n, Holds(n) \/ n = m PROVE Holds(n)'
  <2>1. CASE Holds(n)
    <3>1. PICK i \in 1 .. Len(wire) : wire[i] = n
      BY <2>1 DEF Holds
    <3>2. i \in 1 .. Len(wire') /\ wire'[i] = n
      BY <1>1, <1>2, <3>1
    <3> QED
      BY <3>2 DEF Holds
  <2>2. CASE n = m
    <3>1. Len(wire) + 1 \in 1 .. Len(wire') /\ wire'[Len(wire) + 1] = n
      BY <1>1, <1>2, <2>2
    <3> QED
      BY <3>1 DEF Holds
  <2> QED
    BY <1>3, <2>1, <2>2
<1>4. ASSUME NEW n, Holds(n)' PROVE Holds(n) \/ n = m
  <2>1. PICK i \in 1 .. Len(wire') : wire'[i] = n
    BY <1>4 DEF Holds
  <2>2. CASE i = Len(wire) + 1
    BY <1>1, <2>1, <2>2
  <2>3. CASE i \in 1 .. Len(wire)
    BY <1>1, <2>1, <2>3 DEF Holds
  <2> QED
    BY <1>1, <1>2, <2>1, <2>2, <2>3
<1> QED
  BY <1>1, <1>3, <1>4

\* A message that is delivered was the first; the others are still there.
LEMMA DeliverRight ==
    ASSUME wire \in Seq(Messages), wire # <<>>, wire' = Tail(wire)
    PROVE  /\ wire' \in Seq(Messages)
           /\ Head(wire) \in Messages /\ Holds(Head(wire))
           /\ \A n : Holds(n)' => Holds(n)
           /\ \A n : Holds(n) => Holds(n)' \/ n = Head(wire)
<1>1. /\ wire' \in Seq(Messages) /\ Len(wire') = Len(wire) - 1
      /\ \A i \in 1 .. Len(wire) - 1 : wire'[i] = wire[i + 1]
  BY HeadTailProperties
<1>2. Len(wire) \in Nat /\ Len(wire) # 0
  BY LenProperties, EmptySeq
<1>3. Head(wire) = wire[1] /\ Head(wire) \in Messages
  BY HeadTailProperties
<1>4. Holds(Head(wire))
  BY <1>2, <1>3 DEF Holds
<1>5. ASSUME NEW n, Holds(n)' PROVE Holds(n)
  <2>1. PICK i \in 1 .. Len(wire') : wire'[i] = n
    BY <1>5 DEF Holds
  <2>2. i + 1 \in 1 .. Len(wire) /\ wire[i + 1] = n
    BY <1>1, <1>2, <2>1
  <2> QED
    BY <2>2 DEF Holds
<1>6. ASSUME NEW n, Holds(n), n # Head(wire) PROVE Holds(n)'
  <2>1. PICK i \in 1 .. Len(wire) : wire[i] = n
    BY <1>6 DEF Holds
  <2>2. i - 1 \in 1 .. Len(wire')
    BY <1>1, <1>2, <1>3, <1>6, <2>1
  <2>3. wire'[i - 1] = n
    BY <1>1, <2>1, <2>2
  <2> QED
    BY <2>2, <2>3 DEF Holds
<1> QED
  BY <1>1, <1>3, <1>4, <1>5, <1>6

\* The socket is being opened, and no message is under way.
LEMMA SrcInvInit == SrcInit => SrcInv
<1> SUFFICES ASSUME SrcInit PROVE SrcInv
  OBVIOUS
<1>1. wire \in Seq(Messages) /\ Len(wire) = 0
  BY EmptySeq DEF SrcInit
<1>2. \A m : ~Holds(m)
  BY <1>1 DEF Holds
<1> QED
  BY <1>1, <1>2 DEF SrcInit, SrcInv, SrcTypeOK, AnswersOnce, SrcWaits, Yields

\* One case per action; a message by what it is.
LEMMA SrcInvStep == SrcInv /\ [SrcNext]_srcVars => SrcInv'
<1> SUFFICES ASSUME SrcInv, [SrcNext]_srcVars PROVE SrcInv'
  OBVIOUS
<1> USE DEF SrcInv, SrcTypeOK, AnswersOnce, SrcWaits, Yields
<1>d. Own \notin {"ack", "refusal", "pending", "nothing"}
      /\ \A h \in Others : h \notin {Own, "ack", "refusal"}
  BY HashAssumption
<1>w. ASSUME wire' = wire PROVE \A m : Holds(m)' <=> Holds(m)
  BY <1>w DEF Holds
<1>1. CASE Connect
  BY <1>1, <1>w DEF Connect
<1>2. CASE Message
  <2> DEFINE m == Head(wire)
  <2>1. /\ wire' \in Seq(Messages)
        /\ m \in Messages /\ Holds(m)
        /\ \A n : Holds(n)' => Holds(n)
        /\ \A n : Holds(n) => Holds(n)' \/ n = m
    BY <1>2, DeliverRight DEF Message
  <2>2. /\ socket \in {"open", "closing"}
        /\ UNCHANGED <<node, payment, lost>>
        /\ CASE m = "ack" -> Acked
             [] m = "refusal" -> Refused
             [] OTHER -> Event(m)
    BY <1>2 DEF Message
  <2> HIDE DEF m
  <2>3. CASE m = "ack"
    <3>1. Acked
      BY <2>2, <2>3
    <3> QED
      BY <1>d, <2>1, <2>2, <2>3, <3>1 DEF Acked
  <2>4. CASE m = "refusal"
    <3>1. FailSetup /\ setup # "armed"
      BY <2>1, <2>2, <2>4 DEF Refused
    <3> QED
      BY <1>d, <2>1, <2>2, <2>4, <3>1 DEF FailSetup, Finish, Shut
  <2>5. CASE m \notin {"ack", "refusal"}
    <3>1. Event(m)
      BY <2>2, <2>5
    <3>2. CASE known /\ m = Own
      BY <1>d, <2>1, <2>2, <3>1, <3>2 DEF Event, Matches, Finish, Shut
    <3>3. CASE ~(known /\ m = Own)
      BY <1>d, <2>1, <2>2, <3>1, <3>3 DEF Event, Matches
    <3> QED
      BY <3>2, <3>3
  <2> QED
    BY <2>3, <2>4, <2>5
<1>3. CASE SocketError
  BY <1>3, <1>w, <1>d DEF SocketError, FailSetup, Finish, Shut
<1>4. CASE SocketClose
  <2>1. wire' \in Seq(Messages) /\ Len(wire') = 0
    BY <1>4, EmptySeq DEF SocketClose
  <2>2. \A m : ~Holds(m)'
    BY <2>1 DEF Holds
  <2> QED
    BY <1>4, <1>d, <2>1, <2>2 DEF SocketClose, Finish
<1>5. CASE Close
  BY <1>5, <1>w, <1>d DEF Close, Finish, Shut
<1>6. CASE SendAfter
  BY <1>6, <1>w DEF SendAfter
<1>7. CASE NodeAnswers
  <2>1. /\ node = "asked" /\ Live
        /\ UNCHANGED <<socket, setup, known, preimage, payment, lost>>
        /\ \/ node' = "subscribed" /\ wire' = Append(wire, "ack")
           \/ node' = "none" /\ wire' = Append(wire, "refusal")
    BY <1>7 DEF NodeAnswers
  <2>2. CASE node' = "subscribed" /\ wire' = Append(wire, "ack")
    <3>1. wire' \in Seq(Messages) /\ \A n : Holds(n)' <=> Holds(n) \/ n = "ack"
      BY <2>2, SendRight DEF Messages
    <3> QED
      BY <1>d, <2>1, <2>2, <3>1 DEF Live
  <2>3. CASE node' = "none" /\ wire' = Append(wire, "refusal")
    <3>1. wire' \in Seq(Messages) /\ \A n : Holds(n)' <=> Holds(n) \/ n = "refusal"
      BY <2>3, SendRight DEF Messages
    <3> QED
      BY <1>d, <2>1, <2>3, <3>1 DEF Live
  <2> QED
    BY <2>1, <2>2, <2>3
<1>8. CASE PaymentEnds
  <2>1. /\ payment = "sent" /\ payment' = "paid"
        /\ UNCHANGED <<socket, node, setup, known, preimage, lost>>
    BY <1>8 DEF PaymentEnds
  <2>2. CASE Live /\ node = "subscribed"
    <3>1. wire' = Append(wire, Own)
      BY <1>8, <2>2 DEF PaymentEnds, Publish
    <3>2. wire' \in Seq(Messages) /\ \A n : Holds(n)' <=> Holds(n) \/ n = Own
      BY <3>1, SendRight DEF Messages
    <3> QED
      BY <1>d, <2>1, <3>2
  <2>3. CASE ~(Live /\ node = "subscribed")
    <3>1. wire' = wire
      BY <1>8, <2>3 DEF PaymentEnds, Publish
    <3> QED
      BY <1>w, <2>1, <2>3, <3>1 DEF Live
  <2> QED
    BY <2>2, <2>3
<1>9. ASSUME NEW h \in Others, OtherPayment(h) PROVE SrcInv'
  <2>1. wire' \in Seq(Messages) /\ \A n : Holds(n)' <=> Holds(n) \/ n = h
    BY <1>9, SendRight DEF OtherPayment, Messages
  <2> QED
    BY <1>9, <1>d, <2>1 DEF OtherPayment
<1>10. CASE UNCHANGED srcVars
  BY <1>10, <1>w DEF srcVars
<1> QED
  BY <1>1, <1>2, <1>3, <1>4, <1>5, <1>6, <1>7, <1>8, <1>9, <1>10 DEF SrcNext

-----------------------------------------------------------------------------

\* Whatever the order of the socket's events, an observation ends once, with
\* its own payment's preimage or with nothing, and never misses a payment sent
\* after it was armed (observe of FnnStoreChangePreimageSource).
THEOREM ObservesOwn == SrcSpec => []OwnPreimageOnly
<1>1. SrcInv => OwnPreimageOnly
  <2> SUFFICES ASSUME SrcInv PROVE OwnPreimageOnly
    OBVIOUS
  <2>1. DOMAIN wire = 1 .. Len(wire)
    BY LenProperties DEF SrcInv, SrcTypeOK
  <2> QED
    BY <2>1 DEF SrcInv, Yields, Holds, OwnPreimageOnly
<1> QED
  BY <1>1, SrcInvInit, SrcInvStep, PTL DEF SrcSpec

-----------------------------------------------------------------------------
(* The reference server                                                     *)

\* What Verifiers and PayNode make of an environment, at every start the same.
SchemesOf ==
    {s \in {"groth16", "exposed-secret"} :
        IF s = "groth16" THEN deploy.vk = "good" ELSE deploy.exposed}
ModesOf ==
    {m \in {"linked", "same_hash"} :
        IF m = "linked" THEN SchemesOf # {} ELSE deploy.pay # "none"}
Routed(o) ==
    /\ kind[o] = "jit" => ModesOf # {}
    /\ kind[o] = "watch" => deploy.merchant

SrvTypeOK ==
    /\ srvAt \in {"down", "identifying", "verifiers", "pay node", "resuming", "listening"}
    /\ kind \in [Orders -> Services]
    /\ request \in [Orders -> {"none", "open", "writing", "201", "400", "404", "500",
                               "cut"}]

\* A server that got as far mounts what the environment asks for.
SameBoot ==
    /\ srvAt \in {"pay node", "resuming", "listening"} => schemes = SchemesOf
    /\ srvAt \in {"resuming", "listening"} => modes = ModesOf

\* A request that was admitted had a route; one under way dies with the server,
\* and one being written is in memory, and in a file or about to be.
Admitted ==
    \A o \in Orders :
        /\ request[o] \in {"open", "writing", "201"} => Routed(o)
        /\ request[o] \in {"open", "writing"} => srvAt = "listening"
        /\ request[o] = "writing" =>
              o \in memory /\ (deploy.files => o \in tmp \cup disk)

\* An answered order is in its file, or was lost with the memory.
AnsweredSafe ==
    \A o \in Orders : request[o] = "201" /\ o \notin forgot =>
        /\ srvAt = "listening" => o \in memory
        /\ srvAt = "listening" /\ kind[o] = "jit" => o \in driven \cup over
        /\ IF deploy.files THEN o \in disk ELSE srvAt = "listening"

SrvInv == SrvTypeOK /\ SameBoot /\ Admitted /\ AnsweredSafe

\* No order has been asked for before the first boot.
LEMMA SrvInvInit == ServerInit => SrvInv
  BY DEF ServerInit, SrvInv, SrvTypeOK, SameBoot, Admitted, AnsweredSafe, Services

\* Once the modes are those of the environment, a service is mounted as Routed
\* says.
LEMMA MountedIsRouted ==
    ASSUME NEW o \in Orders, kind[o] \in Services, modes = ModesOf
    PROVE  Mounted(o) <=> Routed(o)
<1>1. CASE kind[o] = "jit"
  <2>1. Mounted(o) <=> modes # {}
    BY <1>1 DEF Mounted
  <2>2. Routed(o) <=> modes # {}
    BY <1>1 DEF Routed
  <2> QED
    BY <2>1, <2>2
<1>2. CASE kind[o] = "watch"
  <2>1. Mounted(o) <=> deploy.merchant
    <3>1. kind[o] # "jit"
      BY <1>2
    <3> QED
      BY <1>2, <3>1 DEF Mounted
  <2>2. Routed(o) <=> deploy.merchant
    BY <1>2 DEF Routed
  <2> QED
    BY <2>1, <2>2
<1>3. CASE kind[o] \notin {"jit", "watch"}
  <2>1. kind[o] # "jit" /\ kind[o] # "watch"
    BY <1>3
  <2> QED
    BY <2>1 DEF Mounted, Routed
<1> QED
  BY <1>1, <1>2, <1>3

\* One case per action.
LEMMA SrvInvStep == SrvInv /\ [ServerNext]_srvVars => SrvInv'
<1> SUFFICES ASSUME SrvInv, [ServerNext]_srvVars PROVE SrvInv'
  OBVIOUS
<1> USE DEF SrvInv, SrvTypeOK, SameBoot, Admitted, AnsweredSafe, Routed,
            SchemesOf, ModesOf, kept, boot
<1>1. CASE Start
  BY <1>1 DEF Start
<1>2. CASE Identify
  BY <1>2 DEF Identify
<1>3. CASE Verifiers
  BY <1>3 DEF Verifiers, Exit
<1>4. CASE PayNode
  BY <1>4 DEF PayNode, Exit
<1>5. CASE Resume
  BY <1>5 DEF Resume, Resumed
<1>6. CASE ServerCrash
  BY <1>6 DEF ServerCrash, Exit
<1>7. CASE Flap
  BY <1>7 DEF Flap
<1>8. ASSUME NEW o \in Orders, PostOrder(o) PROVE SrvInv'
  <2>1. Mounted(o) <=> Routed(o)
    BY <1>8, MountedIsRouted DEF PostOrder
  <2> HIDE DEF Routed
  <2>2. \A x \in Orders : Routed(x)' = Routed(x)
    BY <1>8 DEF PostOrder, Routed
  <2> QED
    BY <1>8, <2>1, <2>2 DEF PostOrder
<1>9. ASSUME NEW o \in Orders, Write(o) PROVE SrvInv'
  BY <1>9 DEF Write, Flushed
<1>10. ASSUME NEW o \in Orders, Stored(o) PROVE SrvInv'
  BY <1>10 DEF Stored
<1>11. ASSUME NEW o \in Orders, Refused400(o) PROVE SrvInv'
  BY <1>11 DEF Refused400
<1>12. ASSUME NEW o \in Orders, EndOrder(o) PROVE SrvInv'
  BY <1>12 DEF EndOrder
<1>13. CASE UNCHANGED srvVars
  BY <1>13 DEF srvVars
<1> QED
  BY <1>1, <1>2, <1>3, <1>4, <1>5, <1>6, <1>7, <1>8, <1>9, <1>10, <1>11, <1>12,
     <1>13 DEF ServerNext

\* An order that was answered is found whenever the server listens, and its
\* engine drives it until it is over, whatever the crashes: the environment
\* mounts the same services at every start, and only a server without files
\* forgets (file stores, resume() before listen()).
THEOREM AnsweredKept == ServerSpec => []AnsweredIsKept
<1>1. ASSUME SrvInv, srvAt = "listening", NEW o \in Orders,
             request[o] = "201", o \notin forgot
      PROVE  Get(o) = "200" /\ (kind[o] = "jit" => o \in driven \cup over)
  <2>1. o \in memory /\ Routed(o) /\ (kind[o] = "jit" => o \in driven \cup over)
    BY <1>1 DEF SrvInv, Admitted, AnsweredSafe
  <2>2. Mounted(o)
    BY <1>1, <2>1, MountedIsRouted DEF SrvInv, SrvTypeOK, SameBoot
  <2> QED
    BY <2>1, <2>2 DEF Get
<1>2. SrvInv => AnsweredIsKept
  BY <1>1 DEF AnsweredIsKept
<1> QED
  BY <1>2, SrvInvInit, SrvInvStep, PTL DEF ServerSpec

-----------------------------------------------------------------------------
(* Rebalancing                                                              *)

\* What a pass has listed is still so of every channel others left alone; its
\* plan is two channels, and the donor was found to bear what it will be asked.
RebalTypeOK ==
    /\ local = [c \in Chans |-> local[c]]
    /\ traffic \in Nat
    /\ rebalAt \in {"idle", "choosing", "pricing", "preflight", "submitting"}
SeenStands == rebalAt # "idle" => \A c \in Chans \ moved : seen[c] = local[c]
PlanStands ==
    /\ rebalAt \in {"pricing", "preflight", "submitting"} =>
          donor \in Chans /\ starved \in Chans /\ donor # starved
    /\ rebalAt \in {"preflight", "submitting"} => Affords(donor, debit)
RebalInv == RebalTypeOK /\ SeenStands /\ PlanStands

\* Nothing has been listed or planned yet.
LEMMA RebalInvInit == RebalInit => RebalInv
  BY DEF RebalInit, RebalInv, RebalTypeOK, SeenStands, PlanStands

\* One case per action.
LEMMA RebalInvStep == RebalInv /\ [RebalNext]_rebalVars => RebalInv'
<1> SUFFICES ASSUME RebalInv, [RebalNext]_rebalVars PROVE RebalInv'
  OBVIOUS
<1> USE DEF RebalInv, RebalTypeOK, SeenStands, PlanStands, plan
<1>1. CASE List
  BY <1>1 DEF List
<1>2. CASE Choose
  BY <1>2 DEF Choose, Donors, Starved, Starving, Chans, ToSet
<1>3. CASE Price
  BY <1>3 DEF Price, Affords
<1>4. CASE Preflight
  BY <1>4 DEF Preflight, Affords
<1>5. CASE Submit
  BY <1>5 DEF Submit
<1>6. CASE RebalFails
  BY <1>6 DEF RebalFails
<1>7. ASSUME NEW c \in Chans, Traffic(c) PROVE RebalInv'
  BY <1>7 DEF Traffic, Affords
<1>8. CASE UNCHANGED rebalVars
  BY <1>8 DEF rebalVars, Affords
<1> QED
  BY <1>1, <1>2, <1>3, <1>4, <1>5, <1>6, <1>7, <1>8 DEF RebalNext

\* A pass never takes its donor below the floor, fees included, unless others
\* moved the donor's balance since the pass listed it (rebalance's priced debit).
THEOREM DonorStaysAbove == RebalSpec => DonorKeepsFloor
<1>1. ASSUME RebalInv, [RebalNext]_rebalVars, Pays, donor \notin moved
      PROVE  AboveFloor(donor, local'[donor])
  <2>1. Submit
    BY <1>1 DEF RebalInv, RebalTypeOK, RebalNext, Pays, List, Choose, Price,
                Preflight, RebalFails, Traffic, rebalVars, plan
  <2>2. /\ donor \in Chans /\ starved \in Chans /\ donor # starved
        /\ Affords(donor, debit) /\ seen[donor] = local[donor]
    BY <1>1, <2>1 DEF RebalInv, SeenStands, PlanStands, Submit
  <2>3. local'[donor] = local[donor] - debit
    BY <1>1, <2>1, <2>2 DEF Submit, Pays, RebalInv, RebalTypeOK
  <2> QED
    BY <2>2, <2>3 DEF Affords
<1>2. RebalInv /\ [RebalNext]_rebalVars
        => [Pays => AboveFloor(donor, local'[donor]) \/ donor \in moved]_rebalVars
  BY <1>1
<1> QED
  BY <1>2, RebalInvInit, RebalInvStep, PTL DEF RebalSpec, DonorKeepsFloor

-----------------------------------------------------------------------------
(* The linked prover                                                        *)

\* At most one call discarded the key.
Few == \A c, d \in discarded : c = d

Active(t) == conv[t] \in {"stat", "writing", "rename"}

PrvTypeOK ==
    /\ prvAt \in [ProofCalls -> {"idle", "asking", "awaiting", "proving", "done",
                                 "mismatch", "failed", "discarding", "asking again",
                                 "admitted", "refused", "gone"}]
    /\ awaits \in [ProofCalls -> Tokens \cup {NoToken}]
    /\ uses \in [ProofCalls -> {"ark", "zkey"}]
    /\ promise \in [Procs -> Tokens \cup {NoToken}]
    /\ conv \in [Tokens -> {"none", "stat", "writing", "orphan", "rename", "done"}]
    /\ path \in [Tokens -> {"none", "ark", "zkey"}]
    /\ partial \in [Procs -> Tokens \cup {NoToken}]
    /\ holds \in [Tokens -> Tokens]
    /\ content \in [Tokens -> {"half", "good"}]
    /\ opener \in [Tokens -> Tokens]
    /\ discarded \subseteq ProofCalls

\* The conversions that the tries of a call may start.
First(c) == <<c, 1>>
Again(c) == <<c, 2>>

\* Every try of a call starts one conversion at most, and a call tries again
\* once, after it discarded the key.
TriesFit ==
    /\ tries = [c \in ProofCalls |-> IF c \in discarded THEN 2 ELSE 1]
    /\ \A c \in ProofCalls :
          prvAt[c] \in {"idle", "asking"} => conv[First(c)] = "none"
    /\ \A c \in ProofCalls :
          prvAt[c] \in {"idle", "asking", "discarding"} => c \notin discarded
    /\ \A c \in ProofCalls : prvAt[c] = "asking again" => c \in discarded
    /\ \A c \in ProofCalls :
          c \notin discarded \/ prvAt[c] = "asking again" => conv[Again(c)] = "none"
    /\ \A c \in ProofCalls : prvAt[c] = "idle" => uses[c] = "zkey"
    /\ \A t \in Tokens : path[t] # "none" => conv[t] = "done"

\* A call that uses the cached key had it from the conversion it awaits.
AwaitsFit ==
    /\ \A c \in ProofCalls :
          prvAt[c] = "awaiting" => awaits[c] \in Tokens /\ Of(awaits[c]) = Proc[c]
    /\ \A c \in ProofCalls : prvAt[c] = "discarding" => uses[c] = "ark"
    /\ \A c \in ProofCalls :
          prvAt[c] \in {"proving", "discarding"} /\ uses[c] = "ark" =>
              awaits[c] \in Tokens /\ Of(awaits[c]) = Proc[c] /\ path[awaits[c]] = "ark"
    /\ \A p \in Procs :
          promise[p] # NoToken => promise[p] \in Tokens /\ Of(promise[p]) = p

\* A partial file is its process's own, and not what is under the cached name.
PartialsFit ==
    /\ \A p \in Procs : partial[p] # NoToken =>
        /\ partial[p] \in Tokens /\ Of(partial[p]) = p /\ partial[p] # ark
        /\ conv[partial[p]] \notin {"none", "stat"}
    /\ ark \in Tokens => conv[ark] \notin {"none", "stat"}
    /\ discarded # {} => ark \in Tokens \cup {<<Absent>>}

\* One conversion at a time in a process: the one that was promised.
OneActive == Few => \A t \in Tokens : Active(t) => promise[Of(t)] = t

\* Before a first call discards the key, and until it asks again, its process
\* keeps the promise it had.
Suspects(c) ==
    \/ prvAt[c] = "asking again"
    \/ prvAt[c] = "discarding"
    \/ prvAt[c] = "proving" /\ uses[c] = "ark" /\ c \notin discarded
    \/ prvAt[c] = "awaiting" /\ path[awaits[c]] = "ark" /\ c \notin discarded
PromiseStays ==
    \A c \in ProofCalls : discarded \subseteq {c} /\ Suspects(c) =>
        /\ awaits[c] \in Tokens /\ promise[Proc[c]] = awaits[c]
        /\ conv[awaits[c]] = "done"

\* Nobody else writes what a conversion writes, and what stands under the cached
\* name was finished.
WritesAlone ==
    /\ Few /\ ark \in Tokens => content[ark] = "good"
    /\ Few => \A t \in Tokens : conv[t] \in {"writing", "rename"} =>
          partial[Of(t)] = holds[t] /\ opener[holds[t]] = t
    /\ Few => \A t \in Tokens : conv[t] = "rename" => content[holds[t]] = "good"

\* The second try finds a new key, and fails with its command only.
SecondTry ==
    /\ Few => \A c \in discarded :
          prvAt[c] = "awaiting" /\ path[awaits[c]] = "ark" => ark \in Tokens
    /\ Few => \A c \in discarded :
          prvAt[c] = "proving" /\ uses[c] = "ark" => ark \in Tokens
    /\ Few => \A c \in ProofCalls : prvAt[c] = "failed" => c \in faulted

PrvInv == /\ PrvTypeOK /\ TriesFit /\ AwaitsFit /\ PartialsFit
          /\ OneActive /\ PromiseStays /\ WritesAlone /\ SecondTry


\* Every try of every call makes a file of its own, which is none of the old ones.
LEMMA TokenFacts ==
    /\ NoToken \notin Tokens /\ <<Absent>> \notin Tokens
    /\ \A a \in Old : <<a>> \notin Tokens
    /\ \A t \in Tokens : Of(t) \in Procs
    /\ \A c \in ProofCalls : Proc[c] \in Procs
    /\ \A c \in ProofCalls :
          /\ {First(c), Again(c)} \subseteq Tokens /\ First(c) # Again(c)
          /\ Of(First(c)) = Proc[c] /\ Of(Again(c)) = Proc[c]
    /\ \A c, d \in ProofCalls : c # d =>
          First(c) # First(d) /\ Again(c) # Again(d) /\ First(c) # Again(d)
    /\ <<"rotten">> \notin Tokens
<1>1. NoToken \notin Tokens
  BY DEF NoToken, Tokens
<1>2. \A a : <<a>> \notin Tokens
  BY DEF Tokens
<1>3. \A t \in Tokens : Of(t) \in Procs
  BY DEF Tokens, Of, Procs
<1>4. \A c \in ProofCalls : Proc[c] \in Procs
  BY DEF Procs
<1>5. \A c \in ProofCalls :
          /\ {First(c), Again(c)} \subseteq Tokens /\ First(c) # Again(c)
          /\ Of(First(c)) = Proc[c] /\ Of(Again(c)) = Proc[c]
  BY DEF Tokens, Of, First, Again
<1>6. \A c, d \in ProofCalls : c # d =>
          First(c) # First(d) /\ Again(c) # Again(d) /\ First(c) # Again(d)
  BY DEF First, Again
<1> QED
  BY <1>1, <1>2, <1>3, <1>4, <1>5, <1>6

\* No call has begun.
LEMMA PrvInvInit == ProverInit => PrvInv
<1> USE TokenFacts
<1> HIDE DEF Tokens, Of
<1> QED
  BY DEF ProverInit, PrvInv, PrvTypeOK, TriesFit, AwaitsFit, PartialsFit, OneActive,
         PromiseStays, WritesAlone, SecondTry, Few, Active, Suspects

\* A step of a call that leaves every key and every promise alone.
LEMMA CallStep ==
    ASSUME PrvInv, NEW c \in ProofCalls,
           UNCHANGED <<tries, awaits, promise, conv, path, files, ark, discarded>>,
           NEW to \in {"asking", "proving", "done", "mismatch", "failed", "discarding",
                       "admitted", "refused"},
           Go(c, to), NEW key \in {"ark", "zkey"}, uses' = [uses EXCEPT ![c] = key],
           faulted \subseteq faulted', prvAt[c] \notin {"discarding", "failed"},
           to = "asking" => prvAt[c] = "idle" /\ key = "zkey",
           to = "proving" /\ key = "ark" =>
              prvAt[c] = "awaiting" /\ path[awaits[c]] = "ark",
           to = "discarding" =>
              prvAt[c] = "proving" /\ uses[c] = "ark" /\ key = "ark" /\ c \notin discarded,
           to = "failed" /\ Few => c \in faulted'
    PROVE  PrvInv'
<1>1. /\ prvAt'[c] = to /\ uses'[c] = key
      /\ \A d \in ProofCalls : d # c => prvAt'[d] = prvAt[d] /\ uses'[d] = uses[d]
  BY DEF Go, PrvInv, PrvTypeOK
<1>2. PrvTypeOK'
  BY DEF PrvInv, PrvTypeOK, Go, files
<1>3. TriesFit'
  <2>1. /\ \A d \in ProofCalls : prvAt'[d] \in {"idle", "asking"} =>
              prvAt[d] \in {"idle", "asking"}
        /\ \A d \in ProofCalls : prvAt'[d] \in {"idle", "asking", "discarding"} =>
              prvAt[d] \in {"idle", "asking", "discarding"} \/ d \notin discarded
        /\ \A d \in ProofCalls : prvAt'[d] = "asking again" => prvAt[d] = "asking again"
        /\ \A d \in ProofCalls : prvAt'[d] = "idle" => prvAt[d] = "idle" /\ uses'[d] = uses[d]
    BY <1>1
  <2> QED
    BY <2>1 DEF PrvInv, TriesFit
<1>4. AwaitsFit'
  BY <1>1 DEF PrvInv, AwaitsFit
<1>5. PartialsFit'
  BY DEF PrvInv, PartialsFit, files
<1>6. OneActive'
  BY DEF PrvInv, OneActive, Few, Active
<1>7. PromiseStays'
  <2>1. ASSUME NEW d \in ProofCalls, Suspects(d)' PROVE Suspects(d) \/ d \in discarded
    BY <1>1, <2>1 DEF Suspects
  <2> QED
    BY <1>1, <2>1 DEF PrvInv, PromiseStays, Suspects
<1>8. WritesAlone'
  BY DEF PrvInv, WritesAlone, Few, files
<1>9. SecondTry'
  <2>1. /\ \A d \in ProofCalls : prvAt'[d] = "awaiting" => prvAt[d] = "awaiting"
        /\ \A d \in ProofCalls : prvAt'[d] = "proving" /\ uses'[d] = "ark" =>
              \/ prvAt[d] = "proving" /\ uses[d] = "ark"
              \/ prvAt[d] = "awaiting" /\ path[awaits[d]] = "ark"
        /\ Few => \A d \in ProofCalls : prvAt'[d] = "failed" =>
              prvAt[d] = "failed" \/ d \in faulted'
    BY <1>1
  <2>2. discarded \subseteq ProofCalls
    BY DEF PrvInv, PrvTypeOK
  <2> QED
    BY <2>1, <2>2 DEF PrvInv, SecondTry, Few
<1> QED
  BY <1>2, <1>3, <1>4, <1>5, <1>6, <1>7, <1>8, <1>9 DEF PrvInv

\* The call awaits the conversion its process was promised already.
LEMMA KnownStep ==
    ASSUME PrvInv, NEW c \in ProofCalls, prvAt[c] = "asking", promise[Proc[c]] # NoToken,
           UNCHANGED <<tries, uses, promise, conv, path, files, ark, faulted,
                       discarded>>,
           awaits' = [awaits EXCEPT ![c] = promise[Proc[c]]], Go(c, "awaiting")
    PROVE  PrvInv'
<1> DEFINE t == promise[Proc[c]]
<1>1. /\ prvAt'[c] = "awaiting" /\ awaits'[c] = t
      /\ \A d \in ProofCalls : d # c => prvAt'[d] = prvAt[d] /\ awaits'[d] = awaits[d]
  BY DEF Go, PrvInv, PrvTypeOK
<1>2. t \in Tokens /\ Of(t) = Proc[c] /\ c \notin discarded
  BY TokenFacts DEF PrvInv, AwaitsFit, TriesFit
<1>t. path[t] = "ark" => conv[t] = "done"
  BY <1>2 DEF PrvInv, TriesFit
<1>3. PrvTypeOK'
  BY <1>2 DEF PrvInv, PrvTypeOK, Go, files
<1>4. TriesFit'
  <2>1. /\ \A d \in ProofCalls : prvAt'[d] \in {"idle", "asking"} => prvAt[d] = prvAt'[d]
        /\ \A d \in ProofCalls : prvAt'[d] \in {"idle", "asking", "discarding"} =>
              prvAt[d] = prvAt'[d]
        /\ \A d \in ProofCalls : prvAt'[d] = "asking again" => prvAt[d] = "asking again"
        /\ \A d \in ProofCalls : prvAt'[d] = "idle" => prvAt[d] = "idle"
    BY <1>1
  <2> QED
    BY <2>1 DEF PrvInv, TriesFit
<1>5. AwaitsFit'
  BY <1>1, <1>2 DEF PrvInv, AwaitsFit
<1>6. PartialsFit'
  BY DEF PrvInv, PartialsFit, files
<1>7. OneActive'
  BY DEF PrvInv, OneActive, Few, Active
<1>8. PromiseStays'
  <2>1. ASSUME NEW d \in ProofCalls, Suspects(d)', d # c PROVE Suspects(d)
    BY <1>1, <2>1 DEF Suspects
  <2>2. ASSUME Suspects(c)' PROVE path[t] = "ark"
    BY <1>1, <2>2 DEF Suspects
  <2> QED
    BY <1>1, <1>2, <1>t, <2>1, <2>2 DEF PrvInv, PromiseStays
<1>9. WritesAlone'
  BY DEF PrvInv, WritesAlone, Few, files
<1>10. SecondTry'
  <2>1. /\ \A d \in discarded : prvAt'[d] \in {"awaiting", "proving"} =>
              prvAt[d] = prvAt'[d] /\ awaits'[d] = awaits[d]
        /\ \A d \in ProofCalls : prvAt'[d] = "failed" => prvAt[d] = "failed"
    BY <1>1, <1>2 DEF PrvInv, PrvTypeOK
  <2> QED
    BY <2>1 DEF PrvInv, SecondTry, Few
<1> QED
  BY <1>3, <1>4, <1>5, <1>6, <1>7, <1>8, <1>9, <1>10 DEF PrvInv

\* The call starts a conversion: the only one of its process.
LEMMA NewStep ==
    ASSUME PrvInv, NEW c \in ProofCalls, prvAt[c] \in {"asking", "asking again"},
           prvAt[c] = "asking" => promise[Proc[c]] = NoToken,
           UNCHANGED <<tries, uses, path, files, ark, faulted, discarded>>,
           NEW t, t = IF c \in discarded THEN Again(c) ELSE First(c),
           promise' = [promise EXCEPT ![Proc[c]] = t],
           conv' = [conv EXCEPT ![t] = "stat"],
           awaits' = [awaits EXCEPT ![c] = t], Go(c, "awaiting")
    PROVE  PrvInv'
<1>a. prvAt[c] = "asking again" <=> c \in discarded
  BY DEF PrvInv, TriesFit
<1>2. /\ t \in Tokens /\ Of(t) = Proc[c] /\ Proc[c] \in Procs
      /\ \A d \in ProofCalls : d # c => t # First(d) /\ t # Again(d)
      /\ c \notin discarded => t = First(c) /\ t # Again(c)
  BY <1>a, TokenFacts
<1>n. conv[t] = "none" /\ (c \notin discarded => conv[Again(c)] = "none")
  BY <1>a DEF PrvInv, TriesFit
<1>1. /\ prvAt'[c] = "awaiting" /\ awaits'[c] = t
      /\ \A d \in ProofCalls : d # c => prvAt'[d] = prvAt[d] /\ awaits'[d] = awaits[d]
      /\ conv'[t] = "stat" /\ \A u \in Tokens : u # t => conv'[u] = conv[u]
      /\ promise'[Proc[c]] = t
      /\ \A p \in Procs : p # Proc[c] => promise'[p] = promise[p]
  BY <1>2 DEF Go, PrvInv, PrvTypeOK
<1>p. path[t] = "none"
  <2>1. path[t] # "none" => conv[t] = "done"
    BY <1>2 DEF PrvInv, TriesFit
  <2> QED
    BY <2>1, <1>n
<1>b. Few => \A u \in Tokens : Active(u) => Of(u) # Proc[c]
  <2>1. CASE c \in discarded
    <3>1. Few => discarded \subseteq {c}
      BY <2>1 DEF Few
    <3>2. Few => promise[Proc[c]] = awaits[c] /\ conv[awaits[c]] = "done"
      BY <3>1, <1>a, <2>1 DEF PrvInv, PromiseStays, Suspects
    <3> QED
      BY <3>2 DEF PrvInv, OneActive, Active
  <2>2. CASE c \notin discarded
    <3>1. promise[Proc[c]] = NoToken
      BY <1>a, <2>2
    <3> QED
      BY <3>1, TokenFacts DEF PrvInv, OneActive
  <2> QED
    BY <2>1, <2>2
<1>3. PrvTypeOK'
  BY <1>2 DEF PrvInv, PrvTypeOK, Go, files
<1>4. TriesFit'
  <2>1. /\ \A d \in ProofCalls :
            prvAt'[d] \in {"idle", "asking", "discarding", "asking again"}
               => prvAt[d] = prvAt'[d] /\ d # c
        /\ \A d \in ProofCalls : d # c => conv'[First(d)] = conv[First(d)]
        /\ \A d \in ProofCalls : d # c => conv'[Again(d)] = conv[Again(d)]
    BY <1>1, <1>2, TokenFacts
  <2>2. c \notin discarded => conv'[Again(c)] = "none"
    <3>1. Again(c) \in Tokens
      BY TokenFacts
    <3> QED
      BY <1>1, <1>2, <1>n, <3>1
  <2>3. \A u \in Tokens : path'[u] # "none" => conv'[u] = "done"
    <3>1. \A u \in Tokens : path[u] # "none" => conv[u] = "done"
      BY DEF PrvInv, TriesFit
    <3> QED
      BY <3>1, <1>1, <1>p
  <2>4. \A d \in ProofCalls : prvAt'[d] \in {"idle", "asking"} => conv'[First(d)] = "none"
    BY <2>1 DEF PrvInv, TriesFit
  <2>5. \A d \in ProofCalls :
          d \notin discarded \/ prvAt'[d] = "asking again" => conv'[Again(d)] = "none"
    <3>1. \A d \in ProofCalls :
          d \notin discarded \/ prvAt[d] = "asking again" => conv[Again(d)] = "none"
      BY DEF PrvInv, TriesFit
    <3> QED
      BY <3>1, <2>1, <2>2
  <2> QED
    BY <2>1, <2>3, <2>4, <2>5 DEF PrvInv, TriesFit
<1>5. AwaitsFit'
  <2>1. \A d \in ProofCalls : prvAt'[d] \in {"proving", "discarding"} =>
              prvAt[d] = prvAt'[d] /\ awaits'[d] = awaits[d]
    BY <1>1
  <2>2. \A d \in ProofCalls : prvAt'[d] = "awaiting" =>
              awaits'[d] \in Tokens /\ Of(awaits'[d]) = Proc[d]
    <3>1. \A d \in ProofCalls : prvAt[d] = "awaiting" =>
              awaits[d] \in Tokens /\ Of(awaits[d]) = Proc[d]
      BY DEF PrvInv, AwaitsFit
    <3> QED
      BY <1>1, <1>2, <3>1
  <2>3. \A p \in Procs : promise'[p] # NoToken =>
              promise'[p] \in Tokens /\ Of(promise'[p]) = p
    <3>1. \A p \in Procs : promise[p] # NoToken =>
              promise[p] \in Tokens /\ Of(promise[p]) = p
      BY DEF PrvInv, AwaitsFit
    <3> QED
      BY <1>1, <1>2, <3>1
  <2> QED
    BY <2>1, <2>2, <2>3 DEF PrvInv, AwaitsFit
<1>6. PartialsFit'
  <2>1. \A u \in Tokens : conv[u] \notin {"none", "stat"} => conv'[u] = conv[u]
    BY <1>1, <1>n
  <2> QED
    BY <2>1 DEF PrvInv, PartialsFit, files
<1>7. OneActive'
  BY <1>1, <1>2, <1>b, TokenFacts DEF PrvInv, OneActive, Few, Active
<1>8. PromiseStays'
  <2>1. ~Suspects(c)'
    BY <1>1, <1>p DEF Suspects
  <2>2. ASSUME NEW d \in ProofCalls, Suspects(d)', d # c PROVE Suspects(d)
    BY <1>1, <2>2 DEF Suspects
  <2>3. ASSUME NEW d \in ProofCalls, discarded \subseteq {d}, Suspects(d), d # c
        PROVE  /\ awaits[d] \in Tokens /\ promise'[Proc[d]] = awaits[d]
               /\ conv'[awaits[d]] = "done"
    <3>1. awaits[d] \in Tokens /\ promise[Proc[d]] = awaits[d] /\ conv[awaits[d]] = "done"
      BY <2>3 DEF PrvInv, PromiseStays
    <3>2. promise[Proc[c]] = NoToken
      BY <1>a, <2>3
    <3>3. Proc[d] # Proc[c] /\ Proc[d] \in Procs
      BY <3>1, <3>2, TokenFacts
    <3> QED
      BY <1>1, <1>2, <1>n, <3>1, <3>3
  <2> QED
    BY <1>1, <2>1, <2>2, <2>3 DEF PromiseStays
<1>9. WritesAlone'
  BY <1>1, <1>2 DEF PrvInv, WritesAlone, Few, files, PartialsFit
<1>10. SecondTry'
  <2>1. /\ \A d \in discarded : prvAt'[d] = "awaiting" /\ path[awaits'[d]] = "ark" =>
              prvAt[d] = "awaiting" /\ awaits'[d] = awaits[d]
        /\ \A d \in discarded : prvAt'[d] = "proving" => prvAt[d] = "proving"
        /\ \A d \in ProofCalls : prvAt'[d] = "failed" => prvAt[d] = "failed"
    BY <1>1, <1>p DEF PrvInv, PrvTypeOK
  <2> QED
    BY <2>1 DEF PrvInv, SecondTry, Few
<1> QED
  BY <1>3, <1>4, <1>5, <1>6, <1>7, <1>8, <1>9, <1>10 DEF PrvInv

\* The suspected key is removed.
LEMMA DiscardStep ==
    ASSUME PrvInv, NEW c \in ProofCalls, Discard(c)
    PROVE  PrvInv'
<1>1. /\ prvAt[c] = "discarding" /\ prvAt'[c] = "asking again"
      /\ \A d \in ProofCalls : d # c => prvAt'[d] = prvAt[d]
      /\ ark' = <<Absent>> /\ discarded' = discarded \cup {c}
      /\ tries' = [tries EXCEPT ![c] = 2]
      /\ UNCHANGED <<awaits, uses, promise, conv, path, files, faulted>>
  BY DEF Discard, Go, PrvInv, PrvTypeOK
<1>2. c \notin discarded /\ ark' \notin Tokens
  BY <1>1, TokenFacts DEF PrvInv, TriesFit
<1>f. Few' => Few /\ discarded' = {c} /\ discarded = {}
  <2>1. c \in discarded' /\ discarded \subseteq discarded'
    BY <1>1
  <2>2. Few' => \A d \in discarded' : d = c
    BY <2>1 DEF Few
  <2> QED
    BY <1>1, <1>2, <2>1, <2>2 DEF Few
<1>3. PrvTypeOK'
  BY <1>1 DEF PrvInv, PrvTypeOK, Discard, Go, files
<1>4. TriesFit'
  <2>1. /\ \A d \in ProofCalls : prvAt'[d] \in {"idle", "asking", "discarding"}
               => prvAt[d] = prvAt'[d] /\ d # c
        /\ \A d \in ProofCalls : prvAt'[d] = "asking again" => d = c \/ prvAt[d] = prvAt'[d]
        /\ \A d \in ProofCalls : d # c => (d \in discarded' <=> d \in discarded)
    BY <1>1
  <2>2. conv[Again(c)] = "none" /\ c \in discarded'
    BY <1>1, <1>2 DEF PrvInv, TriesFit
  <2>3. tries' = [d \in ProofCalls |-> IF d \in discarded' THEN 2 ELSE 1]
    BY <1>1 DEF PrvInv, TriesFit
  <2>4. \A d \in ProofCalls : prvAt'[d] = "idle" => prvAt[d] = "idle"
    BY <2>1
  <2>5. \A d \in ProofCalls :
          d \notin discarded' \/ prvAt'[d] = "asking again" => conv[Again(d)] = "none"
    <3>1. \A d \in ProofCalls :
          d \notin discarded \/ prvAt[d] = "asking again" => conv[Again(d)] = "none"
      BY DEF PrvInv, TriesFit
    <3> QED
      BY <3>1, <2>1, <2>2
  <2>6. \A d \in ProofCalls :
          prvAt'[d] \in {"idle", "asking", "discarding"} => d \notin discarded'
    BY <2>1 DEF PrvInv, TriesFit
  <2>7. \A d \in ProofCalls : prvAt'[d] = "asking again" => d \in discarded'
    BY <2>1, <2>2 DEF PrvInv, TriesFit
  <2>8. UNCHANGED <<conv, path, uses>>
    BY <1>1
  <2> QED
    BY <2>1, <2>3, <2>4, <2>5, <2>6, <2>7, <2>8 DEF PrvInv, TriesFit
<1>5. AwaitsFit'
  BY <1>1 DEF PrvInv, AwaitsFit
<1>6. PartialsFit'
  BY <1>1, <1>2 DEF PrvInv, PartialsFit, files
<1>7. OneActive'
  BY <1>1, <1>f DEF PrvInv, OneActive, Active
<1>8. PromiseStays'
  <2>1. \A d \in ProofCalls : discarded' \subseteq {d} => d = c /\ discarded \subseteq {c}
    BY <1>1
  <2>2. Suspects(c)
    BY <1>1 DEF Suspects
  <2> QED
    BY <1>1, <2>1, <2>2 DEF PrvInv, PromiseStays
<1>9. WritesAlone'
  BY <1>1, <1>2, <1>f DEF PrvInv, WritesAlone, files
<1>10. SecondTry'
  <2>1. \A d \in ProofCalls : prvAt'[d] = "failed" => prvAt[d] = "failed"
    BY <1>1
  <2> QED
    BY <1>1, <1>f, <2>1 DEF PrvInv, SecondTry
<1> QED
  BY <1>3, <1>4, <1>5, <1>6, <1>7, <1>8, <1>9, <1>10 DEF PrvInv

\* A conversion ends with the cached key, which it found or put there.
LEMMA ArkStep ==
    ASSUME PrvInv, NEW t \in Tokens, Active(t), Resolve(t, "ark"),
           UNCHANGED <<flow, promise, faulted, discarded>>,
           PrvTypeOK', PartialsFit', WritesAlone', discarded # {} => ark' \in Tokens
    PROVE  PrvInv'
<1>1. /\ conv'[t] = "done" /\ path'[t] = "ark"
      /\ \A u \in Tokens : u # t => conv'[u] = conv[u] /\ path'[u] = path[u]
  <2>1. DOMAIN conv = Tokens /\ DOMAIN path = Tokens
    BY DEF PrvInv, PrvTypeOK
  <2>2. path' = [path EXCEPT ![t] = "ark"] /\ conv' = [conv EXCEPT ![t] = "done"]
    BY DEF Resolve
  <2> QED
    BY <2>1, <2>2
<1>2. UNCHANGED <<prvAt, tries, awaits, uses, promise, faulted, discarded>>
  BY DEF flow
<1>3. conv[t] \notin {"none", "done"}
  BY DEF Active
<1>4. \A c \in ProofCalls : {First(c), Again(c)} \subseteq Tokens
  BY TokenFacts
<1>5. TriesFit'
  <2>1. \A u \in Tokens : conv[u] = "none" => conv'[u] = "none"
    BY <1>1, <1>3
  <2>2. \A u \in Tokens : path'[u] # "none" => conv'[u] = "done"
    <3>1. \A u \in Tokens : path[u] # "none" => conv[u] = "done"
      BY DEF PrvInv, TriesFit
    <3> QED
      BY <3>1, <1>1
  <2> QED
    BY <1>2, <1>4, <2>1, <2>2 DEF PrvInv, TriesFit
<1>6. AwaitsFit'
  <2>1. \A u \in Tokens : path[u] = "ark" => path'[u] = "ark"
    BY <1>1
  <2> QED
    BY <1>2, <2>1 DEF PrvInv, AwaitsFit
<1>7. OneActive'
  <2>1. \A u \in Tokens : Active(u)' => Active(u)
    BY <1>1 DEF Active
  <2> QED
    BY <1>2, <2>1 DEF PrvInv, OneActive, Few
<1>8. PromiseStays'
  <2>1. ASSUME NEW c \in ProofCalls, discarded \subseteq {c}, Suspects(c)'
        PROVE  /\ awaits[c] \in Tokens /\ promise[Proc[c]] = awaits[c]
               /\ conv'[awaits[c]] = "done"
    <3>1. CASE Suspects(c)
      <4>1. /\ awaits[c] \in Tokens /\ promise[Proc[c]] = awaits[c]
            /\ conv[awaits[c]] = "done"
        BY <2>1, <3>1 DEF PrvInv, PromiseStays
      <4> QED
        BY <4>1, <1>1
    <3>2. CASE ~Suspects(c)
      <4>1. prvAt[c] = "awaiting" /\ path'[awaits[c]] = "ark" /\ path[awaits[c]] # "ark"
        BY <1>2, <2>1, <3>2 DEF Suspects
      <4>2. awaits[c] \in Tokens /\ Of(awaits[c]) = Proc[c]
        BY <4>1 DEF PrvInv, AwaitsFit
      <4>3. awaits[c] = t
        BY <1>1, <4>1, <4>2
      <4>4. Few
        BY <2>1 DEF Few
      <4>5. promise[Of(t)] = t
        BY <4>4 DEF PrvInv, OneActive
      <4> QED
        BY <1>1, <4>2, <4>3, <4>5
    <3> QED
      BY <3>1, <3>2
  <2> QED
    BY <1>2, <2>1 DEF PromiseStays
<1>9. SecondTry'
  BY <1>2 DEF PrvInv, SecondTry, Few
<1> QED
  BY <1>5, <1>6, <1>7, <1>8, <1>9 DEF PrvInv

\* A conversion finds the file under the cached name.
LEMMA FoundStep ==
    ASSUME PrvInv, NEW t \in Tokens, Stat(t), ark # <<Absent>>
    PROVE  PrvInv'
<1>1. /\ conv[t] = "stat" /\ Resolve(t, "ark")
      /\ UNCHANGED <<flow, promise, files, ark, faulted, discarded>>
  BY DEF Stat
<1>2. /\ conv'[t] = "done"
      /\ \A u \in Tokens : u # t => conv'[u] = conv[u]
  BY <1>1 DEF Resolve, PrvInv, PrvTypeOK
<1>3. PrvTypeOK'
  BY <1>1 DEF PrvInv, PrvTypeOK, Resolve, flow, files
<1>4. PartialsFit'
  <2>1. \A u \in Tokens : conv[u] \notin {"none", "stat"} => conv'[u] = conv[u]
    BY <1>1, <1>2
  <2> QED
    BY <1>1, <2>1 DEF PrvInv, PartialsFit, files
<1>5. WritesAlone'
  <2>1. \A u \in Tokens : conv'[u] \in {"writing", "rename"} => conv[u] = conv'[u]
    BY <1>2
  <2> QED
    BY <1>1, <2>1 DEF PrvInv, WritesAlone, Few, files
<1>6. discarded # {} => ark' \in Tokens
  BY <1>1 DEF PrvInv, PartialsFit
<1>7. Active(t)
  BY <1>1 DEF Active
<1> QED
  BY <1>1, <1>3, <1>4, <1>5, <1>6, <1>7, ArkStep

\* A conversion puts its file under the cached name.
LEMMA RenamedStep ==
    ASSUME PrvInv, NEW t \in Tokens, Rename(t), partial[Of(t)] # NoToken
    PROVE  PrvInv'
<1> DEFINE inode == partial[Of(t)]
<1>1. /\ conv[t] = "rename" /\ Resolve(t, "ark") /\ ark' = inode
      /\ partial' = [partial EXCEPT ![Of(t)] = NoToken]
      /\ UNCHANGED <<flow, promise, holds, content, opener, faulted, discarded>>
  BY DEF Rename
<1>2. /\ conv'[t] = "done"
      /\ \A u \in Tokens : u # t => conv'[u] = conv[u]
  BY <1>1 DEF Resolve, PrvInv, PrvTypeOK
<1>3. Of(t) \in Procs /\ NoToken \notin Tokens
  BY TokenFacts
<1>4. /\ partial'[Of(t)] = NoToken
      /\ \A p \in Procs : p # Of(t) => partial'[p] = partial[p]
  BY <1>1, <1>3 DEF PrvInv, PrvTypeOK
<1>5. inode \in Tokens /\ Of(inode) = Of(t) /\ conv[inode] \notin {"none", "stat"}
  BY <1>3 DEF PrvInv, PartialsFit
<1>6. PrvTypeOK'
  BY <1>1 DEF PrvInv, PrvTypeOK, Resolve, flow
<1>7. PartialsFit'
  <2>1. \A u \in Tokens :
          conv[u] \notin {"none", "stat"} => conv'[u] \notin {"none", "stat"}
    BY <1>1, <1>2
  <2>2. ASSUME NEW p \in Procs, partial'[p] # NoToken
        PROVE  /\ partial'[p] \in Tokens /\ Of(partial'[p]) = p /\ partial'[p] # ark'
               /\ conv'[partial'[p]] \notin {"none", "stat"}
    <3>1. p # Of(t) /\ partial'[p] = partial[p]
      BY <1>4, <2>2
    <3>2. /\ partial[p] \in Tokens /\ Of(partial[p]) = p
          /\ conv[partial[p]] \notin {"none", "stat"}
      BY <2>2, <3>1 DEF PrvInv, PartialsFit
    <3> QED
      BY <1>1, <1>5, <2>1, <3>1, <3>2
  <2>3. conv'[ark'] \notin {"none", "stat"} /\ ark' \in Tokens
    BY <1>1, <1>5, <2>1
  <2> QED
    BY <2>2, <2>3 DEF PartialsFit
<1>8. WritesAlone'
  <2>1. ASSUME Few, NEW u \in Tokens, conv'[u] \in {"writing", "rename"}
        PROVE  /\ conv[u] = conv'[u]
               /\ partial'[Of(u)] = holds[u] /\ opener[holds[u]] = u
               /\ conv'[u] = "rename" => content[holds[u]] = "good"
    <3>1. u # t /\ conv[u] = conv'[u]
      BY <1>2, <2>1
    <3>2. promise[Of(u)] = u /\ promise[Of(t)] = t
      BY <1>1, <2>1, <3>1 DEF PrvInv, OneActive, Active
    <3>3. Of(u) \in Procs /\ Of(u) # Of(t)
      BY <3>1, <3>2, TokenFacts
    <3>4. /\ partial[Of(u)] = holds[u] /\ opener[holds[u]] = u
          /\ conv'[u] = "rename" => content[holds[u]] = "good"
      BY <2>1, <3>1 DEF PrvInv, WritesAlone
    <3> QED
      BY <1>4, <3>1, <3>3, <3>4
  <2>2. Few => content[inode] = "good"
    BY <1>1 DEF PrvInv, WritesAlone
  <2>3. Few' <=> Few
    BY <1>1 DEF Few
  <2> QED
    BY <1>1, <2>1, <2>2, <2>3 DEF WritesAlone
<1>9. Active(t) /\ ark' \in Tokens
  BY <1>1, <1>5 DEF Active
<1> QED
  BY <1>1, <1>6, <1>7, <1>8, <1>9, ArkStep

\* A conversion gives up, and its process forgets it.
LEMMA GivesUpStep ==
    ASSUME PrvInv, NEW t \in Tokens, conv[t] \in {"writing", "rename"}, GivesUp(t),
           UNCHANGED <<flow, files, ark, faulted, discarded>>
    PROVE  PrvInv'
<1>1. /\ conv'[t] = "done" /\ path'[t] = "zkey"
      /\ \A u \in Tokens : u # t => conv'[u] = conv[u] /\ path'[u] = path[u]
  BY DEF GivesUp, Resolve, FallbackPath, PrvInv, PrvTypeOK
<1>2. UNCHANGED <<prvAt, tries, awaits, uses, faulted, discarded, ark>>
  BY DEF flow
<1>3. /\ promise'[Of(t)] = NoToken
      /\ \A p \in Procs : p # Of(t) => promise'[p] = promise[p]
  BY TokenFacts DEF GivesUp, PrvInv, PrvTypeOK
<1>4. path[t] = "none"
  BY DEF PrvInv, TriesFit
<1>5. Few => promise[Of(t)] = t
  BY DEF PrvInv, OneActive, Active
<1>6. PrvTypeOK'
  BY <1>2 DEF PrvInv, PrvTypeOK, GivesUp, Resolve, FallbackPath, files
<1>7. TriesFit'
  <2>1. \A u \in Tokens : conv[u] = "none" => conv'[u] = "none"
    BY <1>1
  <2>2. \A u \in Tokens : path'[u] # "none" => conv'[u] = "done"
    <3>1. \A u \in Tokens : path[u] # "none" => conv[u] = "done"
      BY DEF PrvInv, TriesFit
    <3> QED
      BY <3>1, <1>1
  <2>3. \A c \in ProofCalls : {First(c), Again(c)} \subseteq Tokens
    BY TokenFacts
  <2> QED
    BY <1>2, <2>1, <2>2, <2>3 DEF PrvInv, TriesFit
<1>8. AwaitsFit'
  <2>1. \A u \in Tokens : path[u] = "ark" => path'[u] = "ark"
    BY <1>1, <1>4
  <2>2. \A p \in Procs : promise'[p] # NoToken => promise'[p] = promise[p]
    BY <1>3
  <2> QED
    BY <1>2, <2>1, <2>2 DEF PrvInv, AwaitsFit
<1>9. PartialsFit'
  <2>1. \A u \in Tokens :
          conv[u] \notin {"none", "stat"} => conv'[u] \notin {"none", "stat"}
    BY <1>1
  <2> QED
    BY <1>2, <2>1 DEF PrvInv, PartialsFit, files
<1>10. OneActive'
  <2>1. ASSUME Few, NEW u \in Tokens, Active(u)' PROVE promise'[Of(u)] = u
    <3>1. u # t /\ Active(u)
      BY <1>1, <2>1 DEF Active
    <3>2. promise[Of(u)] = u
      BY <2>1, <3>1 DEF PrvInv, OneActive
    <3> QED
      BY <1>3, <1>5, <2>1, <3>1, <3>2, TokenFacts
  <2>2. Few' <=> Few
    BY <1>2 DEF Few
  <2> QED
    BY <2>1, <2>2 DEF OneActive
<1>11. PromiseStays'
  <2>1. ASSUME NEW c \in ProofCalls, discarded \subseteq {c}, Suspects(c)'
        PROVE  /\ awaits[c] \in Tokens /\ promise'[Proc[c]] = awaits[c]
               /\ conv'[awaits[c]] = "done"
    <3>1. prvAt[c] = "awaiting" => awaits[c] \in Tokens
      BY DEF PrvInv, AwaitsFit
    <3>2. \A u \in Tokens : path'[u] = "ark" => path[u] = "ark"
      BY <1>1
    <3>3. Suspects(c)
      BY <1>2, <2>1, <3>1, <3>2 DEF Suspects
    <3>4. /\ awaits[c] \in Tokens /\ promise[Proc[c]] = awaits[c]
          /\ conv[awaits[c]] = "done"
      BY <2>1, <3>3 DEF PrvInv, PromiseStays
    <3>5. Few
      BY <2>1 DEF Few
    <3>6. Proc[c] # Of(t) /\ Proc[c] \in Procs
      BY <1>5, <3>4, <3>5, TokenFacts
    <3> QED
      BY <1>1, <1>3, <3>4, <3>6
  <2> QED
    BY <1>2, <2>1 DEF PromiseStays
<1>12. WritesAlone'
  <2>1. \A u \in Tokens : conv'[u] \in {"writing", "rename"} => conv[u] = conv'[u]
    BY <1>1
  <2> QED
    BY <1>2, <2>1 DEF PrvInv, WritesAlone, Few, files
<1>13. SecondTry'
  <2>1. \A c \in ProofCalls : prvAt[c] = "awaiting" => awaits[c] \in Tokens
    BY DEF PrvInv, AwaitsFit
  <2>2. \A u \in Tokens : path'[u] = "ark" => path[u] = "ark"
    BY <1>1
  <2>3. discarded \subseteq ProofCalls
    BY DEF PrvInv, PrvTypeOK
  <2> QED
    BY <1>2, <2>1, <2>2, <2>3 DEF PrvInv, SecondTry, Few
<1> QED
  BY <1>6, <1>7, <1>8, <1>9, <1>10, <1>11, <1>12, <1>13 DEF PrvInv

\* Without the file a conversion opens its process's partial one.
LEMMA OpensStep ==
    ASSUME PrvInv, NEW t \in Tokens, Stat(t), ark = <<Absent>>
    PROVE  PrvInv'
<1> DEFINE inode == IF partial[Of(t)] = NoToken THEN t ELSE partial[Of(t)]
<1>1. /\ conv[t] = "stat" /\ conv' = [conv EXCEPT ![t] = "writing"]
      /\ partial' = [partial EXCEPT ![Of(t)] = inode]
      /\ holds' = [holds EXCEPT ![t] = inode]
      /\ content' = [content EXCEPT ![inode] = "half"]
      /\ opener' = [opener EXCEPT ![inode] = t]
      /\ UNCHANGED <<flow, promise, path, ark, faulted, discarded>>
  BY DEF Stat
<1>2. UNCHANGED <<prvAt, tries, awaits, uses, promise, path, ark, faulted, discarded>>
  BY <1>1 DEF flow
<1>3. Of(t) \in Procs /\ NoToken \notin Tokens /\ ark \notin Tokens
  BY TokenFacts
<1>4. /\ inode \in Tokens /\ Of(inode) = Of(t)
      /\ inode = t \/ conv[inode] \notin {"none", "stat"}
  BY <1>3 DEF PrvInv, PartialsFit
<1> HIDE DEF inode
<1>5. /\ conv'[t] = "writing" /\ \A u \in Tokens : u # t => conv'[u] = conv[u]
      /\ partial'[Of(t)] = inode
      /\ \A p \in Procs : p # Of(t) => partial'[p] = partial[p]
      /\ holds'[t] = inode /\ \A u \in Tokens : u # t => holds'[u] = holds[u]
      /\ \A u \in Tokens : u # inode => content'[u] = content[u]
      /\ opener'[inode] = t /\ \A u \in Tokens : u # inode => opener'[u] = opener[u]
  BY <1>1, <1>3, <1>4 DEF PrvInv, PrvTypeOK
<1>6. PrvTypeOK'
  BY <1>1, <1>2, <1>4 DEF PrvInv, PrvTypeOK
<1>7. TriesFit'
  <2>1. \A u \in Tokens : conv[u] \in {"none", "done"} => conv'[u] = conv[u]
    BY <1>1, <1>5
  <2>2. \A u \in Tokens : path'[u] # "none" => conv'[u] = "done"
    <3>1. \A u \in Tokens : path[u] # "none" => conv[u] = "done"
      BY DEF PrvInv, TriesFit
    <3> QED
      BY <3>1, <1>2, <2>1
  <2>3. \A c \in ProofCalls : {First(c), Again(c)} \subseteq Tokens
    BY TokenFacts
  <2> QED
    BY <1>2, <2>1, <2>2, <2>3 DEF PrvInv, TriesFit
<1>8. AwaitsFit'
  BY <1>2 DEF PrvInv, AwaitsFit
<1>9. PartialsFit'
  <2>1. \A u \in Tokens :
          conv[u] \notin {"none", "stat"} => conv'[u] \notin {"none", "stat"}
    BY <1>1, <1>5
  <2>2. ASSUME NEW p \in Procs, partial'[p] # NoToken
        PROVE  /\ partial'[p] \in Tokens /\ Of(partial'[p]) = p /\ partial'[p] # ark
               /\ conv'[partial'[p]] \notin {"none", "stat"}
    <3>1. CASE p = Of(t)
      <4>1. conv'[inode] \notin {"none", "stat"}
        BY <1>4, <1>5, <2>1
      <4> QED
        BY <1>3, <1>4, <1>5, <3>1, <4>1
    <3>2. CASE p # Of(t)
      <4>1. partial'[p] = partial[p]
        BY <1>5, <3>2
      <4>2. /\ partial[p] \in Tokens /\ Of(partial[p]) = p /\ partial[p] # ark
            /\ conv[partial[p]] \notin {"none", "stat"}
        BY <2>2, <4>1 DEF PrvInv, PartialsFit
      <4> QED
        BY <2>1, <4>1, <4>2
    <3> QED
      BY <3>1, <3>2
  <2>3. discarded # {} => ark \in Tokens \cup {<<Absent>>}
    BY DEF PrvInv, PartialsFit
  <2> QED
    BY <1>2, <1>3, <2>2, <2>3 DEF PartialsFit
<1>10. OneActive'
  <2>1. \A u \in Tokens : Active(u)' => Active(u)
    BY <1>1, <1>5 DEF Active
  <2> QED
    BY <1>2, <2>1 DEF PrvInv, OneActive, Few
<1>11. PromiseStays'
  <2>1. \A u \in Tokens : conv[u] = "done" => conv'[u] = "done"
    BY <1>1, <1>5
  <2>2. \A c \in ProofCalls : Suspects(c)' => Suspects(c)
    BY <1>2 DEF Suspects
  <2> QED
    BY <1>2, <2>1, <2>2 DEF PrvInv, PromiseStays
<1>12. WritesAlone'
  <2>1. ASSUME Few, NEW u \in Tokens, conv'[u] \in {"writing", "rename"}
        PROVE  /\ partial'[Of(u)] = holds'[u] /\ opener'[holds'[u]] = u
               /\ conv'[u] = "rename" => content'[holds'[u]] = "good"
    <3>1. CASE u = t
      BY <1>5, <3>1
    <3>2. CASE u # t
      <4>1. conv[u] = conv'[u] /\ holds'[u] = holds[u]
        BY <1>5, <3>2
      <4>2. promise[Of(u)] = u /\ promise[Of(t)] = t
        BY <1>1, <2>1, <4>1 DEF PrvInv, OneActive, Active
      <4>3. Of(u) \in Procs /\ Of(u) # Of(t)
        BY <3>2, <4>2, TokenFacts
      <4>4. /\ partial[Of(u)] = holds[u] /\ opener[holds[u]] = u
            /\ conv[u] = "rename" => content[holds[u]] = "good"
        BY <2>1, <4>1 DEF PrvInv, WritesAlone
      <4>5. holds[u] \in Tokens
        BY DEF PrvInv, PrvTypeOK
      <4>6. Of(holds[u]) = Of(u)
        BY <1>3, <4>3, <4>4, <4>5 DEF PrvInv, PartialsFit
      <4>7. holds[u] # inode
        BY <1>4, <4>3, <4>6
      <4> QED
        BY <1>5, <4>1, <4>3, <4>4, <4>5, <4>7
    <3> QED
      BY <3>1, <3>2
  <2>2. Few' <=> Few
    BY <1>2 DEF Few
  <2> QED
    BY <1>2, <1>3, <2>1, <2>2 DEF WritesAlone
<1>13. SecondTry'
  BY <1>2 DEF PrvInv, SecondTry, Few
<1> QED
  BY <1>6, <1>7, <1>8, <1>9, <1>10, <1>11, <1>12, <1>13 DEF PrvInv

\* A command is done: its file is whole, if nobody truncated it since.
LEMMA ConvertedStep ==
    ASSUME PrvInv, NEW t \in Tokens, Converted(t)
    PROVE  PrvInv'
<1>1. /\ conv[t] \in {"writing", "orphan"}
      /\ conv' = [conv EXCEPT ![t] = IF @ = "writing" THEN "rename" ELSE "done"]
      /\ content' = IF opener[holds[t]] = t THEN [content EXCEPT ![holds[t]] = "good"]
                    ELSE content
      /\ UNCHANGED <<prvAt, tries, awaits, uses, promise, path, partial, holds, opener,
                     ark, faulted, discarded>>
  BY DEF Converted, flow
<1>2. /\ conv'[t] = IF conv[t] = "writing" THEN "rename" ELSE "done"
      /\ \A u \in Tokens : u # t => conv'[u] = conv[u]
  BY <1>1 DEF PrvInv, PrvTypeOK
<1>3. holds[t] \in Tokens
  BY DEF PrvInv, PrvTypeOK
<1>4. /\ opener[holds[t]] = t => content'[holds[t]] = "good"
      /\ \A u \in Tokens : content[u] = "good" => content'[u] = "good"
  BY <1>1, <1>3 DEF PrvInv, PrvTypeOK
<1>5. PrvTypeOK'
  <2>1. conv' \in [Tokens -> {"none", "stat", "writing", "orphan", "rename", "done"}]
    BY <1>1 DEF PrvInv, PrvTypeOK
  <2>2. content' \in [Tokens -> {"half", "good"}]
    BY <1>1, <1>3 DEF PrvInv, PrvTypeOK
  <2> QED
    BY <1>1, <2>1, <2>2 DEF PrvInv, PrvTypeOK
<1>6. TriesFit'
  <2>1. \A u \in Tokens : conv[u] \in {"none", "done"} => conv'[u] = conv[u]
    BY <1>1, <1>2
  <2>2. \A u \in Tokens : path'[u] # "none" => conv'[u] = "done"
    <3>1. \A u \in Tokens : path[u] # "none" => conv[u] = "done"
      BY DEF PrvInv, TriesFit
    <3> QED
      BY <3>1, <1>1, <2>1
  <2>3. \A c \in ProofCalls : {First(c), Again(c)} \subseteq Tokens
    BY TokenFacts
  <2>4. UNCHANGED <<prvAt, tries, uses, discarded>>
    BY <1>1
  <2> QED
    BY <2>1, <2>2, <2>3, <2>4 DEF PrvInv, TriesFit
<1>7. AwaitsFit'
  BY <1>1 DEF PrvInv, AwaitsFit
<1>8. PartialsFit'
  <2>1. \A u \in Tokens :
          conv[u] \notin {"none", "stat"} => conv'[u] \notin {"none", "stat"}
    BY <1>2
  <2> QED
    BY <1>1, <2>1 DEF PrvInv, PartialsFit
<1>9. OneActive'
  <2>1. \A u \in Tokens : Active(u)' => Active(u)
    BY <1>1, <1>2 DEF Active
  <2> QED
    BY <1>1, <2>1 DEF PrvInv, OneActive, Few
<1>10. PromiseStays'
  <2>1. \A u \in Tokens : conv[u] = "done" => conv'[u] = "done"
    BY <1>1, <1>2
  <2>2. \A c \in ProofCalls : Suspects(c)' => Suspects(c)
    BY <1>1 DEF Suspects
  <2> QED
    BY <1>1, <2>1, <2>2 DEF PrvInv, PromiseStays
<1>11. WritesAlone'
  <2>1. ASSUME Few, NEW u \in Tokens, conv'[u] \in {"writing", "rename"}
        PROVE  /\ partial[Of(u)] = holds[u] /\ opener[holds[u]] = u
               /\ conv'[u] = "rename" => content'[holds[u]] = "good"
    <3>1. conv[u] \in {"writing", "rename"}
      BY <1>1, <1>2, <2>1
    <3>2. /\ partial[Of(u)] = holds[u] /\ opener[holds[u]] = u
          /\ conv[u] = "rename" => content[holds[u]] = "good"
      BY <2>1, <3>1 DEF PrvInv, WritesAlone
    <3>3. holds[u] \in Tokens
      BY DEF PrvInv, PrvTypeOK
    <3> QED
      BY <1>2, <1>4, <3>1, <3>2, <3>3
  <2>2. Few' <=> Few
    BY <1>1 DEF Few
  <2>3. Few /\ ark \in Tokens => content'[ark] = "good"
    BY <1>4 DEF PrvInv, WritesAlone
  <2> QED
    BY <1>1, <2>1, <2>2, <2>3 DEF WritesAlone
<1>12. SecondTry'
  BY <1>1 DEF PrvInv, SecondTry, Few
<1> QED
  BY <1>5, <1>6, <1>7, <1>8, <1>9, <1>10, <1>11, <1>12 DEF PrvInv

\* A process dies, and what it promised with it.
LEMMA CrashStep ==
    ASSUME PrvInv, NEW p \in Procs, ProverCrash(p)
    PROVE  PrvInv'
<1>1. /\ prvAt' = [c \in ProofCalls |->
                      IF Proc[c] = p /\ prvAt[c] # "idle" THEN "gone" ELSE prvAt[c]]
      /\ promise' = [promise EXCEPT ![p] = NoToken]
      /\ partial' = [partial EXCEPT ![p] = NoToken]
      /\ conv' = [t \in Tokens |-> IF Of(t) # p \/ conv[t] = "none" THEN conv[t]
                                   ELSE IF conv[t] = "writing" THEN "orphan" ELSE "done"]
      /\ UNCHANGED <<tries, awaits, uses, path, holds, content, opener, ark, faulted,
                     discarded>>
  BY DEF ProverCrash
<1>2. /\ \A c \in ProofCalls : prvAt'[c] = prvAt[c] \/ prvAt'[c] = "gone"
      /\ \A c \in ProofCalls : prvAt'[c] \notin {"idle", "gone"} => Proc[c] # p
  BY <1>1
<1>3. /\ \A u \in Tokens : conv[u] \in {"none", "done"} => conv'[u] = conv[u]
      /\ \A u \in Tokens :
            conv[u] \notin {"none", "stat"} => conv'[u] \notin {"none", "stat"}
      /\ \A u \in Tokens : conv'[u] \in {"stat", "writing", "rename"}
            => Of(u) # p /\ conv[u] = conv'[u]
  BY <1>1
<1>4. /\ promise'[p] = NoToken /\ partial'[p] = NoToken
      /\ \A q \in Procs : q # p => promise'[q] = promise[q] /\ partial'[q] = partial[q]
  BY <1>1 DEF PrvInv, PrvTypeOK
<1>5. PrvTypeOK'
  <2>1. conv' \in [Tokens -> {"none", "stat", "writing", "orphan", "rename", "done"}]
    BY <1>1 DEF PrvInv, PrvTypeOK
  <2>2. prvAt' \in [ProofCalls -> {"idle", "asking", "awaiting", "proving", "done",
                                   "mismatch", "failed", "discarding", "asking again",
                                   "admitted", "refused", "gone"}]
    BY <1>1 DEF PrvInv, PrvTypeOK
  <2>3. promise' \in [Procs -> Tokens \cup {NoToken}]
        /\ partial' \in [Procs -> Tokens \cup {NoToken}]
    BY <1>1 DEF PrvInv, PrvTypeOK
  <2> QED
    BY <1>1, <2>1, <2>2, <2>3 DEF PrvInv, PrvTypeOK
<1>6. TriesFit'
  <2>1. \A u \in Tokens : path'[u] # "none" => conv'[u] = "done"
    <3>1. \A u \in Tokens : path[u] # "none" => conv[u] = "done"
      BY DEF PrvInv, TriesFit
    <3> QED
      BY <3>1, <1>1, <1>3
  <2>2. \A c \in ProofCalls :
          prvAt'[c] \in {"idle", "asking", "discarding", "asking again"} =>
              prvAt[c] = prvAt'[c]
    BY <1>2
  <2>3. \A c \in ProofCalls : {First(c), Again(c)} \subseteq Tokens
    BY TokenFacts
  <2>4. tries' = tries /\ uses' = uses /\ discarded' = discarded
    BY <1>1
  <2> QED
    BY <1>3, <2>1, <2>2, <2>3, <2>4 DEF PrvInv, TriesFit
<1>7. AwaitsFit'
  <2>1. \A c \in ProofCalls :
          prvAt'[c] \in {"awaiting", "proving", "discarding"} => prvAt[c] = prvAt'[c]
    BY <1>2
  <2>2. \A q \in Procs : promise'[q] # NoToken => promise'[q] = promise[q]
    BY <1>4
  <2>3. awaits' = awaits /\ uses' = uses /\ path' = path
    BY <1>1
  <2> QED
    BY <2>1, <2>2, <2>3 DEF PrvInv, AwaitsFit
<1>8. PartialsFit'
  <2>1. \A q \in Procs : partial'[q] # NoToken => partial'[q] = partial[q]
    BY <1>4
  <2>2. ark' = ark /\ discarded' = discarded
    BY <1>1
  <2> QED
    BY <1>3, <2>1, <2>2 DEF PrvInv, PartialsFit
<1>f. discarded' = discarded /\ (Few' <=> Few)
  BY <1>1 DEF Few
<1>9. OneActive'
  <2>1. ASSUME Few, NEW u \in Tokens, Active(u)' PROVE promise'[Of(u)] = u
    <3>1. Of(u) # p /\ Active(u)
      BY <1>3, <2>1 DEF Active
    <3>2. promise[Of(u)] = u /\ Of(u) \in Procs
      BY <2>1, <3>1, TokenFacts DEF PrvInv, OneActive
    <3> QED
      BY <1>4, <3>1, <3>2
  <2> QED
    BY <1>f, <2>1 DEF OneActive
<1>10. PromiseStays'
  <2>1. ASSUME NEW c \in ProofCalls, discarded \subseteq {c}, Suspects(c)'
        PROVE  /\ awaits[c] \in Tokens /\ promise'[Proc[c]] = awaits[c]
               /\ conv'[awaits[c]] = "done"
    <3>1. prvAt'[c] \notin {"idle", "gone"}
      BY <2>1 DEF Suspects
    <3>2. Proc[c] # p /\ prvAt'[c] = prvAt[c] /\ Proc[c] \in Procs
      BY <1>2, <3>1, TokenFacts
    <3>3. Suspects(c)
      BY <1>1, <2>1, <3>2 DEF Suspects
    <3>4. /\ awaits[c] \in Tokens /\ promise[Proc[c]] = awaits[c]
          /\ conv[awaits[c]] = "done"
      BY <2>1, <3>3 DEF PrvInv, PromiseStays
    <3> QED
      BY <1>3, <1>4, <3>2, <3>4
  <2>2. awaits' = awaits
    BY <1>1
  <2> QED
    BY <1>f, <2>1, <2>2 DEF PromiseStays
<1>11. WritesAlone'
  <2>1. \A u \in Tokens : conv'[u] \in {"writing", "rename"} =>
           conv[u] = conv'[u] /\ partial'[Of(u)] = partial[Of(u)]
    BY <1>3, <1>4, TokenFacts
  <2>2. UNCHANGED <<holds, content, opener, ark>>
    BY <1>1
  <2> QED
    BY <1>f, <2>1, <2>2 DEF PrvInv, WritesAlone
<1>12. SecondTry'
  <2>1. \A c \in ProofCalls :
          prvAt'[c] \in {"awaiting", "proving", "failed"} => prvAt[c] = prvAt'[c]
    BY <1>2
  <2>2. UNCHANGED <<awaits, uses, path, ark, faulted>>
    BY <1>1
  <2>3. discarded \subseteq ProofCalls
    BY DEF PrvInv, PrvTypeOK
  <2> QED
    BY <1>f, <2>1, <2>2, <2>3 DEF PrvInv, SecondTry
<1> QED
  BY <1>5, <1>6, <1>7, <1>8, <1>9, <1>10, <1>11, <1>12 DEF PrvInv

\* A call whose command failed is to blame it, or the cached key was not whole:
\* which a second try does not find.
LEMMA RunFailsStep ==
    ASSUME PrvInv, NEW c \in ProofCalls, RunFails(c)
    PROVE  PrvInv'
<1> DEFINE to == IF uses[c] = "zkey" \/ tries[c] = 2 THEN "failed" ELSE "discarding"
<1>1. /\ prvAt[c] = "proving" /\ Go(c, to)
      /\ UNCHANGED <<tries, awaits, uses, promise, conv, path, files, ark, discarded>>
      /\ \/ ~Loads(c) /\ faulted' = faulted
         \/ faulted' = faulted \cup {c}
  BY DEF RunFails
<1>2. uses[c] \in {"ark", "zkey"} /\ uses' = [uses EXCEPT ![c] = uses[c]]
  BY <1>1 DEF PrvInv, PrvTypeOK
<1>3. tries[c] = IF c \in discarded THEN 2 ELSE 1
  BY DEF PrvInv, TriesFit
<1>4. ASSUME to = "failed", Few PROVE c \in faulted'
  <2>1. CASE faulted' = faulted \cup {c}
    BY <2>1
  <2>2. CASE ~Loads(c)
    <3>1. uses[c] = "ark" /\ ark \notin Whole
      BY <1>2, <2>2 DEF Loads
    <3>2. c \in discarded
      BY <1>3, <1>4, <3>1
    <3>3. ark \in Tokens
      BY <1>1, <1>4, <3>1, <3>2 DEF PrvInv, SecondTry
    <3>4. content[ark] = "good"
      BY <1>4, <3>3 DEF PrvInv, WritesAlone
    <3> QED
      BY <3>1, <3>3, <3>4 DEF Whole
  <2> QED
    BY <1>1, <2>1, <2>2
<1>5. to = "discarding" => uses[c] = "ark" /\ c \notin discarded
  BY <1>2, <1>3
<1>6. to \in {"failed", "discarding"} /\ faulted \subseteq faulted'
  BY <1>1
<1> HIDE DEF to
<1> QED
  BY <1>1, <1>2, <1>4, <1>5, <1>6, CallStep

\* A call asks for the converted key.
LEMMA ProvingKeyStep ==
    ASSUME PrvInv, NEW c \in ProofCalls, ProvingKey(c)
    PROVE  PrvInv'
<1>1. /\ prvAt[c] \in {"asking", "asking again"}
      /\ UNCHANGED <<tries, path, files, ark, faulted, discarded>>
  BY DEF ProvingKey
<1>2. CASE ~WantCache
  <2>1. /\ Go(c, "proving") /\ uses' = [uses EXCEPT ![c] = "zkey"]
        /\ UNCHANGED <<promise, conv, awaits>>
    BY <1>2 DEF ProvingKey
  <2> QED
    BY <1>1, <2>1, CallStep
<1>3. CASE WantCache
  <2> DEFINE noted == Forget(c)
             t == IF noted = NoToken THEN <<c, tries[c]>> ELSE noted
  <2>1. /\ promise' = [promise EXCEPT ![Proc[c]] = t]
        /\ conv' = IF noted = NoToken THEN [conv EXCEPT ![t] = "stat"] ELSE conv
        /\ awaits' = [awaits EXCEPT ![c] = t]
        /\ Go(c, "awaiting") /\ uses' = uses
    BY <1>3 DEF ProvingKey
  <2>2. /\ tries[c] = IF c \in discarded THEN 2 ELSE 1
        /\ prvAt[c] = "asking again" <=> c \in discarded
    BY <1>1 DEF PrvInv, TriesFit
  <2>3. CASE noted # NoToken
    <3>1. prvAt[c] = "asking" /\ noted = promise[Proc[c]]
      BY <1>1, <2>2, <2>3 DEF Forget
    <3>2. promise \in [Procs -> Tokens \cup {NoToken}] /\ Proc[c] \in Procs
      BY TokenFacts DEF PrvInv, PrvTypeOK
    <3>3. promise' = promise /\ conv' = conv /\ awaits' = [awaits EXCEPT ![c] = noted]
      BY <2>1, <2>3, <3>1, <3>2
    <3> HIDE DEF noted
    <3> QED
      BY <1>1, <2>1, <2>3, <3>1, <3>3, KnownStep
  <2>4. CASE noted = NoToken
    <3>1. t = IF c \in discarded THEN Again(c) ELSE First(c)
      BY <2>2, <2>4 DEF Again, First
    <3>2. prvAt[c] = "asking" => promise[Proc[c]] = NoToken
      BY <2>2, <2>4 DEF Forget
    <3>3. conv' = [conv EXCEPT ![t] = "stat"]
      BY <2>1, <2>4
    <3> HIDE DEF t, noted
    <3> QED
      BY <1>1, <2>1, <3>1, <3>2, <3>3, NewStep
  <2> QED
    BY <2>3, <2>4
<1> QED
  BY <1>2, <1>3

\* One case per action.
LEMMA PrvInvStep == PrvInv /\ [ProverNext]_prvVars => PrvInv'
<1> SUFFICES ASSUME PrvInv, [ProverNext]_prvVars PROVE PrvInv'
  OBVIOUS
<1>u. \A c \in ProofCalls :
        uses[c] \in {"ark", "zkey"} /\ uses = [uses EXCEPT ![c] = uses[c]]
  BY DEF PrvInv, PrvTypeOK
<1>1. ASSUME NEW c \in ProofCalls, BeginProof(c) PROVE PrvInv'
  <2> DEFINE to == IF Backend[c] = "native" THEN "asking" ELSE "proving"
  <2>1. /\ prvAt[c] = "idle" /\ Go(c, to) /\ uses' = uses
        /\ UNCHANGED <<tries, awaits, promise, conv, path, files, ark, faulted,
                       discarded>>
    BY <1>1 DEF BeginProof
  <2>2. uses[c] = "zkey"
    BY <2>1 DEF PrvInv, TriesFit
  <2>3. to \in {"asking", "proving"}
    OBVIOUS
  <2> HIDE DEF to
  <2> QED
    BY <1>u, <2>1, <2>2, <2>3, CallStep
<1>2. ASSUME NEW c \in ProofCalls, ProvingKey(c) PROVE PrvInv'
  BY <1>2, ProvingKeyStep
<1>3. ASSUME NEW c \in ProofCalls, HasKey(c) PROVE PrvInv'
  <2>1. /\ prvAt[c] = "awaiting" /\ path[awaits[c]] # "none"
        /\ Go(c, "proving") /\ uses' = [uses EXCEPT ![c] = path[awaits[c]]]
        /\ UNCHANGED <<tries, awaits, promise, conv, path, files, ark, faulted,
                       discarded>>
    BY <1>3 DEF HasKey
  <2>2. awaits[c] \in Tokens
    BY <2>1 DEF PrvInv, AwaitsFit
  <2>3. path[awaits[c]] \in {"ark", "zkey"}
    BY <2>1, <2>2 DEF PrvInv, PrvTypeOK
  <2> QED
    BY <2>1, <2>3, CallStep
<1>4. ASSUME NEW c \in ProofCalls, Proves(c) PROVE PrvInv'
  <2> DEFINE to == IF Bound(c) THEN "done" ELSE "mismatch"
  <2>1. /\ prvAt[c] = "proving" /\ Go(c, to) /\ uses' = uses
        /\ UNCHANGED <<tries, awaits, promise, conv, path, files, ark, faulted,
                       discarded>>
    BY <1>4 DEF Proves
  <2>2. to \in {"done", "mismatch"}
    OBVIOUS
  <2> HIDE DEF to
  <2> QED
    BY <1>u, <2>1, <2>2, CallStep
<1>5. ASSUME NEW c \in ProofCalls, RunFails(c) PROVE PrvInv'
  BY <1>5, RunFailsStep
<1>6. ASSUME NEW c \in ProofCalls, Discard(c) PROVE PrvInv'
  BY <1>6, DiscardStep
<1>7. ASSUME NEW c \in ProofCalls, AdmitKey(c) PROVE PrvInv'
  <2> DEFINE to == IF Verified(c) THEN "admitted" ELSE "refused"
  <2>1. /\ prvAt[c] = "done" /\ Go(c, to) /\ uses' = uses
        /\ UNCHANGED <<tries, awaits, promise, conv, path, files, ark, faulted,
                       discarded>>
    BY <1>7 DEF AdmitKey
  <2>2. to \in {"admitted", "refused"}
    OBVIOUS
  <2> HIDE DEF to
  <2> QED
    BY <1>u, <2>1, <2>2, CallStep
<1>8. ASSUME NEW t \in Tokens, Stat(t) PROVE PrvInv'
  BY <1>8, FoundStep, OpensStep
<1>9. ASSUME NEW t \in Tokens, Converted(t) PROVE PrvInv'
  BY <1>9, ConvertedStep
<1>10. ASSUME NEW t \in Tokens, ConvertFails(t) PROVE PrvInv'
  BY <1>10, GivesUpStep DEF ConvertFails
<1>11. ASSUME NEW t \in Tokens, Rename(t) PROVE PrvInv'
  <2>1. CASE partial[Of(t)] = NoToken
    <3>1. /\ conv[t] \in {"writing", "rename"} /\ GivesUp(t)
          /\ UNCHANGED <<flow, files, ark, faulted, discarded>>
      BY <1>11, <2>1 DEF Rename, files
    <3> QED
      BY <3>1, GivesUpStep
  <2> QED
    BY <1>11, <2>1, RenamedStep
<1>12. ASSUME NEW p \in Procs, ProverCrash(p) PROVE PrvInv'
  BY <1>12, CrashStep
<1>13. CASE UNCHANGED prvVars
  <2>1. UNCHANGED <<prvAt, tries, awaits, uses, promise, conv, path, partial, holds,
                    content, opener, ark, faulted, discarded>>
    BY <1>13 DEF prvVars, flow, files
  <2>2. PrvTypeOK' /\ TriesFit' /\ AwaitsFit' /\ PartialsFit'
    BY <2>1 DEF PrvInv, PrvTypeOK, TriesFit, AwaitsFit, PartialsFit
  <2>3. OneActive' /\ PromiseStays'
    BY <2>1 DEF PrvInv, OneActive, PromiseStays, Few, Active, Suspects
  <2>4. WritesAlone' /\ SecondTry'
    BY <2>1 DEF PrvInv, WritesAlone, SecondTry, Few
  <2> QED
    BY <2>2, <2>3, <2>4 DEF PrvInv
<1> QED
  BY <1>1, <1>2, <1>3, <1>4, <1>5, <1>6, <1>7, <1>8, <1>9, <1>10, <1>11, <1>12,
     <1>13 DEF ProverNext

\* A set of at most one element holds no two.
LEMMA FewByCount ==
    ASSUME IsFiniteSet(discarded), Cardinality(discarded) <= 1
    PROVE  Few
<1> SUFFICES ASSUME NEW c \in discarded, NEW d \in discarded, c # d PROVE FALSE
  BY DEF Few
<1>1. IsFiniteSet({c}) /\ Cardinality({c}) = 1
  BY FS_Singleton
<1>2. Cardinality({c} \cup {d}) = 2 /\ IsFiniteSet({c} \cup {d})
  BY <1>1, FS_AddElement
<1>3. Cardinality({c} \cup {d}) <= Cardinality(discarded)
  BY FS_Subset
<1>4. Cardinality(discarded) \in Nat
  BY FS_CardinalityType
<1> QED
  BY <1>2, <1>3, <1>4

\* Whatever is killed and dies, a call fails with its own command only, and what
\* stands under the name of the key is whole, as long as at most one call
\* discarded the key (the retry of proveLinkage, and the rename of ensureConvertedKey).
THEOREM FailsOnlyWithProver == ProverSpec => []FailsWithProver
<1> DEFINE Finite == IsFiniteSet(discarded)
<1>1. ProverInit => Finite
  BY FS_EmptySet DEF ProverInit
<1>2. ASSUME Finite, [ProverNext]_prvVars PROVE Finite'
  <2>1. discarded' = discarded \/ \E c \in ProofCalls : discarded' = discarded \cup {c}
    BY <1>2 DEF ProverNext, prvVars, BeginProof, ProvingKey, HasKey, Proves, RunFails,
                Discard, AdmitKey, Stat, Converted, ConvertFails, Rename, ProverCrash
  <2>2. CASE discarded' = discarded
    BY <1>2, <2>2
  <2>3. CASE \E c \in ProofCalls : discarded' = discarded \cup {c}
    <3>1. PICK c \in ProofCalls : discarded' = discarded \cup {c}
      BY <2>3
    <3>2. IsFiniteSet(discarded \cup {c})
      BY <1>2, FS_AddElement
    <3> QED
      BY <3>1, <3>2
  <2> QED
    BY <2>1, <2>2, <2>3
<1>3. ASSUME PrvInv, Finite PROVE FailsWithProver
  <2>1. Cardinality(discarded) \in Nat
    BY <1>3, FS_CardinalityType
  <2>2. Cardinality(discarded) <= 1 => Few
    BY <1>3, FewByCount
  <2>3. Few => ark \notin Tokens \ Whole
    BY <1>3 DEF PrvInv, WritesAlone, Whole
  <2>4. Few => \A c \in ProofCalls : prvAt[c] = "failed" => c \in faulted
    BY <1>3 DEF PrvInv, SecondTry
  <2> QED
    BY <2>1, <2>2, <2>3, <2>4 DEF FailsWithProver
<1> HIDE DEF Finite
<1> QED
  BY <1>1, <1>2, <1>3, PrvInvInit, PrvInvStep, PTL DEF ProverSpec

=============================================================================
