---------------------------- MODULE PrepaidProofs ----------------------------
(***************************************************************************)
(* However many settle calls run at once, and whatever fails: a prepaid    *)
(* order gets no channel before its fee is paid, and an order is called    *)
(* channel_active only with a ready channel.                               *)
(***************************************************************************)
EXTENDS Prepaid, TLAPS

\* A call past the fee check works on an order whose fee is paid.
PaidRight(o) ==
    o \in Prepays =>
        /\ \A h \in Handlers :
              pc[o][h] \in {"verified", "open", "await", "opened",
                            "timedOut", "thrown"} => fee[o] = "Paid"
        /\ opens[o] > 0 \/ state[o] # "awaiting_payment" => fee[o] = "Paid"

\* A call that saw the channel ready is right for ever.
ReadyRight(o) ==
    /\ \A h \in Handlers : pc[o][h] = "opened" => ready[o]
    /\ state[o] = "channel_active" => ready[o]

PrepaidInv ==
    /\ TypeOK
    /\ \A o \in Orders : PaidRight(o) /\ ReadyRight(o)

-----------------------------------------------------------------------------

\* A handler's move changes one place of pc.
LEMMA GotoRight ==
    ASSUME NEW o \in Orders, NEW h \in Handlers, NEW p \in Pcs,
           pc \in [Orders -> [Handlers -> Pcs]], Goto(o, h, p)
    PROVE  /\ pc' \in [Orders -> [Handlers -> Pcs]]
           /\ pc'[o][h] = p
           /\ \A q \in Orders, k \in Handlers :
                 q # o \/ k # h => pc'[q][k] = pc[q][k]
BY DEF Goto

\* The orders have just been created.
LEMMA PrepaidInvInit == Init => PrepaidInv
BY MaxCrashesAssumption, PrepaysAssumption
   DEF Init, PrepaidInv, TypeOK, PaidRight, ReadyRight, States, Pcs, Handlers

\* Each step of a call, a client or the node keeps the invariant.
LEMMA PrepaidInvStep == PrepaidInv /\ [Next]_vars => PrepaidInv'
<1> SUFFICES ASSUME PrepaidInv, [Next]_vars PROVE PrepaidInv'
  OBVIOUS
<1> USE MaxCrashesAssumption, PrepaysAssumption
<1> USE DEF PrepaidInv, TypeOK, PaidRight, ReadyRight, States, Pcs, nodes, Become
<1>1. ASSUME NEW o \in Orders, NEW h \in Calls, SettleFee(o, h)
      PROVE PrepaidInv'
  <2>1. h \in Handlers /\ "verify" \in Pcs
    BY DEF Handlers
  <2>2. /\ pc' \in [Orders -> [Handlers -> Pcs]]
        /\ pc'[o][h] = "verify"
        /\ \A q \in Orders, k \in Handlers :
              q # o \/ k # h => pc'[q][k] = pc[q][k]
    BY <1>1, <2>1, GotoRight DEF SettleFee
  <2> QED
    BY <1>1, <2>1, <2>2 DEF SettleFee
<1>2. ASSUME NEW o \in Orders, NEW h \in Handlers, Verify(o, h)
      PROVE PrepaidInv'
  <2>1. PICK p \in {"verified", "unverified"} :
            Goto(o, h, p) /\ (p = "verified" => fee[o] = "Paid")
    BY <1>2 DEF Verify
  <2>2. p \in Pcs
    OBVIOUS
  <2>3. /\ pc' \in [Orders -> [Handlers -> Pcs]]
        /\ pc'[o][h] = p
        /\ \A q \in Orders, k \in Handlers :
              q # o \/ k # h => pc'[q][k] = pc[q][k]
    BY <2>1, <2>2, GotoRight
  <2> QED
    BY <1>2, <2>1, <2>2, <2>3 DEF Verify
<1>3. ASSUME NEW o \in Orders, NEW h \in Handlers, Unverified(o, h)
      PROVE PrepaidInv'
  <2>1. "off" \in Pcs
    OBVIOUS
  <2>2. /\ pc' \in [Orders -> [Handlers -> Pcs]]
        /\ pc'[o][h] = "off"
        /\ \A q \in Orders, k \in Handlers :
              q # o \/ k # h => pc'[q][k] = pc[q][k]
    BY <1>3, <2>1, GotoRight DEF Unverified
  <2>3. UNCHANGED <<state, opens, ready, fee, crashes>>
    BY <1>3 DEF Unverified
  <2>4. \A q \in Orders, k \in Handlers : pc'[q][k] \in {pc[q][k], "off"}
    BY <2>2
  <2>5. ASSUME NEW q \in Orders PROVE PaidRight(q)'
    BY <2>3, <2>4
  <2>6. ASSUME NEW q \in Orders PROVE ReadyRight(q)'
    BY <2>3, <2>4
  <2> QED
    BY <2>2, <2>3, <2>5, <2>6
<1>4. ASSUME NEW o \in Orders, NEW h \in Handlers, Provision(o, h)
      PROVE PrepaidInv'
  <2>1. PICK p \in {"off", "open"} :
            /\ Goto(o, h, p)
            /\ IF p = "off" THEN state' = state ELSE Become(o, "opening")
    BY <1>4 DEF Provision
  <2>2. p \in Pcs
    OBVIOUS
  <2>3. /\ pc' \in [Orders -> [Handlers -> Pcs]]
        /\ pc'[o][h] = p
        /\ \A q \in Orders, k \in Handlers :
              q # o \/ k # h => pc'[q][k] = pc[q][k]
    BY <2>1, <2>2, GotoRight
  <2>4. pc[o][h] = "verified" /\ UNCHANGED <<opens, ready, fee, crashes>>
    BY <1>4 DEF Provision
  <2>5. ASSUME NEW q \in Orders PROVE (PaidRight(q) /\ ReadyRight(q))'
    BY <2>1, <2>3, <2>4
  <2>6. TypeOK'
    BY <2>1, <2>3, <2>4
  <2> QED
    BY <2>5, <2>6
<1>5. ASSUME NEW o \in Orders, NEW h \in Handlers, OpenChannel(o, h)
      PROVE PrepaidInv'
  <2>1. PICK p \in {"await", "thrown"} : Goto(o, h, p)
    BY <1>5 DEF OpenChannel
  <2>2. p \in Pcs
    OBVIOUS
  <2>3. opens' \in [Orders -> 0..2]
        /\ \A q \in Orders : q # o => opens'[q] = opens[q]
    BY <1>5 DEF OpenChannel
  <2>4. /\ pc' \in [Orders -> [Handlers -> Pcs]]
        /\ pc'[o][h] = p
        /\ \A q \in Orders, k \in Handlers :
              q # o \/ k # h => pc'[q][k] = pc[q][k]
    BY <2>1, <2>2, GotoRight
  <2> QED
    BY <1>5, <2>1, <2>2, <2>3, <2>4 DEF OpenChannel
<1>6. ASSUME NEW o \in Orders, NEW h \in Handlers, AwaitChannel(o, h)
      PROVE PrepaidInv'
  <2>1. PICK p \in {"opened", "timedOut", "thrown"} :
            Goto(o, h, p) /\ (p = "opened" => ready[o])
    BY <1>6 DEF AwaitChannel
  <2>2. p \in Pcs
    OBVIOUS
  <2>3. /\ pc' \in [Orders -> [Handlers -> Pcs]]
        /\ pc'[o][h] = p
        /\ \A q \in Orders, k \in Handlers :
              q # o \/ k # h => pc'[q][k] = pc[q][k]
    BY <2>1, <2>2, GotoRight
  <2> QED
    BY <1>6, <2>1, <2>2, <2>3 DEF AwaitChannel
<1>7. ASSUME NEW o \in Orders, NEW h \in Handlers, ProvisionEnds(o, h)
      PROVE PrepaidInv'
  <2>1. "off" \in Pcs
    OBVIOUS
  <2>2. /\ pc' \in [Orders -> [Handlers -> Pcs]]
        /\ pc'[o][h] = "off"
        /\ \A q \in Orders, k \in Handlers :
              q # o \/ k # h => pc'[q][k] = pc[q][k]
    BY <1>7, <2>1, GotoRight DEF ProvisionEnds
  <2>3. UNCHANGED <<opens, ready, fee, crashes>>
    BY <1>7 DEF ProvisionEnds
  <2>4. PICK s \in {"channel_active", "failed"} :
            /\ Become(o, s)
            /\ pc[o][h] \in {"opened", "timedOut", "thrown"}
            /\ s = "channel_active" => pc[o][h] = "opened"
    BY <1>7 DEF ProvisionEnds
  <2>5. \A q \in Orders, k \in Handlers : pc'[q][k] \in {pc[q][k], "off"}
    BY <2>2
  <2>6. ASSUME NEW q \in Orders PROVE PaidRight(q)'
    BY <2>3, <2>4, <2>5
  <2>7. ASSUME NEW q \in Orders PROVE ReadyRight(q)'
    BY <2>3, <2>4, <2>5
  <2>8. TypeOK'
    BY <2>2, <2>3, <2>4
  <2> QED
    BY <2>6, <2>7, <2>8
<1>8. ASSUME NEW o \in Orders, PayFee(o) PROVE PrepaidInv'
  BY <1>8 DEF PayFee
<1>9. ASSUME NEW o \in Orders, ChannelReady(o) PROVE PrepaidInv'
  BY <1>9 DEF ChannelReady
<1>10. ASSUME NEW o \in Orders, Lapse(o) PROVE PrepaidInv'
  <2>1. \A q \in Orders : fee[q] = "Paid" => fee'[q] = "Paid"
    BY <1>10 DEF Lapse
  <2>2. fee' \in [Orders -> {"Open", "Paid", "Expired"}]
    BY <1>10 DEF Lapse
  <2> QED
    BY <1>10, <2>1, <2>2 DEF Lapse
<1>11. CASE Crash
  BY <1>11 DEF Crash
<1>12. CASE UNCHANGED vars
  BY <1>12 DEF vars
<1> HIDE DEF PrepaidInv
<1> QED
  BY <1>1, <1>2, <1>3, <1>4, <1>5, <1>6, <1>7, <1>8, <1>11, <1>12, <1>9,
     <1>10 DEF Next, Step

\* The invariant holds of every behaviour of the service.
THEOREM PrepaidInductive == Spec => []PrepaidInv
BY PrepaidInvInit, PrepaidInvStep, PTL DEF Spec

\* No client gets a channel without having paid (settleFee's verifier).
THEOREM NoChannelWithoutFee == Spec => []FeeBeforeChannel
<1>1. PrepaidInv => FeeBeforeChannel
  BY PrepaysAssumption DEF PrepaidInv, PaidRight, FeeBeforeChannel
<1> QED
  BY <1>1, PrepaidInductive, PTL

\* No order is called channel_active without a ready channel (provision).
THEOREM NoActiveWithoutChannel == Spec => []ActiveIsReady
<1>1. PrepaidInv => ActiveIsReady
  BY DEF PrepaidInv, ReadyRight, ActiveIsReady
<1> QED
  BY <1>1, PrepaidInductive, PTL

-----------------------------------------------------------------------------
(* One call at a time *)

\* The client waits for an answer before it asks again.
OneCall == \A h, k \in Calls : h = k

\* The state and the channels of an order that a call at p works on.
Fits(p, s, n) ==
    /\ p \in {"verify", "unverified", "verified"} => s = "awaiting_payment"
    /\ p \in {"open", "await", "opened", "timedOut", "thrown"} => s = "opening"
    /\ p = "open" \/ s = "awaiting_payment" => n = 0
    /\ n <= 1

\* One call works on an order, and on one that waits for its fee only a call of
\* its client.
Single(o) ==
    /\ \A h, k \in Handlers : pc[o][h] # "off" /\ pc[o][k] # "off" => h = k
    /\ \A h \in Handlers : Fits(pc[o][h], state[o], opens[o])
    /\ state[o] = "awaiting_payment" =>
          \A h \in Handlers : h \notin Calls => pc[o][h] = "off"

SingleInv == \A o \in Orders : Single(o)

\* The call that works on an order moves on, or its client makes one.
LEMMA SingleMove ==
    ASSUME OneCall, TypeOK, SingleInv, NEW o \in Orders, NEW h \in Handlers,
           NEW p \in Pcs, Goto(o, h, p),
           pc[o][h] # "off" \/ (state[o] = "awaiting_payment" /\ h \in Calls),
           \A q \in Orders : q # o => state'[q] = state[q] /\ opens'[q] = opens[q],
           Fits(p, state'[o], opens'[o]),
           state'[o] = "awaiting_payment" => state[o] = "awaiting_payment"
    PROVE  SingleInv'
<1>1. /\ pc'[o][h] = p
      /\ \A q \in Orders, k \in Handlers : q # o \/ k # h => pc'[q][k] = pc[q][k]
  BY GotoRight DEF TypeOK
<1>2. \A k \in Handlers : k # h => pc'[o][k] = "off"
  BY <1>1 DEF OneCall, SingleInv, Single
<1>3. ASSUME NEW q \in Orders, q # o PROVE Single(q)'
  BY <1>1, <1>3 DEF SingleInv, Single
<1>4. Single(o)'
  <2>1. \A k \in Handlers : Fits(pc'[o][k], state'[o], opens'[o])
    BY <1>1, <1>2 DEF Fits
  <2>2. state'[o] = "awaiting_payment" =>
            \A k \in Handlers : k \notin Calls => pc'[o][k] = "off"
    BY <1>1, <1>2 DEF SingleInv, Single
  <2>3. \A k, l \in Handlers : pc'[o][k] # "off" /\ pc'[o][l] # "off" => k = l
    BY <1>2
  <2> QED
    BY <2>1, <2>2, <2>3 DEF Single
<1> QED
  BY <1>3, <1>4 DEF SingleInv

\* A from-capacity order starts with the call that created it.
LEMMA SingleInit == Init => SingleInv
<1> SUFFICES ASSUME Init, NEW o \in Orders PROVE Single(o)
  BY DEF SingleInv
<1>1. \A h \in Handlers :
          pc[o][h] = IF h = "create" /\ o \notin Prepays THEN "open" ELSE "off"
  BY DEF Init
<1>2. opens[o] = 0 /\ state[o] = IF o \in Prepays THEN "awaiting_payment" ELSE "opening"
  BY DEF Init
<1> QED
  BY <1>1, <1>2 DEF Single, Fits

\* One case per action.
LEMMA SingleStep == OneCall /\ TypeOK /\ SingleInv /\ [Next]_vars => SingleInv'
<1> SUFFICES ASSUME OneCall, TypeOK, SingleInv, [Next]_vars PROVE SingleInv'
  OBVIOUS
<1>f. \A o \in Orders, h \in Handlers : Fits(pc[o][h], state[o], opens[o])
  BY DEF SingleInv, Single
<1>1. ASSUME NEW o \in Orders, NEW h \in Calls, SettleFee(o, h) PROVE SingleInv'
  <2>1. /\ h \in Handlers /\ "verify" \in Pcs /\ state[o] = "awaiting_payment"
        /\ Goto(o, h, "verify") /\ UNCHANGED <<state, opens>>
    BY <1>1 DEF SettleFee, Handlers, Pcs, nodes
  <2>2. Fits("verify", state'[o], opens'[o])
    BY <1>f, <2>1 DEF Fits
  <2> QED
    BY <2>1, <2>2, SingleMove
<1>2. ASSUME NEW o \in Orders, NEW h \in Handlers, Verify(o, h) PROVE SingleInv'
  <2>1. PICK p \in {"verified", "unverified"} :
            Goto(o, h, p) /\ pc[o][h] = "verify" /\ UNCHANGED <<state, opens>>
    BY <1>2 DEF Verify, nodes
  <2>2. Fits(p, state'[o], opens'[o]) /\ p \in Pcs
    BY <1>f, <2>1 DEF Fits, Pcs
  <2> QED
    BY <2>1, <2>2, SingleMove
<1>3. ASSUME NEW o \in Orders, NEW h \in Handlers, Unverified(o, h) PROVE SingleInv'
  <2>1. Goto(o, h, "off") /\ pc[o][h] = "unverified" /\ UNCHANGED <<state, opens>>
    BY <1>3 DEF Unverified, nodes
  <2>2. Fits("off", state'[o], opens'[o]) /\ "off" \in Pcs
    BY <1>f, <2>1 DEF Fits, Pcs
  <2> QED
    BY <2>1, <2>2, SingleMove
<1>4. ASSUME NEW o \in Orders, NEW h \in Handlers, Provision(o, h) PROVE SingleInv'
  <2>1. pc[o][h] = "verified" /\ state[o] = "awaiting_payment" /\ opens[o] = 0
    BY <1>4, <1>f DEF Provision, Fits
  <2>2. /\ Goto(o, h, "open") /\ state'[o] = "opening" /\ opens' = opens
        /\ \A q \in Orders : q # o => state'[q] = state[q]
    BY <1>4, <2>1 DEF Provision, Become, nodes, TypeOK
  <2>3. Fits("open", state'[o], opens'[o]) /\ "open" \in Pcs
    BY <2>1, <2>2 DEF Fits, Pcs
  <2> QED
    BY <2>1, <2>2, <2>3, SingleMove
<1>5. ASSUME NEW o \in Orders, NEW h \in Handlers, OpenChannel(o, h) PROVE SingleInv'
  <2>1. pc[o][h] = "open" /\ state[o] = "opening" /\ opens[o] = 0
    BY <1>5, <1>f DEF OpenChannel, Fits
  <2>2. PICK p \in {"await", "thrown"} : Goto(o, h, p)
    BY <1>5 DEF OpenChannel
  <2>3. /\ opens'[o] \in {0, 1} /\ state' = state
        /\ \A q \in Orders : q # o => opens'[q] = opens[q]
    BY <1>5, <2>1 DEF OpenChannel, TypeOK
  <2>4. Fits(p, state'[o], opens'[o]) /\ p \in Pcs
    BY <2>1, <2>2, <2>3 DEF Fits, Pcs
  <2> QED
    BY <2>1, <2>2, <2>3, <2>4, SingleMove
<1>6. ASSUME NEW o \in Orders, NEW h \in Handlers, AwaitChannel(o, h) PROVE SingleInv'
  <2>1. PICK p \in {"opened", "timedOut", "thrown"} :
            Goto(o, h, p) /\ pc[o][h] = "await" /\ UNCHANGED <<state, opens>>
    BY <1>6 DEF AwaitChannel, nodes
  <2>2. Fits(p, state'[o], opens'[o]) /\ p \in Pcs
    BY <1>f, <2>1 DEF Fits, Pcs
  <2> QED
    BY <2>1, <2>2, SingleMove
<1>7. ASSUME NEW o \in Orders, NEW h \in Handlers, ProvisionEnds(o, h) PROVE SingleInv'
  <2>1. PICK s \in {"channel_active", "failed"} :
            /\ Become(o, s) /\ Goto(o, h, "off") /\ opens' = opens
            /\ pc[o][h] \in {"opened", "timedOut", "thrown"}
    BY <1>7 DEF ProvisionEnds, nodes
  <2>2. state'[o] = s /\ \A q \in Orders : q # o => state'[q] = state[q]
    BY <2>1 DEF Become, TypeOK
  <2>3. Fits("off", state'[o], opens'[o]) /\ "off" \in Pcs
    BY <1>f, <2>1, <2>2 DEF Fits, Pcs
  <2> QED
    BY <2>1, <2>2, <2>3, SingleMove
<1>8. ASSUME NEW o \in Orders, PayFee(o) \/ ChannelReady(o) \/ Lapse(o) PROVE SingleInv'
  BY <1>8 DEF PayFee, ChannelReady, Lapse, SingleInv, Single
<1>9. CASE Crash
  <2>1. /\ \A o \in Orders, h \in Handlers : pc'[o][h] = "off"
        /\ UNCHANGED <<state, opens>>
    BY <1>9 DEF Crash, nodes
  <2>2. ASSUME NEW o \in Orders, NEW h \in Handlers
        PROVE  Fits(pc'[o][h], state[o], opens[o])
    BY <1>f, <2>1 DEF Fits
  <2> QED
    BY <2>1, <2>2 DEF SingleInv, Single
<1>10. CASE UNCHANGED vars
  BY <1>10 DEF vars, SingleInv, Single
<1> QED
  BY <1>1, <1>2, <1>3, <1>4, <1>5, <1>6, <1>7, <1>8, <1>9, <1>10 DEF Next, Step

\* A client that waits for its answers gets one channel at most, whatever fails
\* and however often it asks again (settleFee's check of the state).
THEOREM OneChannelEach == OneCall => (Spec => []OneChannel)
<1> SUFFICES ASSUME OneCall PROVE Spec => []OneChannel
  OBVIOUS
<1>1. TypeOK /\ SingleInv /\ [Next]_vars => SingleInv'
  BY SingleStep
<1>2. SingleInv => OneChannel
  BY DEF SingleInv, Single, Fits, OneChannel, Handlers
<1>3. PrepaidInv => TypeOK
  BY DEF PrepaidInv
<1> QED
  BY <1>1, <1>2, <1>3, SingleInit, PrepaidInductive, PTL DEF Spec

\* What such a client was told of the end of its order stays so: no call works
\* on an order that ended (provision).
THEOREM EndsStay == OneCall => (Spec => EndIsFinal)
<1> SUFFICES ASSUME OneCall PROVE Spec => EndIsFinal
  OBVIOUS
<1> DEFINE Stays == \A o \in Orders :
              state[o] \in {"channel_active", "failed"} => state'[o] = state[o]
<1>1. ASSUME TypeOK, SingleInv, [Next]_vars PROVE [Stays]_vars
  <2> SUFFICES ASSUME NEW q \in Orders, state[q] \in {"channel_active", "failed"}
               PROVE  state'[q] = state[q]
    OBVIOUS
  <2>1. \A h \in Handlers : pc[q][h] \notin
            {"verified", "open", "await", "opened", "timedOut", "thrown"}
    BY <1>1 DEF SingleInv, Single, Fits
  <2>2. ASSUME NEW o \in Orders, NEW h \in Handlers,
               Provision(o, h) \/ ProvisionEnds(o, h)
        PROVE  state'[q] = state[q]
    <3>1. o # q
      BY <2>1, <2>2 DEF Provision, ProvisionEnds
    <3> QED
      BY <1>1, <2>2, <3>1 DEF Provision, ProvisionEnds, Become, TypeOK
  <2> QED
    BY <1>1, <2>2 DEF Next, Step, SettleFee, Verify, Unverified, OpenChannel,
       AwaitChannel, PayFee, ChannelReady, Lapse, Crash, vars, nodes
<1>2. TypeOK /\ SingleInv /\ [Next]_vars => SingleInv'
  BY SingleStep
<1>3. PrepaidInv => TypeOK
  BY DEF PrepaidInv
<1>4. TypeOK /\ SingleInv /\ [Next]_vars => [Stays]_vars
  BY <1>1
<1> QED
  BY <1>2, <1>3, <1>4, SingleInit, PrepaidInductive, PTL DEF Spec, EndIsFinal

=============================================================================
