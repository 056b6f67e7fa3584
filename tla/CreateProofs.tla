---------------------------- MODULE CreateProofs ----------------------------
(***************************************************************************)
(* The theorems about what a merchant asks of the LSP, for every number of *)
(* merchants, requests, checkouts and openers: only its session moves a    *)
(* merchant's orders and quota; two orders under way never promise the same*)
(* invoice or hold, and every order stored can be carried through in time; *)
(* and each opener that holds openLock finds the channel it opened itself. *)
(***************************************************************************)
EXTENDS MerchantAuth, JitCreate, OpenChannel, SequenceTheorems, FiniteSetTheorems, TLAPS

-----------------------------------------------------------------------------
(* Sessions and quotas                                                      *)

\* A challenge is worth one token, only the merchant of a token orders with it, a
\* policy the admin was told is stored survives a restart, and a merchant whose
\* creates never overlapped has no more channels than its tokens allow.  The
\* first needs to know where a challenge can be: not yet drawn, in the store, or
\* consumed by exactly one request, which either still waits to be given its
\* token or was given it.

\* A challenge is drawn once, stands once in the store, and is consumed once,
\* after which it is not in the store.
Spent ==
    /\ \A u \in consumed : u.challenge \in drawn
    /\ \A e \in entries : e.challenge \in drawn
    /\ \A e, f \in entries : e.challenge = f.challenge => e = f
    /\ \A e \in entries, u \in consumed : u.challenge # e.challenge
    /\ \A u, v \in consumed : u.challenge = v.challenge => u = v

\* What a request under way carries.
Carried(r) ==
    /\ reqAt[r] \in {"parsing", "verified"} =>
          req[r].invoice \in signed /\ req[r].key \in Merchants
    /\ reqAt[r] = "verified" =>
          /\ req[r].invoice.payee = req[r].key
          /\ \E u \in consumed : u.challenge = req[r].invoice.challenge
                                 /\ u.key = req[r].key
          /\ \A t \in tokens : t.challenge # req[r].invoice.challenge
    /\ reqAt[r] \in {"asked", "permitted", "opening"} => req[r].token \in tokens
    /\ reqAt[r] \in {"permitted", "opening"} => req[r].token.create

\* Two requests never wait for a token for one challenge.
OneWaits ==
    \A r, q \in Reqs :
        /\ reqAt[r] = "verified" /\ reqAt[q] = "verified"
        /\ req[r].invoice.challenge = req[q].invoice.challenge
        => r = q

\* The file is never ahead of the memory, nor the admin's answers of the file.
Stored ==
    /\ file \in [Merchants -> Policies \cup {NoPolicy}]
    /\ acked \in [Merchants -> Nat]
    /\ \A m \in Merchants : acked[m] <= file[m].version
                            /\ file[m].version <= policies[m].version

Shape == AuthTypeOK /\ clock \in Nat /\ req = [r \in Reqs |-> req[r]]

AuthInv ==
    /\ Shape
    /\ Spent
    /\ \A r \in Reqs : Carried(r)
    /\ OneWaits
    /\ OneTokenPerChallenge
    /\ OwnOrdersOnly
    /\ Stored

-----------------------------------------------------------------------------

\* Nothing is drawn, asked or stored at the start.
LEMMA AuthInvInit == AuthInit => AuthInv
<1> SUFFICES ASSUME AuthInit PROVE AuthInv
  OBVIOUS
<1> USE AuthAssumption DEF AuthInit
<1>1. Shape
  BY DEF Shape, AuthTypeOK
<1>2. Spent /\ OneTokenPerChallenge /\ OwnOrdersOnly /\ OneWaits
  BY DEF Spent, OneTokenPerChallenge, OwnOrdersOnly, OneWaits
<1>3. \A r \in Reqs : Carried(r)
  BY DEF Carried
<1>4. Stored
  BY DEF Stored, NoPolicy
<1> QED
  BY <1>1, <1>2, <1>3, <1>4 DEF AuthInv

\* The request that is answered is idle, the others stay where they are.
LEMMA DoneRight ==
    ASSUME NEW r \in Reqs, Shape, Done(r)
    PROVE  /\ reqAt' \in [Reqs -> {"idle", "parsing", "verified", "asked",
                                    "permitted", "opening"}]
           /\ req' = [q \in Reqs |-> req'[q]]
           /\ reqAt'[r] = "idle"
           /\ \A q \in Reqs \ {r} : reqAt'[q] = reqAt[q] /\ req'[q] = req[q]
BY DEF Done, Shape, AuthTypeOK

\* Each step of a merchant, a request, the admin or the server keeps it.
LEMMA AuthInvStep == AuthInv /\ [AuthNext]_authVars => AuthInv'
<1> SUFFICES ASSUME AuthInv, [AuthNext]_authVars PROVE AuthInv'
  OBVIOUS
<1> USE AuthAssumption DEF AuthInv
<1>1. ASSUME NEW m \in Merchants, PutPolicy(m) PROVE AuthInv'
  <2>1. Shape' /\ Stored'
    BY <1>1 DEF PutPolicy, NoAck, Shape, AuthTypeOK, Stored, Policies, NoPolicy
  <2>2. UNCHANGED <<drawn, consumed, entries, signed, tokens, orders, reqAt, req>>
    BY <1>1 DEF PutPolicy
  <2> QED
    BY <2>1, <2>2 DEF Spent, Carried, OneWaits, OneTokenPerChallenge, OwnOrdersOnly
<1>2. ASSUME NEW m \in Merchants, Flush(m) PROVE AuthInv'
  <2>1. Shape' /\ Stored'
    BY <1>2 DEF Flush, Shape, AuthTypeOK, Stored, Policies, NoPolicy
  <2>2. UNCHANGED <<drawn, consumed, entries, signed, tokens, orders, reqAt, req>>
    BY <1>2 DEF Flush
  <2> QED
    BY <2>1, <2>2 DEF Spent, Carried, OneWaits, OneTokenPerChallenge, OwnOrdersOnly
<1>3. ASSUME NEW m \in Merchants, NEW c \in Challenges, IssueChallenge(m, c)
      PROVE AuthInv'
  <2>1. Shape' /\ Stored'
    BY <1>3 DEF IssueChallenge, Shape, AuthTypeOK, Stored
  <2>2. Spent'
    BY <1>3 DEF IssueChallenge, Spent
  <2>3. UNCHANGED <<consumed, signed, tokens, orders, reqAt, req>>
    BY <1>3 DEF IssueChallenge
  <2> QED
    BY <2>1, <2>2, <2>3 DEF Carried, OneWaits, OneTokenPerChallenge, OwnOrdersOnly
<1>4. ASSUME NEW m \in Merchants, NEW c \in Challenges, Sign(m, c)
      PROVE AuthInv'
  <2>1. Shape' /\ Stored'
    BY <1>4 DEF Sign, Shape, AuthTypeOK, Stored
  <2>2. /\ signed \subseteq signed'
        /\ UNCHANGED <<drawn, consumed, entries, tokens, orders, reqAt, req>>
    BY <1>4 DEF Sign
  <2> QED
    BY <2>1, <2>2 DEF Spent, Carried, OneWaits, OneTokenPerChallenge, OwnOrdersOnly
<1>5. ASSUME NEW r \in Reqs, PostToken(r) PROVE AuthInv'
  <2>1. PICK i \in signed, m \in Merchants :
           req' = [req EXCEPT ![r] = [kind |-> "token", invoice |-> i, key |-> m]]
    BY <1>5 DEF PostToken
  <2>2. Shape' /\ Stored'
    BY <1>5, <2>1 DEF PostToken, Shape, AuthTypeOK, Stored
  <2>3. /\ UNCHANGED <<drawn, consumed, entries, signed, tokens, orders>>
        /\ reqAt'[r] = "parsing" /\ req'[r].invoice \in signed
        /\ req'[r].key \in Merchants
        /\ \A q \in Reqs \ {r} : reqAt'[q] = reqAt[q] /\ req'[q] = req[q]
    BY <1>5, <2>1 DEF PostToken, Shape, AuthTypeOK
  <2> QED
    BY <2>2, <2>3 DEF Spent, Carried, OneWaits, OneTokenPerChallenge, OwnOrdersOnly
<1>6. ASSUME NEW r \in Reqs, Readable(r) PROVE AuthInv'
  <2> USE <1>6 DEF Readable
  <2>1. CASE Done(r) /\ UNCHANGED consumed /\ entries' \subseteq entries
    <3>1. Shape' /\ Stored'
      BY <2>1, DoneRight DEF Shape, AuthTypeOK, Stored
    <3>2. UNCHANGED <<drawn, signed, tokens, orders>>
      OBVIOUS
    <3> QED
      BY <2>1, <3>1, <3>2, DoneRight
         DEF Spent, Carried, OneWaits, OneTokenPerChallenge, OwnOrdersOnly
  <2>2. ASSUME NEW e \in entries, e.challenge = req[r].invoice.challenge,
               e.key = req[r].key, req[r].invoice.payee = req[r].key,
               entries' = entries \ {e},
               consumed' = consumed \cup
                  {[challenge |-> e.challenge, key |-> e.key, by |-> r, time |-> clock]},
               reqAt' = [reqAt EXCEPT ![r] = "verified"], UNCHANGED req
        PROVE AuthInv'
    <3>1. Shape' /\ Stored'
      BY <2>2 DEF Shape, AuthTypeOK, Stored
    <3>2. /\ UNCHANGED <<drawn, signed, tokens, orders, req>>
          /\ reqAt'[r] = "verified" /\ reqAt[r] = "parsing"
          /\ \A q \in Reqs \ {r} : reqAt'[q] = reqAt[q]
      BY <2>2 DEF Shape, AuthTypeOK
    <3>3. Spent'
      BY <2>2, <3>2 DEF Spent
    <3>4. \A u \in consumed : u.challenge # e.challenge
      BY <2>2 DEF Spent
    <3>5. \A t \in tokens : t.challenge # e.challenge
      BY <3>4 DEF OneTokenPerChallenge
    <3>6. Carried(r)'
      <4>1. \E u \in consumed' : u.challenge = req[r].invoice.challenge
                                /\ u.key = req[r].key
        <5> DEFINE v == [challenge |-> e.challenge, key |-> e.key, by |-> r,
                         time |-> clock]
        <5>1. v \in consumed'
          BY <2>2
        <5>2. v.challenge = req[r].invoice.challenge /\ v.key = req[r].key
          BY <2>2
        <5> QED
          BY <5>1, <5>2
      <4>2. req[r].invoice \in signed /\ req[r].key \in Merchants
        BY <3>2 DEF Carried
      <4> QED
        BY <2>2, <3>2, <3>5, <4>1, <4>2 DEF Carried
    <3>7. \A q \in Reqs \ {r} : Carried(q)'
      BY <2>2, <3>2 DEF Carried
    <3>8. OneWaits'
      BY <2>2, <3>2, <3>4 DEF OneWaits, Carried
    <3>9. OneTokenPerChallenge' /\ OwnOrdersOnly'
      BY <2>2, <3>2, <3>3 DEF OneTokenPerChallenge, OwnOrdersOnly, Spent
    <3> QED
      BY <3>1, <3>3, <3>6, <3>7, <3>8, <3>9
  <2> QED
    BY <2>1, <2>2 DEF Consume, Drop
<1>7. ASSUME NEW r \in Reqs, IssueToken(r) PROVE AuthInv'
  <2> DEFINE p == policies[req[r].key]
             token == [key |-> req[r].key, create |-> p.create, max |-> p.max,
                       challenge |-> req[r].invoice.challenge]
  <2>1. /\ Done(r) /\ reqAt[r] = "verified"
        /\ UNCHANGED <<drawn, consumed, entries, signed, orders, clock, policies,
                       file, acked>>
        /\ tokens' = IF p = NoPolicy THEN tokens ELSE tokens \cup {token}
    BY <1>7 DEF IssueToken
  <2>2. Carried(r)
    OBVIOUS
  <2>3. /\ reqAt'[r] = "idle"
        /\ \A q \in Reqs \ {r} : reqAt'[q] = reqAt[q] /\ req'[q] = req[q]
    BY <2>1, DoneRight
  <2>4. p \in Policies \cup {NoPolicy} /\ req[r].invoice.challenge \in Challenges
    BY <2>1, <2>2 DEF Carried, Shape, AuthTypeOK
  <2>5. Shape' /\ Stored'
    BY <2>1, <2>2, <2>4, DoneRight DEF Shape, AuthTypeOK, Stored, Carried, Policies
  <2>6. \A q \in Reqs : Carried(q)'
    BY <2>1, <2>3 DEF Carried, OneWaits
  <2>7. OneTokenPerChallenge'
    BY <2>1, <2>2 DEF OneTokenPerChallenge, Carried
  <2> QED
    BY <2>1, <2>3, <2>5, <2>6, <2>7 DEF Spent, OneWaits, OwnOrdersOnly
<1>8. ASSUME NEW r \in Reqs, PostCreate(r) PROVE AuthInv'
  <2>1. PICK t \in tokens, m \in Merchants :
           req' = [req EXCEPT ![r] = [kind |-> "create", token |-> t, target |-> m]]
    BY <1>8 DEF PostCreate
  <2>2. Shape' /\ Stored'
    BY <1>8, <2>1 DEF PostCreate, Shape, AuthTypeOK, Stored
  <2>3. /\ UNCHANGED <<drawn, consumed, entries, signed, tokens, orders>>
        /\ reqAt'[r] = "asked" /\ req'[r].token \in tokens
        /\ \A q \in Reqs \ {r} : reqAt'[q] = reqAt[q] /\ req'[q] = req[q]
    BY <1>8, <2>1 DEF PostCreate, Shape, AuthTypeOK
  <2> QED
    BY <2>2, <2>3 DEF Spent, Carried, OneWaits, OneTokenPerChallenge, OwnOrdersOnly
<1>9. ASSUME NEW r \in Reqs, Permit(r) PROVE AuthInv'
  <2>1. /\ reqAt[r] = "asked"
        /\ UNCHANGED <<drawn, consumed, entries, signed, tokens, orders, clock,
                       policies, file, acked>>
    BY <1>9 DEF Permit
  <2>2. CASE Done(r)
    <3>1. Shape' /\ Stored'
      BY <2>1, <2>2, DoneRight DEF Shape, AuthTypeOK, Stored
    <3> QED
      BY <2>1, <2>2, <3>1, DoneRight
         DEF Spent, Carried, OneWaits, OneTokenPerChallenge, OwnOrdersOnly
  <2>3. CASE /\ req[r].token.create /\ UNCHANGED req
             /\ reqAt' = [reqAt EXCEPT ![r] = "permitted"]
    <3>1. Shape' /\ Stored'
      BY <2>1, <2>3 DEF Shape, AuthTypeOK, Stored
    <3>2. /\ reqAt'[r] = "permitted"
          /\ \A q \in Reqs \ {r} : reqAt'[q] = reqAt[q]
      BY <2>3 DEF Shape, AuthTypeOK
    <3> QED
      BY <2>1, <2>3, <3>1, <3>2
         DEF Spent, Carried, OneWaits, OneTokenPerChallenge, OwnOrdersOnly
  <2> QED
    BY <1>9, <2>2, <2>3 DEF Permit
<1>10. ASSUME NEW r \in Reqs, Scope(r) PROVE AuthInv'
  <2>1. /\ reqAt[r] = "permitted"
        /\ UNCHANGED <<drawn, consumed, entries, signed, tokens, clock,
                       policies, file, acked>>
    BY <1>10 DEF Scope
  <2>2. CASE Done(r) /\ UNCHANGED orders
    <3>1. Shape' /\ Stored'
      BY <2>1, <2>2, DoneRight DEF Shape, AuthTypeOK, Stored
    <3> QED
      BY <2>1, <2>2, <3>1, DoneRight
         DEF Spent, Carried, OneWaits, OneTokenPerChallenge, OwnOrdersOnly
  <2>3. CASE /\ req[r].token.key = req[r].target /\ UNCHANGED req
             /\ reqAt' = [reqAt EXCEPT ![r] = "opening"]
             /\ orders' = orders \cup
                   {[token |-> req[r].token, target |-> req[r].target]}
    <3>1. Shape' /\ Stored'
      BY <2>1, <2>3 DEF Shape, AuthTypeOK, Stored
    <3>2. /\ reqAt'[r] = "opening"
          /\ \A q \in Reqs \ {r} : reqAt'[q] = reqAt[q]
      BY <2>3 DEF Shape, AuthTypeOK
    <3>3. OwnOrdersOnly'
      BY <2>1, <2>3 DEF OwnOrdersOnly, Carried
    <3> QED
      BY <2>1, <2>3, <3>1, <3>2, <3>3 DEF Spent, Carried, OneWaits, OneTokenPerChallenge
  <2> QED
    BY <1>10, <2>2, <2>3 DEF Scope, InScope
<1>11. ASSUME NEW r \in Reqs, Provisioned(r) PROVE AuthInv'
  <2>1. /\ Done(r)
        /\ UNCHANGED <<drawn, consumed, entries, signed, tokens, orders, clock,
                       policies, file, acked>>
    BY <1>11 DEF Provisioned
  <2>2. Shape' /\ Stored'
    BY <2>1, DoneRight DEF Shape, AuthTypeOK, Stored
  <2> QED
    BY <2>1, <2>2, DoneRight
       DEF Spent, Carried, OneWaits, OneTokenPerChallenge, OwnOrdersOnly
<1>12. ASSUME Restart PROVE AuthInv'
  <2>1. /\ UNCHANGED <<drawn, consumed, signed, tokens, orders, clock, file, acked>>
        /\ policies' = file /\ entries' = {}
        /\ \A r \in Reqs : \/ reqAt'[r] = "idle"
                           \/ /\ reqAt'[r] = "opening" /\ reqAt[r] = "opening"
                              /\ req'[r] = req[r]
    BY <1>12 DEF Restart
  <2>2. Shape' /\ Stored'
    BY <1>12, <2>1 DEF Restart, Shape, AuthTypeOK, Stored, Policies, NoPolicy
  <2> QED
    BY <2>1, <2>2 DEF Spent, Carried, OneWaits, OneTokenPerChallenge, OwnOrdersOnly
<1>13. ASSUME Through PROVE AuthInv'
  <2>1. Shape' /\ Stored'
    BY <1>13 DEF Through, Shape, AuthTypeOK, Stored
  <2>2. UNCHANGED <<drawn, consumed, entries, signed, tokens, orders, reqAt, req>>
    BY <1>13 DEF Through
  <2> QED
    BY <2>1, <2>2 DEF Spent, Carried, OneWaits, OneTokenPerChallenge, OwnOrdersOnly
<1>14. ASSUME UNCHANGED authVars PROVE AuthInv'
  BY <1>14 DEF authVars, Shape, AuthTypeOK, Stored, Spent, Carried, OneWaits,
               OneTokenPerChallenge, OwnOrdersOnly
<1> QED
  BY <1>1, <1>2, <1>3, <1>4, <1>5, <1>6, <1>7, <1>8, <1>9, <1>10, <1>11, <1>12,
     <1>13, <1>14 DEF AuthNext

\* The invariant holds for ever.
THEOREM AuthInductive == AuthSpec => []AuthInv
  BY AuthInvInit, AuthInvStep, PTL DEF AuthSpec

\* The parts of the middleware keep their types (the stores of packages/auth).
THEOREM AuthTypeCorrect == AuthSpec => []AuthTypeOK
<1>1. AuthInv => AuthTypeOK
  BY DEF AuthInv, Shape
<1> QED
  BY <1>1, AuthInductive, PTL

\* A challenge is worth one token, for the merchant whose node signed it,
\* however many requests present its invoice (consume).
THEOREM OneTokenEach == AuthSpec => []OneTokenPerChallenge
<1>1. AuthInv => OneTokenPerChallenge
  BY DEF AuthInv
<1> QED
  BY <1>1, AuthInductive, PTL

\* Only the merchant of a token that may create orders has orders created with
\* it (the middleware's two authorizations).
THEOREM OrdersAreOwn == AuthSpec => []OwnOrdersOnly
<1>1. AuthInv => OwnOrdersOnly
  BY DEF AuthInv
<1> QED
  BY <1>1, AuthInductive, PTL

\* What the admin was told is stored is on file over any number of restarts
\* (FileMerchantPolicyStore writes before the answer).
THEOREM AnsweredPoliciesStay == AuthSpec => []AckedPolicyKept
<1>1. AuthInv => AckedPolicyKept
  BY DEF AuthInv, Stored, AckedPolicyKept
<1> QED
  BY <1>1, AuthInductive, PTL

-----------------------------------------------------------------------------
(* The quota.  A merchant that never had two creates between check and open *)
(* has at most one request opening, whose token still has room: so what the *)
(* check read is still true when the channel comes.                         *)

\* A create under way is for a merchant; every merchant has a count.
Targeted ==
    /\ channels \in [Merchants -> Nat]
    /\ \A r \in Reqs : reqAt[r] \in {"asked", "permitted", "opening"}
                       => req[r].target \in Merchants

\* The channels a merchant has are within a token of its own.
Within(m) == channels[m] = 0 \/ \E t \in tokens : t.key = m /\ channels[m] <= t.max

\* A request that opens and did not overlap another has room for its channel.
HasRoom ==
    \A r \in Reqs :
        reqAt[r] = "opening" /\ req[r].target \notin raced =>
            /\ req[r].token.key = req[r].target
            /\ channels[req[r].target] < req[r].token.max

\* It is the only one that opens for its merchant.
OneOpens ==
    \A r, q \in Reqs :
        /\ reqAt[r] = "opening" /\ reqAt[q] = "opening"
        /\ req[r].target = req[q].target /\ req[r].target \notin raced
        => r = q

QuotaInv ==
    /\ Targeted
    /\ \A m \in Merchants \ raced : Within(m)
    /\ HasRoom
    /\ OneOpens

\* Steps that open nothing and create no channel keep it: requests go, are
\* asked for a merchant, or wait on; tokens are added.
LEMMA QuotaFrame ==
    ASSUME QuotaInv, UNCHANGED <<channels, raced>>, tokens \subseteq tokens',
           \A q \in Reqs :
              \/ reqAt'[q] \notin {"asked", "permitted", "opening"}
              \/ /\ reqAt'[q] \in {"asked", "permitted"}
                 /\ req'[q].target \in Merchants
              \/ /\ reqAt'[q] = "opening" /\ reqAt[q] = "opening"
                 /\ req'[q] = req[q]
    PROVE  QuotaInv'
<1>1. Targeted'
  BY DEF QuotaInv, Targeted
<1>2. \A m \in Merchants \ raced' : Within(m)'
  BY DEF QuotaInv, Within
<1>3. \A q \in Reqs : reqAt'[q] = "opening" => reqAt[q] = "opening" /\ req'[q] = req[q]
  OBVIOUS
<1>4. HasRoom'
  BY <1>3 DEF QuotaInv, HasRoom
<1>5. OneOpens'
  BY <1>3 DEF QuotaInv, OneOpens
<1> QED
  BY <1>1, <1>2, <1>4, <1>5 DEF QuotaInv

\* No channel is open and none is asked for at the start.
LEMMA QuotaInit == AuthInit => QuotaInv
BY DEF AuthInit, QuotaInv, Targeted, Within, HasRoom, OneOpens

\* The check before the core is called (Scope) makes room or marks the merchant
\* as raced; the channel that comes (Provisioned) takes it.
LEMMA QuotaStep == AuthInv /\ QuotaInv /\ [AuthNext]_authVars => QuotaInv'
<1> SUFFICES ASSUME AuthInv, QuotaInv, [AuthNext]_authVars PROVE QuotaInv'
  OBVIOUS
<1>1. Shape
  BY DEF AuthInv
<1>2. \A q \in Reqs : reqAt[q] \in {"asked", "permitted"} => req[q].target \in Merchants
  BY DEF QuotaInv, Targeted
<1>3. ASSUME UNCHANGED <<channels, raced>>, tokens \subseteq tokens',
             NEW r \in Reqs, \A q \in Reqs \ {r} : reqAt'[q] = reqAt[q] /\ req'[q] = req[q],
             \/ reqAt'[r] \in {"idle", "parsing", "verified"}
             \/ reqAt'[r] \in {"asked", "permitted"} /\ req'[r].target \in Merchants
      PROVE  QuotaInv'
  <2>1. \A q \in Reqs :
           \/ reqAt'[q] \notin {"asked", "permitted", "opening"}
           \/ reqAt'[q] \in {"asked", "permitted"} /\ req'[q].target \in Merchants
           \/ reqAt'[q] = "opening" /\ reqAt[q] = "opening" /\ req'[q] = req[q]
    BY <1>2, <1>3
  <2> QED
    BY <1>3, <2>1, QuotaFrame
<1>4. ASSUME UNCHANGED <<channels, raced, tokens, reqAt, req>> PROVE QuotaInv'
  <2>1. \A q \in Reqs :
           \/ reqAt'[q] \notin {"asked", "permitted", "opening"}
           \/ reqAt'[q] \in {"asked", "permitted"} /\ req'[q].target \in Merchants
           \/ reqAt'[q] = "opening" /\ reqAt[q] = "opening" /\ req'[q] = req[q]
    BY <1>2, <1>4
  <2> QED
    BY <1>4, <2>1, QuotaFrame
<1>5. ASSUME NEW r \in Reqs, Done(r), UNCHANGED <<channels, raced>>,
             tokens \subseteq tokens'
      PROVE  QuotaInv'
  BY <1>1, <1>3, <1>5, DoneRight
<1>6. ASSUME NEW m \in Merchants, NEW c \in Challenges,
             PutPolicy(m) \/ Flush(m) \/ IssueChallenge(m, c) \/ Sign(m, c)
      PROVE  QuotaInv'
  BY <1>4, <1>6 DEF PutPolicy, Flush, IssueChallenge, Sign
<1>7. ASSUME NEW m \in Merchants, PutPolicy(m) \/ Flush(m) PROVE QuotaInv'
  BY <1>4, <1>7 DEF PutPolicy, Flush
<1>8. ASSUME NEW r \in Reqs, PostToken(r) PROVE QuotaInv'
  <2>1. PICK i \in signed, m \in Merchants :
           req' = [req EXCEPT ![r] = [kind |-> "token", invoice |-> i, key |-> m]]
    BY <1>8 DEF PostToken
  <2>2. /\ UNCHANGED <<channels, raced, tokens>> /\ reqAt'[r] = "parsing"
        /\ \A q \in Reqs \ {r} : reqAt'[q] = reqAt[q] /\ req'[q] = req[q]
    BY <1>1, <1>8, <2>1 DEF PostToken, Shape, AuthTypeOK
  <2> QED
    BY <1>3, <2>2
<1>9. ASSUME NEW r \in Reqs, Readable(r) PROVE QuotaInv'
  <2>1. UNCHANGED <<channels, raced, tokens>>
    BY <1>9 DEF Readable
  <2>2. Done(r) \/ (reqAt' = [reqAt EXCEPT ![r] = "verified"] /\ UNCHANGED req)
    BY <1>9 DEF Readable, Consume
  <2>3. ASSUME reqAt' = [reqAt EXCEPT ![r] = "verified"], UNCHANGED req
        PROVE  QuotaInv'
    <3>1. /\ reqAt'[r] = "verified"
          /\ \A q \in Reqs \ {r} : reqAt'[q] = reqAt[q] /\ req'[q] = req[q]
      BY <1>1, <2>3 DEF Shape, AuthTypeOK
    <3> QED
      BY <1>3, <2>1, <3>1
  <2> QED
    BY <1>5, <2>1, <2>2, <2>3
<1>10. ASSUME NEW r \in Reqs, IssueToken(r) PROVE QuotaInv'
  <2>1. Done(r) /\ UNCHANGED <<channels, raced>> /\ tokens \subseteq tokens'
    BY <1>10 DEF IssueToken
  <2> QED
    BY <1>5, <2>1
<1>11. ASSUME NEW r \in Reqs, PostCreate(r) PROVE QuotaInv'
  <2>1. PICK t \in tokens, m \in Merchants :
           req' = [req EXCEPT ![r] = [kind |-> "create", token |-> t, target |-> m]]
    BY <1>11 DEF PostCreate
  <2>2. /\ UNCHANGED <<channels, raced, tokens>>
        /\ reqAt'[r] = "asked" /\ req'[r].target \in Merchants
        /\ \A q \in Reqs \ {r} : reqAt'[q] = reqAt[q] /\ req'[q] = req[q]
    BY <1>1, <1>11, <2>1 DEF PostCreate, Shape, AuthTypeOK
  <2> QED
    BY <1>3, <2>2
<1>12. ASSUME NEW r \in Reqs, Permit(r) PROVE QuotaInv'
  <2>1. UNCHANGED <<channels, raced, tokens>> /\ reqAt[r] = "asked"
    BY <1>12 DEF Permit
  <2>2. Done(r) \/ (reqAt' = [reqAt EXCEPT ![r] = "permitted"] /\ UNCHANGED req)
    BY <1>12 DEF Permit
  <2>3. ASSUME reqAt' = [reqAt EXCEPT ![r] = "permitted"], UNCHANGED req
        PROVE  QuotaInv'
    <3>1. /\ reqAt'[r] = "permitted" /\ req'[r].target \in Merchants
          /\ \A q \in Reqs \ {r} : reqAt'[q] = reqAt[q] /\ req'[q] = req[q]
      BY <1>1, <1>2, <2>1, <2>3 DEF Shape, AuthTypeOK
    <3> QED
      BY <1>3, <2>1, <3>1
  <2> QED
    BY <1>5, <2>1, <2>2, <2>3
<1>13. ASSUME NEW r \in Reqs, Scope(r) PROVE QuotaInv'
  <2>1. UNCHANGED <<channels, tokens>> /\ reqAt[r] = "permitted"
    BY <1>13 DEF Scope
  <2>2. \/ Done(r) /\ UNCHANGED raced
        \/ /\ req[r].token.key = req[r].target
           /\ channels[req[r].token.key] < req[r].token.max
           /\ reqAt' = [reqAt EXCEPT ![r] = "opening"] /\ UNCHANGED req
           /\ raced' = raced \cup
                 {m \in {req[r].target} : \E q \in Reqs \ {r} :
                     reqAt[q] = "opening" /\ req[q].target = m}
    BY <1>13 DEF Scope, InScope, WithinQuota
  <2>3. ASSUME req[r].token.key = req[r].target,
               channels[req[r].token.key] < req[r].token.max,
               reqAt' = [reqAt EXCEPT ![r] = "opening"], UNCHANGED req,
               raced' = raced \cup
                 {m \in {req[r].target} : \E q \in Reqs \ {r} :
                     reqAt[q] = "opening" /\ req[q].target = m}
        PROVE  QuotaInv'
    <3>1. /\ reqAt'[r] = "opening" /\ req' = req /\ raced \subseteq raced'
          /\ \A q \in Reqs \ {r} : reqAt'[q] = reqAt[q]
      BY <1>1, <2>3 DEF Shape, AuthTypeOK
    <3>2. \A q \in Reqs \ {r} :
             reqAt[q] = "opening" /\ req[q].target = req[r].target
             => req[r].target \in raced'
      BY <2>3
    <3>3. Targeted'
      BY <1>2, <2>1, <3>1 DEF QuotaInv, Targeted
    <3>4. \A m \in Merchants \ raced' : Within(m)'
      BY <2>1, <3>1 DEF QuotaInv, Within
    <3>5. HasRoom'
      BY <2>1, <2>3, <3>1 DEF QuotaInv, HasRoom
    <3>6. OneOpens'
      BY <3>1, <3>2 DEF QuotaInv, OneOpens
    <3> QED
      BY <3>3, <3>4, <3>5, <3>6 DEF QuotaInv
  <2> QED
    BY <1>5, <2>1, <2>2, <2>3
<1>14. ASSUME NEW r \in Reqs, Provisioned(r) PROVE QuotaInv'
  <2> DEFINE m == req[r].target
  <2>1. Done(r) /\ UNCHANGED <<raced, tokens>> /\ reqAt[r] = "opening"
    BY <1>14 DEF Provisioned
  <2>2. /\ reqAt'[r] = "idle"
        /\ \A q \in Reqs \ {r} : reqAt'[q] = reqAt[q] /\ req'[q] = req[q]
    BY <1>1, <2>1, DoneRight
  <2>3. ASSUME channels' = [channels EXCEPT ![m] = @ + 1] PROVE QuotaInv'
    <3>1. m \in Merchants /\ channels \in [Merchants -> Nat]
      BY <2>1 DEF QuotaInv, Targeted
    <3>2. /\ channels' \in [Merchants -> Nat] /\ channels'[m] = channels[m] + 1
          /\ \A k \in Merchants \ {m} : channels'[k] = channels[k]
      BY <2>3, <3>1
    <3>3. Targeted'
      BY <2>2, <3>2 DEF QuotaInv, Targeted
    <3>4. req[r].token \in tokens /\ req[r].token.max \in Nat
      BY <2>1, AuthAssumption DEF AuthInv, Carried, Shape, AuthTypeOK
    <3>5. m \notin raced =>
             \E t \in tokens' : t.key = m /\ channels'[m] <= t.max
      <4>1. m \notin raced =>
               req[r].token.key = m /\ channels[m] < req[r].token.max
        BY <2>1 DEF QuotaInv, HasRoom
      <4>2. m \notin raced =>
               req[r].token.key = m /\ channels'[m] <= req[r].token.max
        BY <3>1, <3>2, <3>4, <4>1
      <4> QED
        BY <2>1, <3>4, <4>2
    <3>6. ASSUME NEW k \in Merchants \ raced' PROVE Within(k)'
      <4>1. CASE k = m
        BY <2>1, <3>5, <4>1 DEF Within
      <4>2. CASE k # m
        <5>1. Within(k) /\ channels'[k] = channels[k]
          BY <2>1, <3>2, <4>2 DEF QuotaInv
        <5> QED
          BY <2>1, <5>1 DEF Within
      <4> QED
        BY <4>1, <4>2
    <3>7. \A q \in Reqs \ {r} :
             reqAt[q] = "opening" /\ req[q].target \notin raced
             => req[q].target # m /\ req[q].target \in Merchants
      BY <2>1 DEF QuotaInv, OneOpens, Targeted
    <3>8. HasRoom'
      BY <2>1, <2>2, <3>2, <3>7 DEF QuotaInv, HasRoom
    <3>9. OneOpens'
      BY <2>1, <2>2 DEF QuotaInv, OneOpens
    <3> QED
      BY <3>3, <3>6, <3>8, <3>9 DEF QuotaInv
  <2>4. CASE UNCHANGED channels
    BY <1>5, <2>1, <2>4
  <2> QED
    BY <1>14, <2>3, <2>4 DEF Provisioned
<1>15. ASSUME Restart PROVE QuotaInv'
  <2>1. /\ UNCHANGED <<channels, raced, tokens>>
        /\ \A q \in Reqs :
              \/ reqAt'[q] \notin {"asked", "permitted", "opening"}
              \/ reqAt'[q] = "opening" /\ reqAt[q] = "opening" /\ req'[q] = req[q]
    BY <1>15 DEF Restart
  <2> QED
    BY <2>1, QuotaFrame
<1>16. ASSUME Through PROVE QuotaInv'
  BY <1>4, <1>16 DEF Through
<1>17. ASSUME UNCHANGED authVars PROVE QuotaInv'
  BY <1>4, <1>17 DEF authVars
<1> QED
  BY <1>6, <1>7, <1>8, <1>9, <1>10, <1>11, <1>12, <1>13, <1>14, <1>15, <1>16,
     <1>17 DEF AuthNext

\* A merchant whose creates never overlapped has no more channels than a token
\* of its own allows, over restarts and changes of its policy (the middleware's
\* two quota checks).
THEOREM QuotaStays == AuthSpec => []QuotaKept
<1>1. QuotaInv => QuotaKept
  BY DEF QuotaInv, Within, QuotaKept
<1> QED
  BY <1>1, QuotaInit, QuotaStep, AuthInductive, PTL DEF AuthSpec

-----------------------------------------------------------------------------
(* The creation of an order                                                 *)

\* For all terms, windows and amounts, and any number of restarts.  That no two
\* orders clash rests on createLock: between the check for duplicates and the
\* write, no other creation for the merchant's hash is past its place in line.
\* That an order can be carried through follows the window from its grant to
\* the store.

\* Past the lock's entry; and in the lock, entered or not.
Busy == {"admitted", "parsing", "issuing", "issued"}
InLock == {"waiting"} \cup Busy

Functions4 ==
    /\ createAt = [c \in Creations |-> createAt[c]]
    /\ body = [c \in Creations |-> body[c]]
    /\ grant = [c \in Creations |-> grant[c]]
    /\ store = [c \in Creations |-> store[c]]
    /\ now \in Nat

\* The line holds the creations in the lock, each once, and one past the entry
\* has none of its merchant hash before it.
Queued ==
    /\ line \in Seq(Creations)
    /\ \A i, j \in 1 .. Len(line) : line[i] = line[j] => i = j
    /\ \A c \in Creations :
          createAt[c] \in InLock <=> \E i \in 1 .. Len(line) : line[i] = c
    /\ \A i, j \in 1 .. Len(line) :
          j < i /\ createAt[line[i]] \in Busy
          => body[line[j]].merchant # body[line[i]].merchant

Amounting(b) == b.gross \in Nat /\ b.ask \in Nat /\ b.size \in Nat /\ b.until \in Nat

\* What the entry checks say of the two hashes.
Linked(b) ==
    /\ b.mode \in {"linked", "same_hash"}
    /\ b.mode = "linked" =>
          \E s \in Secrets : b.hold = Derived(s) /\ b.merchant = Plain(s)
    /\ b.mode = "same_hash" => b.hold = b.merchant

Granted(c) ==
    /\ grant[c].at \in Nat /\ grant[c].window \in Nat
    /\ MinExpiry <= grant[c].window
    /\ grant[c].at + grant[c].window <= body[c].until
    /\ body[c].net <= Capacity(body[c])

Kept(c) ==
    /\ store[c] \in {"none", "active", "over"}
    /\ store[c] # "none" => createAt[c] = "created"
    /\ createAt[c] \in {"sent"} \cup InLock => Amounting(body[c])
    /\ createAt[c] \in Busy \cup {"created"} => Linked(body[c])
    /\ createAt[c] \in {"parsing", "issuing", "issued"} =>
          \A d \in Creations :
              store[d] = "active" => body[d].merchant # body[c].merchant
    /\ createAt[c] \in {"issuing", "issued", "created"} => Granted(c)

OneEach ==
    \A c, d \in Creations :
        store[c] = "active" /\ store[d] = "active" /\ c # d
        => body[c].merchant # body[d].merchant

CreateInv == Functions4 /\ Queued /\ (\A c \in Creations : Kept(c)) /\ OneEach

-----------------------------------------------------------------------------

\* What is left of a sequence without its place i.
LEMMA RemoveAtRight ==
    ASSUME NEW S, NEW s \in Seq(S), NEW i \in 1 .. Len(s)
    PROVE  /\ RemoveAt(s, i) \in Seq(S)
           /\ Len(RemoveAt(s, i)) = Len(s) - 1
           /\ \A j \in 1 .. Len(s) - 1 :
                 RemoveAt(s, i)[j] = IF j < i THEN s[j] ELSE s[j + 1]
<1> DEFINE a == SubSeq(s, 1, i - 1)
           b == SubSeq(s, i + 1, Len(s))
<1>1. /\ a \in Seq(S) /\ Len(a) = i - 1
      /\ \A j \in 1 .. i - 1 : a[j] = s[j]
  BY SubSeqProperties
<1>2. /\ b \in Seq(S) /\ Len(b) = Len(s) - i
      /\ \A j \in 1 .. Len(s) - i : b[j] = s[i + j]
  BY SubSeqProperties
<1>3. /\ a \o b \in Seq(S)
      /\ Len(a \o b) = Len(a) + Len(b)
      /\ \A j \in 1 .. Len(a) + Len(b) :
            (a \o b)[j] = IF j <= Len(a) THEN a[j] ELSE b[j - Len(a)]
  BY <1>1, <1>2, ConcatProperties
<1>4. RemoveAt(s, i) = a \o b
  BY DEF RemoveAt
<1> HIDE DEF a, b
<1>5. Len(a) + Len(b) = Len(s) - 1
  BY <1>1, <1>2
<1>6. ASSUME NEW j \in 1 .. Len(s) - 1
      PROVE  (a \o b)[j] = IF j < i THEN s[j] ELSE s[j + 1]
  <2>1. (a \o b)[j] = IF j <= Len(a) THEN a[j] ELSE b[j - Len(a)]
    BY <1>3, <1>5
  <2>2. CASE j < i
    BY <1>1, <2>1, <2>2
  <2>3. CASE ~(j < i)
    <3>1. j - Len(a) \in 1 .. Len(s) - i /\ i + (j - Len(a)) = j + 1
      BY <1>1, <2>3
    <3> QED
      BY <1>1, <1>2, <2>1, <2>3, <3>1
  <2> QED
    BY <2>2, <2>3
<1> QED
  BY <1>3, <1>4, <1>5, <1>6

\* The fee and the capacity are numbers.
LEMMA Numbers ==
    ASSUME NEW b, Amounting(b)
    PROVE  Forward(b.gross) \in Int /\ Capacity(b) \in Int /\ Window(b.ask) \in Nat
<1>1. JitFee(b.gross) \in Int
  BY TermsAssumption DEF JitFee, Amounting
<1>2. Capacity(b) \in Int
  BY TermsAssumption DEF Capacity, Larger, Amounting
<1>3. Window(b.ask) \in Nat
  BY TermsAssumption DEF Window, Larger, Smaller, MinExpiry, Amounting
<1> QED
  BY <1>1, <1>2, <1>3 DEF Forward, Amounting

\* Two creations past the lock's entry are for different merchant hashes.
LEMMA Alone ==
    ASSUME Queued, NEW c \in Creations, NEW d \in Creations, c # d,
           createAt[c] \in Busy, createAt[d] \in Busy
    PROVE  body[c].merchant # body[d].merchant
<1>1. PICK i \in 1 .. Len(line) : line[i] = c
  BY DEF Queued, InLock
<1>2. PICK j \in 1 .. Len(line) : line[j] = d
  BY DEF Queued, InLock
<1> QED
  BY <1>1, <1>2 DEF Queued

\* A creation that leaves the lock leaves the others in their order.
LEMMA LeaveRight ==
    ASSUME Functions4, Queued, NEW c \in Creations, NEW code, code \notin InLock,
           Answer(c, code), \A d \in Creations \ {c} : body'[d] = body[d]
    PROVE  /\ Queued'
           /\ createAt'[c] = code
           /\ \A d \in Creations \ {c} : createAt'[d] = createAt[d]
<1>1. PICK i \in DOMAIN line : line[i] = c /\ line' = RemoveAt(line, i)
  BY DEF Answer
<1>2. i \in 1 .. Len(line) /\ Len(line) \in Nat
  BY <1>1, LenProperties DEF Queued
<1>3. /\ line' \in Seq(Creations) /\ Len(line') = Len(line) - 1
      /\ \A j \in 1 .. Len(line) - 1 :
            line'[j] = IF j < i THEN line[j] ELSE line[j + 1]
  <2>1. line \in Seq(Creations)
    BY DEF Queued
  <2>2. /\ RemoveAt(line, i) \in Seq(Creations)
        /\ Len(RemoveAt(line, i)) = Len(line) - 1
        /\ \A j \in 1 .. Len(line) - 1 :
              RemoveAt(line, i)[j] = IF j < i THEN line[j] ELSE line[j + 1]
    BY <1>2, <2>1, RemoveAtRight
  <2> QED
    BY <1>1, <2>2
<1>4. /\ createAt'[c] = code
      /\ \A d \in Creations \ {c} : createAt'[d] = createAt[d]
  BY DEF Answer, Functions4
<1> DEFINE old(j) == IF j < i THEN j ELSE j + 1
<1>5. \A j \in 1 .. Len(line') :
         /\ old(j) \in 1 .. Len(line) /\ old(j) # i
         /\ line'[j] = line[old(j)] /\ line'[j] \in Creations \ {c}
  BY <1>1, <1>2, <1>3 DEF Queued
<1>6. \A j, k \in 1 .. Len(line') : /\ old(j) = old(k) => j = k
                                    /\ j < k => old(j) < old(k)
  BY <1>2, <1>3
<1>7. \A j \in 1 .. Len(line) : j # i => \E k \in 1 .. Len(line') : old(k) = j
  <2> SUFFICES ASSUME NEW j \in 1 .. Len(line), j # i
               PROVE  \E k \in 1 .. Len(line') : old(k) = j
    OBVIOUS
  <2>1. CASE j < i
    BY <2>1, <1>2, <1>3
  <2>2. CASE j > i
    <3>1. j - 1 \in 1 .. Len(line') /\ old(j - 1) = j
      BY <2>2, <1>2, <1>3
    <3> QED
      BY <3>1
  <2> QED
    BY <2>1, <2>2, <1>2
<1> HIDE DEF old
<1>8. \A j, k \in 1 .. Len(line') : line'[j] = line'[k] => j = k
  BY <1>5, <1>6 DEF Queued
<1>9. \A d \in Creations :
         createAt'[d] \in InLock <=> \E j \in 1 .. Len(line') : line'[j] = d
  <2>1. \A j \in 1 .. Len(line') : createAt'[line'[j]] \in InLock
    BY <1>4, <1>5 DEF Queued
  <2>2. ASSUME NEW d \in Creations, createAt'[d] \in InLock
        PROVE  \E j \in 1 .. Len(line') : line'[j] = d
    <3>1. d # c /\ createAt[d] \in InLock
      BY <1>4, <2>2
    <3>2. PICK j \in 1 .. Len(line) : line[j] = d
      BY <3>1 DEF Queued
    <3> QED
      BY <1>1, <1>5, <1>7, <3>1, <3>2
  <2> QED
    BY <2>1, <2>2
<1>10. ASSUME NEW j \in 1 .. Len(line'), NEW k \in 1 .. Len(line'), k < j,
              createAt'[line'[j]] \in Busy
       PROVE  body'[line'[k]].merchant # body'[line'[j]].merchant
  <2>1. /\ createAt[line[old(j)]] \in Busy /\ old(k) < old(j)
        /\ body'[line'[k]] = body[line[old(k)]] /\ body'[line'[j]] = body[line[old(j)]]
    BY <1>4, <1>5, <1>6, <1>10
  <2> QED
    BY <1>5, <2>1 DEF Queued
<1> QED
  BY <1>3, <1>4, <1>8, <1>9, <1>10 DEF Queued

\* A creation that goes on, and has the turn if it enters, keeps the order.
LEMMA PassRight ==
    ASSUME Functions4, Queued, NEW c \in Creations, NEW next \in InLock,
           createAt[c] \in InLock, createAt[c] \in Busy \/ MyTurn(c),
           Pass(c, next)
    PROVE  /\ Queued'
           /\ createAt'[c] = next
           /\ \A d \in Creations \ {c} : createAt'[d] = createAt[d]
           /\ body' = body
<1>1. /\ UNCHANGED <<line, body>>
      /\ createAt'[c] = next
      /\ \A d \in Creations \ {c} : createAt'[d] = createAt[d]
  BY DEF Pass, Functions4
<1>2. ASSUME NEW i \in 1 .. Len(line), NEW j \in 1 .. Len(line), j < i, line[i] = c
      PROVE  body[line[j]].merchant # body[line[i]].merchant
  <2>1. CASE createAt[c] \in Busy
    BY <1>2, <2>1 DEF Queued
  <2>2. CASE MyTurn(c)
    <3>1. PICK k \in DOMAIN line :
             /\ line[k] = c
             /\ \A l \in 1 .. k - 1 : body[line[l]].merchant # body[c].merchant
      BY <2>2 DEF MyTurn
    <3>2. k = i
      BY <1>2, <3>1, LenProperties DEF Queued
    <3> QED
      BY <1>2, <3>1, <3>2
  <2> QED
    BY <2>1, <2>2
<1>3. \A i \in 1 .. Len(line) : line[i] \in Creations
  BY DEF Queued
<1> QED
  BY <1>1, <1>2, <1>3 DEF Queued

\* Nothing has been asked at the start.
LEMMA CreateInvInit == CreateInit => CreateInv
<1> SUFFICES ASSUME CreateInit PROVE CreateInv
  OBVIOUS
<1>1. Functions4 /\ OneEach
  BY DEF CreateInit, Functions4, OneEach
<1>2. line \in Seq(Creations) /\ Len(line) = 0
  BY EmptySeq DEF CreateInit
<1>3. Queued
  BY <1>2 DEF CreateInit, Queued, InLock, Busy
<1>4. \A c \in Creations : Kept(c)
  BY DEF CreateInit, Kept, InLock, Busy
<1> QED
  BY <1>1, <1>3, <1>4 DEF CreateInv

\* A creation that is in the lock neither before nor after leaves its order.
LEMMA QueueStays ==
    ASSUME Queued, NEW c \in Creations, line' = line,
           createAt[c] \notin InLock, createAt'[c] \notin InLock,
           \A d \in Creations \ {c} :
               createAt'[d] = createAt[d] /\ body'[d] = body[d]
    PROVE  Queued'
<1>1. \A i \in 1 .. Len(line) : line[i] \in Creations \ {c}
  BY DEF Queued
<1>2. \A i \in 1 .. Len(line) : /\ createAt'[line[i]] = createAt[line[i]]
                                /\ body'[line[i]] = body[line[i]]
  BY <1>1
<1>3. \A d \in Creations :
         createAt'[d] \in InLock <=> \E i \in 1 .. Len(line) : line[i] = d
  BY <1>1 DEF Queued
<1>4. ASSUME NEW i \in 1 .. Len(line), NEW j \in 1 .. Len(line),
             j < i, createAt'[line[i]] \in Busy
      PROVE  body'[line[j]].merchant # body'[line[i]].merchant
  <2>1. body[line[j]].merchant # body[line[i]].merchant
    BY <1>2, <1>4 DEF Queued
  <2> QED
    BY <1>2, <2>1
<1> QED
  BY <1>3, <1>4 DEF Queued

\* A request on its way is numbers; nothing else changes.
LEMMA SentRight ==
    ASSUME CreateInv, NEW c \in Creations, createAt[c] = "idle",
           NEW next \in {"sent", "given up"},
           createAt' = [createAt EXCEPT ![c] = next],
           UNCHANGED <<line, grant, store, now>>,
           body' = [d \in Creations |-> body'[d]],
           \A d \in Creations \ {c} : body'[d] = body[d],
           next = "sent" => Amounting(body'[c])
    PROVE  CreateInv'
<1>1. /\ createAt'[c] = next
      /\ \A d \in Creations \ {c} : createAt'[d] = createAt[d]
      /\ createAt' = [d \in Creations |-> createAt'[d]]
  BY DEF CreateInv, Functions4
<1>2. Functions4'
  BY <1>1 DEF CreateInv, Functions4
<1>3. store[c] = "none"
  BY DEF CreateInv, Kept
<1>5. Queued'
  <2>1. createAt[c] \notin InLock /\ createAt'[c] \notin InLock
    BY <1>1 DEF InLock, Busy
  <2> QED
    BY <1>1, <2>1, QueueStays DEF CreateInv
<1>6. Kept(c)'
  BY <1>1, <1>3 DEF CreateInv, Kept, InLock, Busy
<1>7. ASSUME NEW d \in Creations \ {c} PROVE Kept(d)'
  <2>1. Kept(d) /\ createAt'[d] = createAt[d] /\ body'[d] = body[d]
    BY <1>1 DEF CreateInv
  <2>2. Granted(d) => Granted(d)'
    BY <2>1 DEF Granted
  <2>3. \A e \in Creations : store'[e] = "active" => body'[e] = body[e]
    BY <1>3
  <2> QED
    BY <2>1, <2>2, <2>3 DEF Kept
<1>8. OneEach'
  BY <1>3 DEF CreateInv, OneEach
<1> QED
  BY <1>2, <1>5, <1>6, <1>7, <1>8 DEF CreateInv

\* A creation that is refused leaves the orders as they are.
LEMMA RefuseRight ==
    ASSUME CreateInv, NEW c \in Creations, createAt[c] \in InLock,
           NEW code, code \notin {"sent", "created"} \cup InLock,
           Refuse(c, code), UNCHANGED <<grant, store, now>>
    PROVE  CreateInv'
<1>1. /\ Queued'
      /\ createAt'[c] = code
      /\ \A d \in Creations \ {c} : createAt'[d] = createAt[d] /\ body'[d] = body[d]
  <2>1. \A d \in Creations \ {c} : body'[d] = body[d]
    BY DEF Refuse, CreateInv, Functions4
  <2> QED
    BY <2>1, LeaveRight DEF Refuse, CreateInv
<1>2. Functions4'
  BY DEF Refuse, Answer, CreateInv, Functions4
<1>3. store[c] = "none"
  BY DEF CreateInv, Kept, InLock, Busy
<1>4. Kept(c)'
  BY <1>1, <1>3 DEF CreateInv, Kept, InLock, Busy
<1>5. ASSUME NEW d \in Creations \ {c} PROVE Kept(d)'
  <2>1. Kept(d) /\ createAt'[d] = createAt[d] /\ body'[d] = body[d]
    BY <1>1 DEF CreateInv
  <2>2. Granted(d) => Granted(d)'
    BY <2>1 DEF Granted
  <2>3. \A e \in Creations : store'[e] = "active" => body'[e] = body[e]
    BY <1>1, <1>3
  <2> QED
    BY <2>1, <2>2, <2>3 DEF Kept
<1>6. OneEach'
  BY <1>1, <1>3 DEF CreateInv, OneEach
<1> QED
  BY <1>1, <1>2, <1>4, <1>5, <1>6 DEF CreateInv

\* A creation that goes on with what the next stage asks.
LEMMA GoOnRight ==
    ASSUME CreateInv, NEW c \in Creations, NEW next \in Busy,
           createAt[c] \in InLock, createAt[c] \in Busy \/ MyTurn(c),
           Pass(c, next), UNCHANGED <<store, now>>,
           grant' = [d \in Creations |-> grant'[d]],
           \A d \in Creations \ {c} : grant'[d] = grant[d],
           Linked(body[c]),
           next # "admitted" =>
               \A d \in Creations :
                   store[d] = "active" => body[d].merchant # body[c].merchant,
           next \in {"issuing", "issued"} => Granted(c)'
    PROVE  CreateInv'
<1>1. /\ Queued'
      /\ createAt'[c] = next
      /\ \A d \in Creations \ {c} : createAt'[d] = createAt[d]
      /\ body' = body
  BY PassRight DEF CreateInv, InLock
<1>2. Functions4'
  BY <1>1 DEF Pass, CreateInv, Functions4
<1>3. store[c] = "none"
  BY DEF CreateInv, Kept, InLock, Busy
<1>4. Kept(c)'
  BY <1>1, <1>3 DEF CreateInv, Kept, InLock, Busy
<1>5. ASSUME NEW d \in Creations \ {c} PROVE Kept(d)'
  BY <1>1 DEF CreateInv, Kept, Granted
<1>6. OneEach'
  BY <1>1 DEF CreateInv, OneEach
<1> QED
  BY <1>1, <1>2, <1>4, <1>5, <1>6 DEF CreateInv

\* A creation that comes last in line has nobody to be before it.
LEMMA JoinRight ==
    ASSUME Queued, NEW c \in Creations, createAt[c] \notin InLock,
           line' = Append(line, c), createAt'[c] = "waiting", body' = body,
           \A d \in Creations \ {c} : createAt'[d] = createAt[d]
    PROVE  Queued'
<1>1. /\ line' \in Seq(Creations) /\ Len(line') = Len(line) + 1
      /\ line'[Len(line) + 1] = c
      /\ \A i \in 1 .. Len(line) : line'[i] = line[i]
  BY AppendProperties DEF Queued
<1>2. Len(line) \in Nat
  BY LenProperties DEF Queued
<1>3. \A i \in 1 .. Len(line) :
         line[i] \in Creations \ {c} /\ createAt'[line[i]] = createAt[line[i]]
  BY DEF Queued
<1>4. \A i, j \in 1 .. Len(line') : line'[i] = line'[j] => i = j
  <2> SUFFICES ASSUME NEW i \in 1 .. Len(line'), NEW j \in 1 .. Len(line'),
                      line'[i] = line'[j]
               PROVE  i = j
    OBVIOUS
  <2>1. CASE i = Len(line) + 1
    BY <1>1, <1>2, <1>3, <2>1
  <2>2. CASE j = Len(line) + 1
    BY <1>1, <1>2, <1>3, <2>2
  <2>3. CASE i \in 1 .. Len(line) /\ j \in 1 .. Len(line)
    BY <1>1, <2>3 DEF Queued
  <2> QED
    BY <1>1, <1>2, <2>1, <2>2, <2>3
<1>5. \A d \in Creations :
         createAt'[d] \in InLock <=> \E i \in 1 .. Len(line') : line'[i] = d
  <2>1. ASSUME NEW d \in Creations, createAt'[d] \in InLock
        PROVE  \E i \in 1 .. Len(line') : line'[i] = d
    <3>1. CASE d = c
      BY <1>1, <1>2, <3>1
    <3>2. CASE d # c
      <4>1. PICK i \in 1 .. Len(line) : line[i] = d
        BY <2>1, <3>2 DEF Queued
      <4>2. i \in 1 .. Len(line') /\ line'[i] = d
        BY <1>1, <1>2, <4>1
      <4> QED
        BY <4>2
    <3> QED
      BY <3>1, <3>2
  <2>2. ASSUME NEW i \in 1 .. Len(line')
        PROVE  createAt'[line'[i]] \in InLock
    <3>1. CASE i = Len(line) + 1
      BY <1>1, <3>1 DEF InLock
    <3>2. CASE i \in 1 .. Len(line)
      BY <1>1, <1>3, <3>2 DEF Queued
    <3> QED
      BY <1>1, <1>2, <3>1, <3>2
  <2> QED
    BY <2>1, <2>2
<1>6. ASSUME NEW i \in 1 .. Len(line'), NEW j \in 1 .. Len(line'),
             j < i, createAt'[line'[i]] \in Busy
      PROVE  body'[line'[j]].merchant # body'[line'[i]].merchant
  <2>1. i \in 1 .. Len(line) /\ j \in 1 .. Len(line)
    BY <1>1, <1>2, <1>6 DEF Busy
  <2>2. /\ createAt[line[i]] \in Busy
        /\ line'[i] = line[i] /\ line'[j] = line[j]
    BY <1>1, <1>3, <1>6, <2>1
  <2> QED
    BY <1>6, <2>1, <2>2 DEF Queued
<1> QED
  BY <1>1, <1>4, <1>5, <1>6 DEF Queued

\* A restart empties the line.
LEMMA CrashRight ==
    ASSUME CreateInv, Crash
    PROVE  CreateInv'
<1>1. \A d \in Creations : d \in ToSet(line) <=> createAt[d] \in InLock
  <2>1. DOMAIN line = 1 .. Len(line)
    BY LenProperties DEF CreateInv, Queued
  <2> QED
    BY <2>1 DEF CreateInv, Queued, ToSet
<1>2. \A d \in Creations :
         IF createAt[d] \in InLock THEN createAt'[d] = "lost"
         ELSE createAt'[d] = createAt[d] /\ body'[d] = body[d]
  BY <1>1 DEF Crash
<1>3. UNCHANGED <<grant, store, now>>
  BY DEF Crash
<1>4. Functions4'
  BY <1>3 DEF Crash, CreateInv, Functions4
<1>5. Queued'
  <2>1. line' \in Seq(Creations) /\ Len(line') = 0
    BY EmptySeq DEF Crash
  <2>2. \A d \in Creations : createAt'[d] \notin InLock
    BY <1>2 DEF InLock, Busy
  <2> QED
    BY <2>1, <2>2 DEF Queued
<1>6. \A d \in Creations : store[d] # "none" => body'[d] = body[d]
  BY <1>2 DEF CreateInv, Kept, InLock, Busy
<1>7. ASSUME NEW d \in Creations PROVE Kept(d)'
  <2>1. Kept(d) /\ store'[d] = store[d]
    BY <1>3 DEF CreateInv
  <2>2. CASE createAt[d] \in InLock
    BY <1>2, <2>1, <2>2 DEF Kept, InLock, Busy
  <2>3. CASE createAt[d] \notin InLock
    <3>1. createAt'[d] = createAt[d] /\ body'[d] = body[d]
      BY <1>2, <2>3
    <3>2. Granted(d) => Granted(d)'
      BY <1>3, <3>1 DEF Granted
    <3> QED
      BY <2>1, <2>3, <3>1, <3>2 DEF Kept, InLock, Busy
  <2> QED
    BY <2>2, <2>3
<1>8. OneEach'
  BY <1>3, <1>6 DEF CreateInv, OneEach
<1> QED
  BY <1>4, <1>5, <1>7, <1>8 DEF CreateInv

\* The order is stored while its creation still has the lock.
LEMMA PutRight ==
    ASSUME CreateInv, NEW c \in Creations, Put(c)
    PROVE  CreateInv'
<1>1. /\ Queued'
      /\ createAt'[c] = "created"
      /\ \A d \in Creations \ {c} : createAt'[d] = createAt[d]
  BY LeaveRight DEF Put, CreateInv, InLock, Busy
<1>2. /\ store'[c] = "active" /\ \A d \in Creations \ {c} : store'[d] = store[d]
      /\ store' = [d \in Creations |-> store'[d]]
      /\ body' = body /\ grant' = grant /\ now' = now
      /\ createAt[c] = "issued"
  BY DEF Put, CreateInv, Functions4
<1>3. Functions4'
  BY <1>2 DEF Put, Answer, CreateInv, Functions4
<1>4. Linked(body[c]) /\ Granted(c)
  BY <1>2 DEF CreateInv, Kept, Busy
<1>5. Kept(c)'
  BY <1>1, <1>2, <1>4 DEF Kept, InLock, Busy, Granted
<1>6. ASSUME NEW d \in Creations \ {c} PROVE Kept(d)'
  <2>1. /\ Kept(d) /\ createAt'[d] = createAt[d]
        /\ store'[d] = store[d] /\ body'[d] = body[d]
    BY <1>1, <1>2 DEF CreateInv
  <2>2. Granted(d) => Granted(d)'
    BY <1>2 DEF Granted
  <2>3. createAt[d] \in {"parsing", "issuing", "issued"} =>
            body[c].merchant # body[d].merchant
    BY <1>2, Alone DEF CreateInv, Busy
  <2>4. createAt[d] \in {"parsing", "issuing", "issued"} =>
            \A e \in Creations :
                store'[e] = "active" => body'[e].merchant # body'[d].merchant
    BY <1>2, <2>1, <2>3 DEF Kept
  <2> QED
    BY <2>1, <2>2, <2>4 DEF Kept
<1>7. OneEach'
  <2>1. \A d \in Creations : store[d] = "active" =>
            body[d].merchant # body[c].merchant
    BY <1>2 DEF CreateInv, Kept
  <2> QED
    BY <1>2, <2>1 DEF CreateInv, OneEach
<1> QED
  BY <1>1, <1>3, <1>5, <1>6, <1>7 DEF CreateInv

\* What changes outside the lock changes no order: a wish for the lock, an
\* order's end, an invoice of the hold node, the clock.
LEMMA OutsideRight ==
    ASSUME CreateInv, UNCHANGED <<body, grant>>, now' \in Nat, Queued',
           createAt' = [d \in Creations |-> createAt'[d]],
           store' = [d \in Creations |-> store'[d]],
           \A d \in Creations :
              /\ \/ createAt'[d] = createAt[d]
                 \/ createAt[d] = "sent" /\ createAt'[d] = "waiting"
              /\ \/ store'[d] = store[d]
                 \/ store[d] = "active" /\ store'[d] = "over"
    PROVE  CreateInv'
<1>1. Functions4'
  BY DEF CreateInv, Functions4
<1>2. ASSUME NEW d \in Creations PROVE Kept(d)'
  <2>1. Kept(d)
    BY DEF CreateInv
  <2>2. Granted(d) => Granted(d)'
    BY DEF Granted
  <2>3. \A e \in Creations : store'[e] = "active" => store[e] = "active"
    OBVIOUS
  <2>4. store'[d] \in {"none", "active", "over"}
        /\ (store'[d] # "none" => store[d] # "none")
    BY <2>1 DEF Kept
  <2>5. CASE createAt'[d] = createAt[d]
    BY <2>1, <2>2, <2>3, <2>4, <2>5 DEF Kept
  <2>6. CASE createAt[d] = "sent" /\ createAt'[d] = "waiting"
    BY <2>1, <2>4, <2>6 DEF Kept, InLock, Busy
  <2> QED
    BY <2>5, <2>6
<1>3. OneEach'
  BY DEF CreateInv, OneEach
<1> QED
  BY <1>1, <1>2, <1>3 DEF CreateInv

\* One case per action.
LEMMA CreateInvStep == CreateInv /\ [CreateNext]_createVars => CreateInv'
<1> SUFFICES ASSUME CreateInv, [CreateNext]_createVars PROVE CreateInv'
  OBVIOUS
<1>f. Functions4 /\ Queued
  BY DEF CreateInv
<1>k. \A d \in Creations : Kept(d)
  BY DEF CreateInv
<1>1. ASSUME NEW c \in Creations, Checkout(c) PROVE CreateInv'
  <2>1. PICK pinned \in {"any", "linked", "same_hash"}, gross \in Amounts,
             ask \in Asks, size \in Sizes :
          LET mode == SelectMode(pinned)
              merchant == Plain(Secret[c])
          IN  IF mode \notin Modes \/ Net(gross) <= 0
              THEN /\ createAt' = [createAt EXCEPT ![c] = "given up"]
                   /\ UNCHANGED body
              ELSE /\ createAt' = [createAt EXCEPT ![c] = "sent"]
                   /\ body' = [body EXCEPT ![c] =
                        [mode |-> mode, gross |-> gross, net |-> Net(gross),
                         merchant |-> merchant, invoice |-> merchant,
                         hold |-> IF mode = "linked" THEN Derived(Secret[c])
                                  ELSE merchant,
                         proof |-> mode = "linked", address |-> TRUE,
                         ask |-> ask, size |-> size,
                         until |-> now + Larger(ask, MaxExpiry) + Buffer]]
    BY <1>1 DEF Checkout
  <2>2. gross \in Nat /\ ask \in Nat /\ size \in Nat
    BY TermsAssumption
  <2>3. now + Larger(ask, MaxExpiry) + Buffer \in Nat
    BY <1>f, <2>2, TermsAssumption DEF Larger, Functions4
  <2>4. \/ /\ createAt' = [createAt EXCEPT ![c] = "given up"]
           /\ UNCHANGED body
        \/ /\ createAt' = [createAt EXCEPT ![c] = "sent"]
           /\ body' = [d \in Creations |-> body'[d]]
           /\ \A d \in Creations \ {c} : body'[d] = body[d]
           /\ Amounting(body'[c])
    <3>1. CASE SelectMode(pinned) \notin Modes \/ Net(gross) <= 0
      BY <2>1, <3>1
    <3>2. CASE ~(SelectMode(pinned) \notin Modes \/ Net(gross) <= 0)
      BY <1>f, <2>1, <2>2, <2>3, <3>2 DEF Functions4, Amounting
    <3> QED
      BY <3>1, <3>2
  <2>5. createAt[c] = "idle" /\ UNCHANGED <<line, grant, store, now>>
    BY <1>1 DEF Checkout
  <2>6. CASE createAt' = [createAt EXCEPT ![c] = "given up"] /\ UNCHANGED body
    BY <1>f, <2>5, <2>6, SentRight DEF Functions4
  <2>7. CASE /\ createAt' = [createAt EXCEPT ![c] = "sent"]
             /\ body' = [d \in Creations |-> body'[d]]
             /\ \A d \in Creations \ {c} : body'[d] = body[d]
             /\ Amounting(body'[c])
    BY <2>5, <2>7, SentRight
  <2> QED
    BY <2>4, <2>6, <2>7
<1>2. ASSUME NEW c \in Creations, Post(c) PROVE CreateInv'
  <2>1. PICK mode \in {"linked", "same_hash"}, gross \in Amounts,
             hold \in Hashes, merchant \in Hashes, invoice \in Hashes,
             ask \in Asks, life \in Lives,
             proof \in BOOLEAN, address \in BOOLEAN :
          \E net \in {gross, Forward(gross)} :
             body' = [body EXCEPT ![c] =
                 [mode |-> mode, gross |-> gross, net |-> net,
                  merchant |-> merchant, invoice |-> invoice, hold |-> hold,
                  proof |-> proof, address |-> address,
                  ask |-> ask, size |-> 0, until |-> now + life]]
    BY <1>2 DEF Post
  <2>2. gross \in Nat /\ ask \in Nat /\ now + life \in Nat
    BY <1>f, TermsAssumption DEF Functions4
  <2>3. /\ body' = [d \in Creations |-> body'[d]]
        /\ \A d \in Creations \ {c} : body'[d] = body[d]
        /\ Amounting(body'[c])
    BY <1>f, <2>1, <2>2 DEF Functions4, Amounting
  <2>4. /\ createAt[c] = "idle" /\ createAt' = [createAt EXCEPT ![c] = "sent"]
        /\ UNCHANGED <<line, grant, store, now>>
    BY <1>2 DEF Post
  <2> QED
    BY <2>3, <2>4, SentRight
<1>3. ASSUME NEW c \in Creations, Create(c) PROVE CreateInv'
  <2>1. /\ createAt[c] = "sent" /\ createAt[c] \notin InLock
        /\ createAt'[c] = "waiting" /\ line' = Append(line, c)
        /\ \A d \in Creations \ {c} : createAt'[d] = createAt[d]
        /\ createAt' = [d \in Creations |-> createAt'[d]]
        /\ body' = body /\ grant' = grant /\ store' = store /\ now' = now
    BY <1>3, <1>f DEF Create, Functions4, InLock, Busy
  <2>2. Queued'
    BY <1>f, <2>1, JoinRight
  <2>3. now' \in Nat /\ store' = [d \in Creations |-> store'[d]]
    BY <1>f, <2>1 DEF Functions4
  <2> QED
    BY <2>1, <2>2, <2>3, OutsideRight
<1>4. ASSUME NEW c \in Creations, Admit(c) PROVE CreateInv'
  <2>1. /\ createAt[c] \in InLock /\ MyTurn(c)
        /\ UNCHANGED <<grant, store, now>>
    BY <1>4 DEF Admit, InLock
  <2>2. CASE EntryCode(body[c]) = "ok"
    <3>1. Linked(body[c])
      BY <2>2 DEF EntryCode, Linked, Proven, Modes
    <3>2. Pass(c, "admitted")
      BY <1>4, <2>2 DEF Admit
    <3>3. grant' = [d \in Creations |-> grant'[d]]
      BY <1>f, <2>1 DEF Functions4
    <3> QED
      BY <2>1, <3>1, <3>2, <3>3, GoOnRight DEF Busy
  <2>3. CASE EntryCode(body[c]) # "ok"
    <3>1. EntryCode(body[c]) \notin {"sent", "created"} \cup InLock
      BY <2>3 DEF EntryCode, InLock, Busy
    <3>2. Refuse(c, EntryCode(body[c]))
      BY <1>4, <2>3 DEF Admit
    <3> QED
      BY <2>1, <3>1, <3>2, RefuseRight
  <2> QED
    BY <2>2, <2>3
<1>5. ASSUME NEW c \in Creations, NoDuplicate(c) PROVE CreateInv'
  <2>1. /\ createAt[c] = "admitted" /\ createAt[c] \in Busy /\ createAt[c] \in InLock
        /\ UNCHANGED <<grant, store, now>>
    BY <1>5 DEF NoDuplicate, InLock, Busy
  <2>2. \/ Refuse(c, "duplicate_order") \/ Refuse(c, "fee_exceeds_amount")
        \/ ~Duplicate(body[c]) /\ Pass(c, "parsing")
    BY <1>5 DEF NoDuplicate
  <2>3. ASSUME NEW code \in {"duplicate_order", "fee_exceeds_amount"},
               Refuse(c, code)
        PROVE  CreateInv'
    <3>1. code \notin {"sent", "created"} \cup InLock
      BY DEF InLock, Busy
    <3> QED
      BY <2>1, <2>3, <3>1, RefuseRight
  <2>4. CASE ~Duplicate(body[c]) /\ Pass(c, "parsing")
    <3>1. \A d \in Creations :
             store[d] = "active" => body[d].merchant # body[c].merchant
      BY <2>4 DEF Duplicate
    <3>2. Linked(body[c])
      BY <1>k, <2>1 DEF Kept
    <3>3. grant' = [d \in Creations |-> grant'[d]]
      BY <1>f, <2>1 DEF Functions4
    <3> QED
      BY <2>1, <2>4, <3>1, <3>2, <3>3, GoOnRight DEF Busy
  <2> QED
    BY <2>2, <2>3, <2>4
<1>6. ASSUME NEW c \in Creations, Parsed(c) PROVE CreateInv'
  <2>1. /\ createAt[c] = "parsing" /\ createAt[c] \in Busy /\ createAt[c] \in InLock
        /\ UNCHANGED <<store, now>>
    BY <1>6 DEF Parsed, InLock, Busy
  <2>2. CASE InvoiceCode(body[c]) = "ok"
    <3>1. /\ Pass(c, "issuing")
          /\ grant' = [grant EXCEPT ![c] =
                          [window |-> Window(body[c].ask), at |-> now]]
      BY <1>6, <2>2 DEF Parsed
    <3>2. /\ grant' = [d \in Creations |-> grant'[d]]
          /\ \A d \in Creations \ {c} : grant'[d] = grant[d]
          /\ grant'[c].window = Window(body[c].ask) /\ grant'[c].at = now
      BY <1>f, <3>1 DEF Functions4
    <3>3. Amounting(body[c]) /\ Linked(body[c])
      BY <1>k, <2>1 DEF Kept
    <3>4. /\ Forward(body[c].gross) \in Int /\ Capacity(body[c]) \in Int
          /\ Window(body[c].ask) \in Nat
      BY <3>3, Numbers
    <3>5. /\ body[c].net = Forward(body[c].gross)
          /\ ~(Capacity(body[c]) < Forward(body[c].gross))
          /\ ~(MinExpiry > MaxExpiry)
          /\ ~(body[c].until < now + Window(body[c].ask))
      BY <2>2 DEF InvoiceCode
    <3>6. MinExpiry <= Window(body[c].ask)
      BY <3>3, <3>5, TermsAssumption DEF Window, Larger, Smaller, MinExpiry, Amounting
    <3>7. body' = body
      BY <3>1 DEF Pass
    <3>8. /\ now \in Nat /\ body[c].until \in Nat
      BY <1>f, <3>3 DEF Functions4, Amounting
    <3>9. now + Window(body[c].ask) <= body[c].until
      BY <3>4, <3>5, <3>8
    <3>10. body[c].net <= Capacity(body[c])
      BY <3>4, <3>5
    <3>11. Granted(c)'
      <4>1. Capacity(body[c])' = Capacity(body[c])
        BY <3>7 DEF Capacity, Larger
      <4>2. (MinExpiry <= grant[c].window)'
        BY <3>2, <3>6 DEF MinExpiry
      <4> QED
        BY <3>2, <3>4, <3>7, <3>8, <3>9, <3>10, <4>1, <4>2 DEF Granted
    <3>12. \A d \in Creations :
              store[d] = "active" => body[d].merchant # body[c].merchant
      BY <1>k, <2>1 DEF Kept
    <3> QED
      BY <2>1, <3>1, <3>2, <3>3, <3>11, <3>12, GoOnRight DEF Busy
  <2>3. CASE InvoiceCode(body[c]) # "ok"
    <3>1. InvoiceCode(body[c]) \notin {"sent", "created"} \cup InLock
      BY <2>3 DEF InvoiceCode, InLock, Busy
    <3>2. Refuse(c, InvoiceCode(body[c])) /\ UNCHANGED grant
      BY <1>6, <2>3 DEF Parsed
    <3> QED
      BY <2>1, <3>1, <3>2, RefuseRight
  <2> QED
    BY <2>2, <2>3
<1>7. ASSUME NEW c \in Creations, Issue(c) PROVE CreateInv'
  <2>1. /\ createAt[c] = "issuing" /\ createAt[c] \in Busy /\ createAt[c] \in InLock
        /\ UNCHANGED <<grant, store, now>> /\ Pass(c, "issued")
    BY <1>7 DEF Issue, Pass, InLock, Busy
  <2>2. grant' = [d \in Creations |-> grant'[d]]
    BY <1>f, <2>1 DEF Functions4
  <2>3. /\ Linked(body[c]) /\ Granted(c)
        /\ \A d \in Creations :
              store[d] = "active" => body[d].merchant # body[c].merchant
    BY <1>k, <2>1 DEF Kept
  <2>4. Granted(c)'
    BY <2>1, <2>3 DEF Granted, Pass
  <2> QED
    BY <2>1, <2>2, <2>3, <2>4, GoOnRight DEF Busy
<1>8. ASSUME NEW c \in Creations, RpcFails(c) PROVE CreateInv'
  <2>1. createAt[c] \in InLock /\ "internal" \notin {"sent", "created"} \cup InLock
    BY <1>8 DEF RpcFails, InLock, Busy
  <2> QED
    BY <1>8, <2>1, RefuseRight DEF RpcFails
<1>9. ASSUME NEW c \in Creations, Put(c) PROVE CreateInv'
  BY <1>9, PutRight
<1>10. ASSUME NEW c \in Creations, OrderEnds(c) PROVE CreateInv'
  <2>1. /\ store[c] = "active" /\ store'[c] = "over"
        /\ \A d \in Creations \ {c} : store'[d] = store[d]
        /\ store' = [d \in Creations |-> store'[d]]
        /\ UNCHANGED <<createAt, body, line, grant, now>>
    BY <1>10, <1>f DEF OrderEnds, Functions4
  <2>2. Queued'
    BY <1>f, <2>1 DEF Queued
  <2>3. now' \in Nat /\ createAt' = [d \in Creations |-> createAt'[d]]
    BY <1>f, <2>1 DEF Functions4
  <2> QED
    BY <2>1, <2>2, <2>3, OutsideRight
<1>11. ASSUME Crash PROVE CreateInv'
  BY <1>11, CrashRight
<1>12. ASSUME UNCHANGED <<createAt, body, line, grant, store>>, now' \in Nat
       PROVE  CreateInv'
  <2>1. Queued'
    BY <1>f, <1>12 DEF Queued
  <2>2. /\ createAt' = [d \in Creations |-> createAt'[d]]
        /\ store' = [d \in Creations |-> store'[d]]
    BY <1>f, <1>12 DEF Functions4
  <2> QED
    BY <1>12, <2>1, <2>2, OutsideRight
<1>13. CASE Tick
  BY <1>f, <1>12, <1>13 DEF Tick, Functions4
<1>14. CASE UNCHANGED createVars
  BY <1>f, <1>12, <1>14 DEF createVars, Functions4
<1> QED
  BY <1>1, <1>2, <1>3, <1>4, <1>5, <1>6, <1>7, <1>8, <1>9, <1>10, <1>11,
     <1>13, <1>14 DEF CreateNext

-----------------------------------------------------------------------------

\* The line, the stages and the orders fit each other throughout.
THEOREM CreateInductive == CreateSpec => []CreateInv
BY CreateInvInit, CreateInvStep, PTL DEF CreateSpec

\* However creations interleave, fail and restart, no two orders that run have
\* one merchant hash or, in one mode, one hold (createOrder, createLock).
THEOREM OrdersApart == CreateSpec => []NoTwoActive
<1>1. CreateInv => NoTwoActive
  <2> SUFFICES ASSUME CreateInv, NEW c \in Creations, NEW d \in Creations,
                      store[c] = "active", store[d] = "active", c # d
               PROVE  /\ body[c].merchant # body[d].merchant
                      /\ body[c].mode = body[d].mode => body[c].hold # body[d].hold
    BY DEF NoTwoActive
  <2>1. body[c].merchant # body[d].merchant
    BY DEF CreateInv, OneEach
  <2>2. Linked(body[c]) /\ Linked(body[d])
    BY DEF CreateInv, Kept
  <2>3. ASSUME body[c].mode = body[d].mode, body[c].hold = body[d].hold
        PROVE  FALSE
    <3>1. CASE body[c].mode = "same_hash"
      BY <2>1, <2>2, <2>3, <3>1 DEF Linked
    <3>2. CASE body[c].mode = "linked"
      <4>1. PICK s \in Secrets : body[c].hold = Derived(s) /\ body[c].merchant = Plain(s)
        BY <2>2, <3>2 DEF Linked
      <4>2. PICK t \in Secrets : body[d].hold = Derived(t) /\ body[d].merchant = Plain(t)
        BY <2>2, <2>3, <3>2 DEF Linked
      <4>3. Derived(s)[2] = s /\ Derived(t)[2] = t
        BY DEF Derived
      <4>4. s = t
        BY <2>3, <4>1, <4>2, <4>3
      <4> QED
        BY <2>1, <4>1, <4>2, <4>4
    <3> QED
      BY <2>2, <3>1, <3>2 DEF Linked
  <2> QED
    BY <2>1, <2>3
<1> QED
  BY <1>1, CreateInductive, PTL

\* A stored order has the time to open a channel and to forward before its own
\* deadline and the merchant's invoice end (grantedExpiry, the invoice checks).
THEOREM InTime == CreateSpec => []Feasible
<1>1. CreateInv => Feasible
  <2> SUFFICES ASSUME CreateInv, NEW c \in Creations, store[c] # "none"
               PROVE  LET deadline == grant[c].at + grant[c].window
                      IN  /\ \A t \in 0 .. OpenBudget - 1 :
                                ~TooClose(grant[c].at + t, deadline)
                          /\ deadline <= body[c].until
                          /\ body[c].net <= Capacity(body[c])
    BY DEF Feasible
  <2>1. Granted(c)
    BY DEF CreateInv, Kept
  <2>2. \A t \in 0 .. OpenBudget - 1 :
            ~TooClose(grant[c].at + t, grant[c].at + grant[c].window)
    BY <2>1, TermsAssumption DEF Granted, TooClose, MinExpiry
  <2> QED
    BY <2>1, <2>2 DEF Granted
<1> QED
  BY <1>1, CreateInductive, PTL

-----------------------------------------------------------------------------

\* Stages that say the SDK's request did not fit.
Misfits == {"missing_target_address", "unsupported_mode", "hash_mismatch",
            "linkage_invalid", "amount_mismatch", "fee_exceeds_amount", "expiry_unsafe"}

\* What checkout() put together.
Honest(c) ==
    LET b == body[c]
    IN  /\ b.mode \in Modes /\ b.mode \in {"linked", "same_hash"}
        /\ b.gross \in Nat /\ b.ask \in Nat /\ b.until \in Nat
        /\ b.net = Forward(b.gross) /\ b.net > 0
        /\ b.merchant = Plain(Secret[c]) /\ b.invoice = b.merchant
        /\ b.hold = (IF b.mode = "linked" THEN Derived(Secret[c]) ELSE b.merchant)
        /\ b.proof = (b.mode = "linked") /\ b.address
        /\ MaxExpiry + Buffer <= b.until

Fits(c) ==
    /\ createAt[c] \in {"sent"} \cup InLock => Honest(c)
    /\ createAt[c] \notin Misfits
    /\ createAt[c] = "merchant_invoice_expiry_too_short" => now > Buffer

\* An honest request passes the entry, or is too small.
LEMMA HonestEnters ==
    ASSUME NEW c \in Checkouts, Honest(c)
    PROVE  EntryCode(body[c]) \in {"ok", "amount_too_small"}
<1>1. Secret[c] \in Secrets
  BY SecretAssumption
<1>2. Derived(Secret[c]) # Plain(Secret[c])
  <2>1. Derived(Secret[c])[1] = "poseidon" /\ Plain(Secret[c])[1] = "sha256"
    BY DEF Derived, Plain
  <2> QED
    BY <2>1
<1>3. body[c].mode = "linked" => Proven(body[c])
  BY <1>1 DEF Honest, Proven
<1>4. (body[c].mode = "linked") # (body[c].hold = body[c].merchant)
  BY <1>2 DEF Honest
<1>5. body[c].address /\ body[c].mode \in Modes
  BY DEF Honest
<1> QED
  BY <1>3, <1>4, <1>5 DEF EntryCode

\* Its invoice is refused for the channel's size, or for coming late.
LEMMA HonestParsed ==
    ASSUME MinExpiry <= MaxExpiry, NEW c \in Checkouts, Honest(c), now \in Nat
    PROVE  /\ InvoiceCode(body[c]) \in {"ok", "capacity_too_small", "capacity_too_large",
                                        "merchant_invoice_expiry_too_short"}
           /\ InvoiceCode(body[c]) = "merchant_invoice_expiry_too_short" => now > Buffer
<1>1. body[c].invoice = body[c].merchant /\ body[c].net = Forward(body[c].gross)
  BY DEF Honest
<1>2. MinExpiry \in Nat
  BY TermsAssumption DEF MinExpiry
<1>3. ~(MinExpiry > MaxExpiry)
  BY <1>2, TermsAssumption
<1>4. Window(body[c].ask) \in Nat /\ Window(body[c].ask) <= MaxExpiry
  BY TermsAssumption DEF Window, Larger, Smaller, MinExpiry, Honest
<1>5. body[c].until < now + Window(body[c].ask) => now > Buffer
  BY <1>4, TermsAssumption DEF Honest
<1> QED
  BY <1>1, <1>3, <1>5 DEF InvoiceCode

\* A step of another creation, and one of the clock, leave a checkout as it is.
LEMMA StaysFit ==
    ASSUME NEW c \in Checkouts, Fits(c), createAt'[c] = createAt[c],
           body'[c] = body[c], now \in Nat, now' \in Nat, now <= now'
    PROVE  Fits(c)'
<1>1. Honest(c) => Honest(c)'
  BY DEF Honest
<1>2. now > Buffer => now' > Buffer
  BY TermsAssumption
<1> QED
  BY <1>1, <1>2 DEF Fits

\* Neither does a step that takes it to another stage with its request kept.
LEMMA GoesOnFit ==
    ASSUME NEW c \in Checkouts, Honest(c), NEW next \in InLock,
           createAt'[c] = next, body'[c] = body[c]
    PROVE  Fits(c)'
<1>1. Honest(c)'
  BY DEF Honest
<1> QED
  BY <1>1 DEF Fits, InLock, Busy, Misfits

\* A checkout of the SDK fits the LSP's checks, in every step of its own.
LEMMA FitsStep ==
    ASSUME MinExpiry <= MaxExpiry, CreateInv, NEW c \in Checkouts, Fits(c),
           [CreateNext]_createVars
    PROVE  Fits(c)'
<1>f. Functions4 /\ c \in Creations
  BY DEF CreateInv, Creations
<1>n. now \in Nat
  BY <1>f DEF Functions4
<1>1. ASSUME Checkout(c) PROVE Fits(c)'
  <2>1. PICK pinned \in {"any", "linked", "same_hash"}, gross \in Amounts,
             ask \in Asks, size \in Sizes :
          LET mode == SelectMode(pinned)
              merchant == Plain(Secret[c])
          IN  IF mode \notin Modes \/ Net(gross) <= 0
              THEN /\ createAt' = [createAt EXCEPT ![c] = "given up"]
                   /\ UNCHANGED body
              ELSE /\ createAt' = [createAt EXCEPT ![c] = "sent"]
                   /\ body' = [body EXCEPT ![c] =
                        [mode |-> mode, gross |-> gross, net |-> Net(gross),
                         merchant |-> merchant, invoice |-> merchant,
                         hold |-> IF mode = "linked" THEN Derived(Secret[c])
                                  ELSE merchant,
                         proof |-> mode = "linked", address |-> TRUE,
                         ask |-> ask, size |-> size,
                         until |-> now + Larger(ask, MaxExpiry) + Buffer]]
    BY <1>1 DEF Checkout
  <2> DEFINE mode == SelectMode(pinned)
             until == now + Larger(ask, MaxExpiry) + Buffer
  <2>2. CASE mode \notin Modes \/ Net(gross) <= 0
    <3>1. createAt'[c] = "given up"
      BY <1>f, <2>1, <2>2 DEF Functions4
    <3> QED
      BY <3>1 DEF Fits, InLock, Busy, Misfits
  <2>3. CASE mode \in Modes /\ ~(Net(gross) <= 0)
    <3>1. createAt'[c] = "sent"
      BY <1>f, <2>1, <2>3 DEF Functions4
    <3>2. body'[c] = [mode |-> mode, gross |-> gross, net |-> Net(gross),
                      merchant |-> Plain(Secret[c]), invoice |-> Plain(Secret[c]),
                      hold |-> IF mode = "linked" THEN Derived(Secret[c])
                               ELSE Plain(Secret[c]),
                      proof |-> mode = "linked", address |-> TRUE,
                      ask |-> ask, size |-> size, until |-> until]
      BY <1>f, <2>1, <2>3 DEF Functions4
    <3>3. until \in Nat /\ MaxExpiry + Buffer <= until
      BY <1>n, TermsAssumption DEF Larger
    <3>4. Net(gross) \in Int /\ Net(gross) > 0 /\ Net(gross) = Forward(gross)
      BY <2>3, TermsAssumption DEF Net, Forward, JitFee
    <3>5. gross \in Nat /\ ask \in Nat /\ mode \in {"linked", "same_hash"}
      BY <2>3, TermsAssumption DEF Modes
    <3> HIDE DEF mode, until
    <3>6. Honest(c)'
      BY <2>3, <3>2, <3>3, <3>4, <3>5 DEF Honest, Modes
    <3> QED
      BY <3>1, <3>6 DEF Fits, InLock, Busy, Misfits
  <2> QED
    BY <2>2, <2>3
<1>2. ASSUME Create(c) PROVE Fits(c)'
  <2>1. createAt'[c] = "waiting" /\ body'[c] = body[c] /\ createAt[c] = "sent"
    BY <1>2, <1>f DEF Create, Functions4
  <2> QED
    BY <2>1, GoesOnFit DEF Fits, InLock
<1>3. ASSUME NEW code, code \notin {"sent"} \cup InLock \cup Misfits, Refuse(c, code),
             code = "merchant_invoice_expiry_too_short" => now > Buffer, now' = now
      PROVE  Fits(c)'
  <2>1. createAt'[c] = code
    BY <1>3, <1>f DEF Refuse, Answer, Functions4
  <2> QED
    BY <1>3, <2>1 DEF Fits
<1>4. ASSUME NEW next \in InLock, Pass(c, next), createAt[c] \in InLock PROVE Fits(c)'
  <2>1. createAt'[c] = next /\ body'[c] = body[c]
    BY <1>4, <1>f DEF Pass, Functions4
  <2> QED
    BY <1>4, <2>1, GoesOnFit DEF Fits
<1>5. ASSUME Admit(c) PROVE Fits(c)'
  <2>1. createAt[c] \in InLock /\ now' = now
    BY <1>5 DEF Admit, InLock
  <2>2. EntryCode(body[c]) \in {"ok", "amount_too_small"}
    BY <2>1, HonestEnters DEF Fits
  <2>3. CASE EntryCode(body[c]) = "ok"
    BY <1>4, <1>5, <2>1, <2>3 DEF Admit, InLock, Busy
  <2>4. CASE EntryCode(body[c]) = "amount_too_small"
    <3>1. Refuse(c, "amount_too_small")
      BY <1>5, <2>4 DEF Admit
    <3> QED
      BY <1>3, <2>1, <3>1 DEF InLock, Busy, Misfits
  <2> QED
    BY <2>2, <2>3, <2>4
<1>6. ASSUME NoDuplicate(c) PROVE Fits(c)'
  <2>1. createAt[c] \in InLock /\ now' = now
    BY <1>6 DEF NoDuplicate, InLock, Busy
  <2>2. ~(JitFee(body[c].gross) >= body[c].gross)
    <3>1. Honest(c)
      BY <2>1 DEF Fits
    <3>2. JitFee(body[c].gross) \in Int
      BY <3>1, TermsAssumption DEF JitFee, Honest
    <3> QED
      BY <3>1, <3>2 DEF Honest, Forward
  <2>3. Refuse(c, "duplicate_order") \/ Pass(c, "parsing")
    BY <1>6, <2>2 DEF NoDuplicate
  <2>4. CASE Refuse(c, "duplicate_order")
    BY <1>3, <2>1, <2>4 DEF InLock, Busy, Misfits
  <2>5. CASE Pass(c, "parsing")
    BY <1>4, <2>1, <2>5 DEF InLock, Busy
  <2> QED
    BY <2>3, <2>4, <2>5
<1>7. ASSUME Parsed(c) PROVE Fits(c)'
  <2>1. createAt[c] \in InLock /\ now' = now
    BY <1>7 DEF Parsed, InLock, Busy
  <2>2. /\ InvoiceCode(body[c]) \in {"ok", "capacity_too_small", "capacity_too_large",
                                     "merchant_invoice_expiry_too_short"}
        /\ InvoiceCode(body[c]) = "merchant_invoice_expiry_too_short" => now > Buffer
    BY <1>n, <2>1, HonestParsed DEF Fits
  <2>3. CASE InvoiceCode(body[c]) = "ok"
    BY <1>4, <1>7, <2>1, <2>3 DEF Parsed, InLock, Busy
  <2>4. CASE InvoiceCode(body[c]) # "ok"
    <3>1. InvoiceCode(body[c]) \notin {"sent"} \cup InLock \cup Misfits
      BY <2>2, <2>4 DEF InLock, Busy, Misfits
    <3>2. Refuse(c, InvoiceCode(body[c]))
      BY <1>7, <2>4 DEF Parsed
    <3> QED
      BY <1>3, <2>1, <2>2, <3>1, <3>2
  <2> QED
    BY <2>3, <2>4
<1>8. ASSUME Issue(c) PROVE Fits(c)'
  BY <1>4, <1>8 DEF Issue, Pass, InLock, Busy
<1>9. ASSUME RpcFails(c) PROVE Fits(c)'
  BY <1>3, <1>9 DEF RpcFails, InLock, Busy, Misfits
<1>10. ASSUME Put(c) PROVE Fits(c)'
  <2>1. createAt'[c] = "created"
    BY <1>10, <1>f DEF Put, Answer, Functions4
  <2> QED
    BY <2>1 DEF Fits, InLock, Busy, Misfits
<1>11. ASSUME Crash PROVE Fits(c)'
  <2>1. \/ createAt'[c] = "lost"
        \/ createAt'[c] = createAt[c] /\ body'[c] = body[c]
    BY <1>11, <1>f DEF Crash
  <2>2. now' = now
    BY <1>11 DEF Crash
  <2>3. CASE createAt'[c] = "lost"
    BY <2>3 DEF Fits, InLock, Busy, Misfits
  <2> QED
    BY <1>n, <2>1, <2>2, <2>3, StaysFit
<1>12. ASSUME createAt'[c] = createAt[c], body'[c] = body[c],
              now' = now \/ now' = now + 1
       PROVE  Fits(c)'
  BY <1>n, <1>12, StaysFit
<1>13. ASSUME NEW d \in Creations, d # c,
              \/ Checkout(d) \/ Post(d) \/ Create(d) \/ Admit(d) \/ NoDuplicate(d)
              \/ Parsed(d) \/ Issue(d) \/ RpcFails(d) \/ Put(d) \/ OrderEnds(d)
       PROVE  Fits(c)'
  <2>1. now' = now
    BY <1>13 DEF Checkout, Post, Create, Admit, NoDuplicate, Parsed, Issue,
                 RpcFails, Put, OrderEnds
  <2>2. createAt'[c] = createAt[c] /\ body'[c] = body[c]
    <3> USE <1>13, <1>f DEF Functions4, Refuse, Answer, Pass
    <3>1. CASE Checkout(d)
      BY <3>1 DEF Checkout
    <3>2. CASE Post(d)
      BY <3>2 DEF Post
    <3>3. CASE Create(d) \/ Issue(d) \/ OrderEnds(d) \/ Put(d)
      BY <3>3 DEF Create, Issue, OrderEnds, Put
    <3>4. CASE Admit(d) \/ NoDuplicate(d)
      BY <3>4 DEF Admit, NoDuplicate
    <3>5. CASE Parsed(d) \/ RpcFails(d)
      BY <3>5 DEF Parsed, RpcFails
    <3> QED
      BY <3>1, <3>2, <3>3, <3>4, <3>5
  <2> QED
    BY <1>12, <2>1, <2>2
<1>14. ASSUME Post(c) \/ OrderEnds(c) PROVE Fits(c)'
  <2>1. CASE OrderEnds(c)
    BY <1>12, <2>1 DEF OrderEnds
  <2>2. CASE Post(c)
    BY <2>2, RequestsAssumption DEF Post
  <2> QED
    BY <1>14, <2>1, <2>2
<1>15. CASE Tick
  BY <1>12, <1>15 DEF Tick
<1>16. CASE UNCHANGED createVars
  BY <1>12, <1>16 DEF createVars
<1>17. ASSUME NEW d \in Creations,
              \/ Checkout(d) \/ Post(d) \/ Create(d) \/ Admit(d) \/ NoDuplicate(d)
              \/ Parsed(d) \/ Issue(d) \/ RpcFails(d) \/ Put(d) \/ OrderEnds(d)
       PROVE  Fits(c)'
  <2>1. CASE d # c
    BY <1>13, <1>17, <2>1
  <2>2. CASE d = c
    BY <1>1, <1>2, <1>5, <1>6, <1>7, <1>8, <1>9, <1>10, <1>14, <1>17, <2>2
  <2> QED
    BY <2>1, <2>2
<1> QED
  BY <1>11, <1>15, <1>16, <1>17 DEF CreateNext

\* Where the LSP's longest window holds its shortest, what JitCheckout puts
\* together passes every check of createOrder but those on size, on hashes in
\* use, and on a request that arrives later than its buffer allows.
THEOREM CheckoutsFit ==
    ASSUME MinExpiry <= MaxExpiry PROVE CreateSpec => []CheckoutFits
<1> DEFINE AllFit == \A c \in Checkouts : Fits(c)
<1>1. CreateInit => AllFit
  BY DEF CreateInit, Fits, Creations, InLock, Busy, Misfits
<1>2. CreateInv /\ AllFit /\ [CreateNext]_createVars => AllFit'
  BY FitsStep
<1>3. AllFit => CheckoutFits
  BY DEF Fits, CheckoutFits, Misfits
<1> HIDE DEF AllFit
<1> QED
  BY <1>1, <1>2, <1>3, CreateInductive, PTL DEF CreateSpec

-----------------------------------------------------------------------------
(* The opening of a channel                                                 *)

\* When every opener of a merchant holds openLock, each finds the channel it
\* opened itself and cleans up no other, whatever the assets and whatever fails:
\* what comment and code of keyedLock.ts and openChannel.ts rely on.

\* The lock is worth its name: every opener takes it.
AllLocked == Locked = Openers

\* The lock lets one opener work at a time.
OneWorks ==
    \A o, p \in Openers : pc[o] \in Working /\ pc[p] \in Working => o = p

\* An opener has opened nothing before its turn.
Unopened == \A o \in Openers : pc[o] \in {"idle", "snapshot", "open"} => chan[o] = "none"

\* While an opener works on from its snapshot, a channel that is not its own
\* is one the snapshot holds.
SnapshotHolds ==
    \A o \in Openers :
        pc[o] \in Working \ {"snapshot"} => Listed \ {o} \subseteq before[o]

OwnOrphans == \A o \in Openers : todo[o] \subseteq {o}

\* The inductive invariant.
LockInv ==
    /\ TypeOK /\ OneWorks /\ Unopened /\ SnapshotHolds /\ OwnOrphans /\ OwnChannel

-----------------------------------------------------------------------------

\* Nobody has begun.
LEMMA LockInvInit == Init => LockInv
BY TriesAssumption
   DEF Init, LockInv, TypeOK, OneWorks, Unopened, SnapshotHolds, OwnOrphans,
       OwnChannel, Working, Pcs

\* Each step of an opener or of the node keeps the invariant.
LEMMA LockInvStep ==
    ASSUME AllLocked PROVE LockInv /\ [Next]_vars => LockInv'
<1> SUFFICES ASSUME LockInv, [Next]_vars PROVE LockInv'
  OBVIOUS
<1> USE AllLocked, TriesAssumption DEF AllLocked
<1> USE DEF LockInv, TypeOK, Working, Pcs
<1>1. ASSUME NEW o \in Openers, Begin(o) PROVE LockInv'
  <2>1. \A p \in Openers \ {o} : pc[p] \notin Working
    BY <1>1 DEF Begin
  <2> QED
    BY <1>1, <2>1
       DEF Begin, Goto, OneWorks, Unopened, SnapshotHolds, OwnOrphans,
           OwnChannel, Listed
<1>2. ASSUME NEW o \in Openers, Snapshot(o) PROVE LockInv'
  <2> USE <1>2 DEF Snapshot, Goto
  <2>1. TypeOK'
    BY DEF Listed
  <2>2. OneWorks' /\ Unopened' /\ OwnOrphans' /\ OwnChannel'
    BY DEF OneWorks, Unopened, OwnOrphans, OwnChannel
  <2>3. ASSUME NEW p \in Openers, pc'[p] \in Working \ {"snapshot"}
        PROVE (Listed \ {p} \subseteq before[p])'
    BY <2>3 DEF OneWorks, SnapshotHolds, Listed
  <2> QED
    BY <2>1, <2>2, <2>3 DEF SnapshotHolds
<1>3. ASSUME NEW o \in Openers, Open(o) PROVE LockInv'
  <2> USE <1>3 DEF Open, Goto
  <2>1. TypeOK'
    OBVIOUS
  <2>2. OneWorks' /\ Unopened' /\ OwnOrphans' /\ OwnChannel'
    BY DEF OneWorks, Unopened, OwnOrphans, OwnChannel
  <2>3. ASSUME NEW p \in Openers, pc'[p] \in Working \ {"snapshot"}
        PROVE (Listed \ {p} \subseteq before[p])'
    <3>1. p = o
      BY <2>3 DEF OneWorks
    <3> QED
      BY <2>3, <3>1 DEF SnapshotHolds, Listed
  <2> QED
    BY <2>1, <2>2, <2>3 DEF SnapshotHolds
<1>4. ASSUME NEW o \in Openers, OpenAgain(o) PROVE LockInv'
  BY <1>4 DEF OpenAgain, OneWorks, Unopened, SnapshotHolds, OwnOrphans,
              OwnChannel, Listed
<1>5. ASSUME NEW o \in Openers, PollFinds(o) PROVE LockInv'
  <2> USE <1>5 DEF PollFinds, Goto
  <2>1. Ours(o) \subseteq {o}
    BY DEF Ours, SnapshotHolds
  <2>2. found' \in [Openers -> SUBSET Openers] /\ OwnChannel'
    BY <2>1 DEF OwnChannel
  <2> QED
    BY <2>2 DEF OneWorks, Unopened, SnapshotHolds, OwnOrphans, Listed
<1>6. ASSUME NEW o \in Openers, PollEnds(o) PROVE LockInv'
  BY <1>6 DEF PollEnds, Goto, OneWorks, Unopened, SnapshotHolds, OwnOrphans,
              OwnChannel, Listed
<1>7. ASSUME NEW o \in Openers, ListOrphans(o) PROVE LockInv'
  <2> USE <1>7 DEF ListOrphans, Goto
  <2>1. Ours(o) \subseteq {o}
    BY DEF Ours, SnapshotHolds
  <2>2. todo' \in [Openers -> SUBSET Openers] /\ OwnOrphans'
    BY <2>1 DEF OwnOrphans
  <2> QED
    BY <2>2 DEF OneWorks, Unopened, SnapshotHolds, OwnChannel, Listed
<1>8. ASSUME NEW o \in Openers, Abandon(o) PROVE LockInv'
  <2> USE <1>8 DEF Abandon, Goto
  <2>1. TypeOK' /\ OneWorks' /\ Unopened' /\ OwnOrphans' /\ OwnChannel'
    BY DEF OneWorks, Unopened, OwnOrphans, OwnChannel
  <2>2. SnapshotHolds'
    BY DEF SnapshotHolds, Listed
  <2> QED
    BY <2>1, <2>2
<1>9. ASSUME NEW o \in Openers, ChannelReady(o) PROVE LockInv'
  <2> USE <1>9 DEF ChannelReady
  <2>1. TypeOK' /\ OneWorks' /\ Unopened' /\ OwnOrphans' /\ OwnChannel'
    BY DEF OneWorks, Unopened, OwnOrphans, OwnChannel
  <2>2. SnapshotHolds'
    BY DEF SnapshotHolds, Listed
  <2> QED
    BY <2>1, <2>2
<1>10. CASE UNCHANGED vars
  BY <1>10 DEF vars, OneWorks, Unopened, SnapshotHolds, OwnOrphans,
               OwnChannel, Listed
<1> HIDE DEF LockInv
<1> QED
  BY <1>1, <1>2, <1>3, <1>4, <1>5, <1>6, <1>7, <1>8, <1>9, <1>10 DEF Next

\* Under the lock, an opener returns no channel but the one it opened.
THEOREM OwnChannelFound == ASSUME AllLocked PROVE Spec => []OwnChannel
<1>1. LockInv => OwnChannel
  BY DEF LockInv
<1> QED
  BY <1>1, AllLocked, LockInvInit, LockInvStep, PTL DEF Spec

\* Under the lock, no opener's channel is lost to the clean-up of another.
THEOREM OthersKept == ASSUME AllLocked PROVE Spec => AbandonsOwn
<1>1. ASSUME LockInv, [Next]_vars
      PROVE [\A c \in Openers :
                chan[c] # "abandoned" /\ chan'[c] = "abandoned"
                => pc[c] = "abandon"]_vars
  <2> SUFFICES ASSUME NEW c \in Openers,
                      chan[c] # "abandoned", chan'[c] = "abandoned"
               PROVE pc[c] = "abandon"
    OBVIOUS
  <2> USE <1>1 DEF LockInv, TypeOK
  <2>1. ASSUME NEW o \in Openers, Abandon(o) PROVE pc[c] = "abandon"
    BY <2>1 DEF Abandon, OwnOrphans
  <2>2. ASSUME NEW o \in Openers,
               \/ Begin(o) \/ Snapshot(o) \/ OpenAgain(o) \/ PollFinds(o)
               \/ PollEnds(o) \/ ListOrphans(o)
        PROVE chan' = chan
    BY <2>2 DEF Begin, Snapshot, OpenAgain, PollFinds, PollEnds, ListOrphans
  <2>3. ASSUME NEW o \in Openers, Open(o) \/ ChannelReady(o)
        PROVE chan'[c] = chan[c] \/ chan'[c] \in {"pending", "ready"}
    BY <2>3 DEF Open, ChannelReady
  <2> QED
    BY <2>1, <2>2, <2>3 DEF Next, vars
<1> QED
  BY <1>1, AllLocked, LockInvInit, LockInvStep, PTL DEF Spec, AbandonsOwn

=============================================================================
