---------------------------- MODULE MerchantAuth ----------------------------
(***************************************************************************)
(* Who may create an order: the packages/auth middleware in front of the   *)
(* API, with its challenge store, invoice verifier, policy store and       *)
(* signed capabilities.                                                    *)
(*                                                                         *)
(* A merchant asks for a challenge, has its node sign an invoice that      *)
(* carries it, trades that for a token and creates orders with the token.  *)
(* A token says what the policy said when it was issued, for ever; what it *)
(* does not say is read while the request waits.  Signatures are external: *)
(* an invoice in `signed' was signed by the node of its payee.             *)
(***************************************************************************)
EXTENDS Integers, FiniteSets

CONSTANTS
    Merchants, Challenges,   \* normalized pubkeys; challenges to be issued
    Reqs,                    \* requests in flight
    Ttl, InvoiceLife,        \* of a challenge, of a signed invoice
    Quotas,                  \* maxChannels; an absent one is more than MaxOpen
    MaxClock, MaxVersions, MaxRestarts, MaxOpen   \* bounds

ASSUME AuthAssumption ==
    /\ Ttl \in Nat /\ InvoiceLife \in Nat /\ MaxVersions \in Nat
    /\ Quotas \subseteq Nat /\ Quotas # {}

VARIABLES
    clock,
    entries,     \* MemoryChallengeStore: challenge -> its key and expiry
    signed,      \* invoices that merchants' nodes signed
    policies,    \* MemoryMerchantPolicyStore
    file,        \* the policies FileMerchantPolicyStore has written
    reqAt, req,  \* where each request is, and what it carries
    tokens,      \* capabilities issued, with the challenge each was traded for
    channels,    \* MerchantQuotaProvider: channels open, by merchant
    restarts,
    drawn,       \* challenges drawn: a nonce never comes twice
    consumed,    \* history: challenge, key and time of each consumption
    acked,       \* history: the newest policy the admin was told is stored
    orders,      \* history: the creates that reached the core
    raced        \* history: merchants with two creates between check and open

authVars == <<clock, entries, signed, policies, file, reqAt, req, tokens,
              channels, restarts, drawn, consumed, acked, orders, raced>>

NoPolicy == [create |-> FALSE, max |-> 0, version |-> 0]
Policies == [create : BOOLEAN, max : Quotas, version : 1 .. MaxVersions]
Free == [kind |-> "none"]

AuthInit ==
    /\ clock = 0
    /\ entries = {} /\ signed = {}
    /\ policies = [m \in Merchants |-> NoPolicy] /\ file = policies
    /\ reqAt = [r \in Reqs |-> "idle"] /\ req = [r \in Reqs |-> Free]
    /\ tokens = {}
    /\ channels = [m \in Merchants |-> 0]
    /\ restarts = 0
    /\ drawn = {} /\ consumed = {} /\ orders = {} /\ raced = {}
    /\ acked = [m \in Merchants |-> 0]

-----------------------------------------------------------------------------
(* Slips: mistakes one could make in the steps below, none of them in the   *)
(* code.                                                                    *)

\* A challenge stays after it was used.
KeepsEntry(e) == entries' = entries

\* The quota is not looked at.
WithinQuotaAny(t) == TRUE

\* The admin is answered before the file is written.
AckAtOnce(m) == acked' = [acked EXCEPT ![m] = policies'[m].version]

-----------------------------------------------------------------------------
(* Challenge and token *)

\* The request is answered and gone.
Done(r) == /\ reqAt' = [reqAt EXCEPT ![r] = "idle"]
           /\ req' = [req EXCEPT ![r] = Free]

\* POST auth/challenge
IssueChallenge(m, c) ==
    /\ c \notin drawn
    /\ drawn' = drawn \cup {c}
    /\ entries' = entries \cup {[challenge |-> c, key |-> m, until |-> clock + Ttl]}
    /\ UNCHANGED <<clock, signed, policies, file, reqAt, req, tokens, channels,
                   restarts, consumed, acked, orders, raced>>

\* A merchant's node signs an invoice with the challenge as its description.
Sign(m, c) ==
    /\ c \in drawn
    /\ \A i \in signed : ~(i.payee = m /\ i.challenge = c)
    /\ signed' = signed \cup
          {[payee |-> m, challenge |-> c, until |-> clock + InvoiceLife]}
    /\ UNCHANGED <<clock, entries, policies, file, reqAt, req, tokens, channels,
                   restarts, drawn, consumed, acked, orders, raced>>

\* POST auth/token: the proof goes to parse_invoice.
PostToken(r) ==
    /\ reqAt[r] = "idle"
    /\ \E i \in signed, m \in Merchants :
          req' = [req EXCEPT ![r] = [kind |-> "token", invoice |-> i, key |-> m]]
    /\ reqAt' = [reqAt EXCEPT ![r] = "parsing"]
    /\ UNCHANGED <<clock, entries, signed, policies, file, tokens, channels,
                   restarts, drawn, consumed, acked, orders, raced>>

\* A challenge that is used, or found expired, is deleted.
Drop(e) == entries' = entries \ {e}

\* consume(pubkey, challenge), in one turn of the event loop.
Consume(r, e) ==
    IF clock > e.until
    THEN Drop(e) /\ Done(r) /\ UNCHANGED consumed
    ELSE IF e.key # req[r].key
    THEN Done(r) /\ UNCHANGED <<entries, consumed>>
    ELSE /\ Drop(e)
         /\ consumed' = consumed \cup
               {[challenge |-> e.challenge, key |-> e.key, by |-> r, time |-> clock]}
         /\ reqAt' = [reqAt EXCEPT ![r] = "verified"] /\ UNCHANGED req

\* The invoice is parsed: payee, expiry, then the challenge.
Readable(r) ==
    /\ reqAt[r] = "parsing"
    /\ LET i == req[r].invoice
           shown == {e \in entries : e.challenge = i.challenge}
       IN  IF i.payee # req[r].key \/ clock >= i.until \/ shown = {}
           THEN Done(r) /\ UNCHANGED <<entries, consumed>>
           ELSE \E e \in shown : Consume(r, e)
    /\ UNCHANGED <<clock, signed, policies, file, tokens, channels, restarts, drawn,
                   acked, orders, raced>>

\* The policy is read and the capability signed.
IssueToken(r) ==
    /\ reqAt[r] = "verified"
    /\ LET p == policies[req[r].key]
       IN  tokens' = IF p = NoPolicy THEN tokens
                     ELSE tokens \cup {[key |-> req[r].key, create |-> p.create,
                             max |-> p.max, challenge |-> req[r].invoice.challenge]}
    /\ Done(r)
    /\ UNCHANGED <<clock, entries, signed, policies, file, channels, restarts, drawn,
                   consumed, acked, orders, raced>>

-----------------------------------------------------------------------------
(* Guarded creates *)

WithinQuota(t) == channels[t.key] < t.max
InScope(t, m) == t.key = m

\* POST orders or jit/orders, with a bearer token and a target.
PostCreate(r) ==
    /\ reqAt[r] = "idle"
    /\ \E t \in tokens, m \in Merchants :
          req' = [req EXCEPT ![r] = [kind |-> "create", token |-> t, target |-> m]]
    /\ reqAt' = [reqAt EXCEPT ![r] = "asked"]
    /\ UNCHANGED <<clock, entries, signed, policies, file, tokens, channels,
                   restarts, drawn, consumed, acked, orders, raced>>

\* authorize(orders:create), and the quota.
Permit(r) ==
    /\ reqAt[r] = "asked"
    /\ IF req[r].token.create /\ WithinQuota(req[r].token)
       THEN reqAt' = [reqAt EXCEPT ![r] = "permitted"] /\ UNCHANGED req
       ELSE Done(r)
    /\ UNCHANGED <<clock, entries, signed, policies, file, tokens, channels,
                   restarts, drawn, consumed, acked, orders, raced>>

\* authorize(merchant:act-as:target), and the quota again; then the core.
Scope(r) ==
    /\ reqAt[r] = "permitted"
    /\ IF InScope(req[r].token, req[r].target) /\ WithinQuota(req[r].token)
       THEN /\ reqAt' = [reqAt EXCEPT ![r] = "opening"] /\ UNCHANGED req
            /\ orders' = orders \cup {[token |-> req[r].token, target |-> req[r].target]}
            /\ raced' = raced \cup
                  {m \in {req[r].target} : \E q \in Reqs \ {r} :
                      reqAt[q] = "opening" /\ req[q].target = m}
       ELSE Done(r) /\ UNCHANGED <<orders, raced>>
    /\ UNCHANGED <<clock, entries, signed, policies, file, tokens, channels,
                   restarts, drawn, consumed, acked>>

\* The order ends, with a channel or without.
Provisioned(r) ==
    /\ reqAt[r] = "opening"
    /\ \/ UNCHANGED channels
       \/ /\ channels[req[r].target] < MaxOpen
          /\ channels' = [channels EXCEPT ![req[r].target] = @ + 1]
    /\ Done(r)
    /\ UNCHANGED <<clock, entries, signed, policies, file, tokens, restarts, drawn,
                   consumed, acked, orders, raced>>

-----------------------------------------------------------------------------
(* Policies *)

NoAck(m) == UNCHANGED acked

\* PUT admin/policies: the memory first, ...
PutPolicy(m) ==
    /\ policies[m].version < MaxVersions
    /\ \E create \in BOOLEAN, max \in Quotas :
          policies' = [policies EXCEPT ![m] =
              [create |-> create, max |-> max, version |-> @.version + 1]]
    /\ NoAck(m)
    /\ UNCHANGED <<clock, entries, signed, file, reqAt, req, tokens, channels,
                   restarts, drawn, consumed, orders, raced>>

\* ... then the whole map, by rename, and the answer.  A write that fails
\* leaves the memory changed and the admin with an error.
Flush(m) ==
    /\ policies[m].version > acked[m]
    /\ file' = policies
    /\ acked' = [acked EXCEPT ![m] = policies[m].version]
    /\ UNCHANGED <<clock, entries, signed, policies, reqAt, req, tokens, channels,
                   restarts, drawn, consumed, orders, raced>>

\* The server starts again: policies from the file, and the orders it had
\* taken, which are stored.
Restart ==
    /\ restarts < MaxRestarts
    /\ restarts' = restarts + 1
    /\ policies' = file
    /\ entries' = {}
    /\ reqAt' = [r \in Reqs |-> IF reqAt[r] = "opening" THEN "opening" ELSE "idle"]
    /\ req' = [r \in Reqs |-> IF reqAt[r] = "opening" THEN req[r] ELSE Free]
    /\ UNCHANGED <<clock, signed, file, tokens, channels, drawn, consumed, acked,
                   orders, raced>>

Through ==
    /\ clock < MaxClock
    /\ clock' = clock + 1
    /\ UNCHANGED <<entries, signed, policies, file, reqAt, req, tokens, channels,
                   restarts, drawn, consumed, acked, orders, raced>>

AuthNext ==
    \/ \E m \in Merchants :
          \/ PutPolicy(m) \/ Flush(m)
          \/ \E c \in Challenges : IssueChallenge(m, c) \/ Sign(m, c)
    \/ \E r \in Reqs :
          \/ PostToken(r) \/ Readable(r) \/ IssueToken(r)
          \/ PostCreate(r) \/ Permit(r) \/ Scope(r) \/ Provisioned(r)
    \/ Restart \/ Through

AuthSpec == AuthInit /\ [][AuthNext]_authVars

-----------------------------------------------------------------------------
(* Properties *)

AuthTypeOK ==
    /\ entries \subseteq [challenge : Challenges, key : Merchants, until : Nat]
    /\ signed \subseteq [payee : Merchants, challenge : Challenges, until : Nat]
    /\ policies \in [Merchants -> Policies \cup {NoPolicy}]
    /\ tokens \subseteq [key : Merchants, create : BOOLEAN, max : Quotas,
                         challenge : Challenges]
    /\ reqAt \in [Reqs -> {"idle", "parsing", "verified", "asked", "permitted", "opening"}]

\* One challenge is worth one token, for the merchant whose node signed it,
\* however many requests present its invoice at once (consume's delete, in the
\* turn of its check).
OneTokenPerChallenge ==
    /\ \A u, v \in consumed : u.challenge = v.challenge => u = v
    /\ \A s, t \in tokens : s.challenge = t.challenge => s = t
    /\ \A t \in tokens :
          /\ \E u \in consumed : u.challenge = t.challenge /\ u.key = t.key
          /\ \E i \in signed : i.challenge = t.challenge /\ i.payee = t.key

\* Only the merchant of a token, and only with the permission, has orders
\* created for it (the two authorize calls of the middleware).
OwnOrdersOnly == \A o \in orders : o.token.key = o.target /\ o.token.create

\* A merchant has no more channels than a token of its own allows, unless two
\* of its creates overlapped: the quota is read before the channel exists.
QuotaKept ==
    \A m \in Merchants \ raced :
        channels[m] = 0 \/ \E t \in tokens : t.key = m /\ channels[m] <= t.max

\* A policy the admin was told is stored is on file, so a restart keeps it.
AckedPolicyKept == \A m \in Merchants : acked[m] <= file[m].version

=============================================================================
