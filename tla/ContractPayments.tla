-------------------------- MODULE ContractPayments --------------------------
(***************************************************************************)
(* The payment contract: merchants and tokens registered with it, and the  *)
(* signed orders it pays (src/src/services/StellarContractService.ts,      *)
(* src/src/controllers/StellarContractController.ts).  Every call loads    *)
(* the contract's account first and submits with its sequence number; what *)
(* the server remembers, the nonces of paid orders included, is in Redis.  *)
(***************************************************************************)
EXTENDS Handlers

CONSTANTS
    Shops,       \* merchants' addresses
    Tokens,      \* tokens' addresses
    Orders,      \* payment orders: an order stands for its merchant and nonce
    ShopOf,      \* the merchant of an order
    TokenOf,     \* its token
    ExpiryOf,    \* the last day on which it may be paid
    LastDay      \* bound: the last day

ASSUME ContractAssumption ==
    /\ ExpiryOf \in [Orders -> Nat]
    /\ LastDay \in Nat
    /\ None \notin Nat

VARIABLES
    sequence,    \* external: the account's sequence number
    onChain,     \* external: what the contract holds: shops, their tokens, payments of orders
    registry,    \* Redis: merchant:<address> and merchant:<address>:tokens
    nonces,      \* Redis: nonce:<merchant>:<nonce>, kept for a day
    today,       \* the clock
    paidOn,      \* history: the day on which an order was paid first
    unrecorded   \* history: orders whose nonce was missing, or late, after a payment

contractVars == <<sequence, onChain, registry, nonces, today, paidOn, unrecorded>>
contractTables == <<sequence, onChain, registry, nonces, today>>

ContractSteps ==
    {"initializeContract", "submitShop", "cacheShop", "submitToken", "cacheToken",
     "checkNonce", "checkShop", "submitOrder", "storeNonce"}

ContractTypeOK ==
    /\ sequence \in Nat
    /\ onChain \in [shops: SUBSET Shops, tokens: SUBSET (Shops \X Tokens), paid: [Orders -> Nat]]
    /\ registry \in [shops: SUBSET Shops, tokens: SUBSET (Shops \X Tokens)]
    /\ nonces \subseteq Orders
    /\ today \in 0 .. LastDay

ContractStart(shops) ==
    /\ sequence = 0
    /\ onChain = [shops |-> shops, tokens |-> shops \X Tokens, paid |-> [o \in Orders |-> 0]]
    /\ registry = [shops |-> shops, tokens |-> shops \X Tokens]
    /\ nonces = {}
    /\ today = 0
    /\ paidOn = [o \in Orders |-> None]
    /\ unrecorded = {}

ContractInit == ContractStart({}) \/ ContractStart(Shops)
ContractIdle == ContractStart({})

------------------------------------------------------------------------------
\* Every operation begins with the account.  An order whose date has passed is refused
\* before.
PostShop(q) ==
    /\ \E s \in Shops : Receive(q, "contract", "initializeContract",
          [shop |-> s, account |-> None, then |-> "submitShop"])

PostToken(q) ==
    /\ \E s \in Shops, t \in Tokens : Receive(q, "contract", "initializeContract",
          [shop |-> s, token |-> t, account |-> None, then |-> "submitToken"])

PostOrder(q) ==
    /\ \E o \in Orders, signed \in BOOLEAN :
          /\ ExpiryOf[o] >= today
          /\ Receive(q, "contract", "initializeContract",
                [order |-> o, signed |-> signed, account |-> None, then |-> "checkNonce"])

InitializeContract(q) ==
    /\ At(q, "initializeContract")
    /\ Goto(q, mem[q].then, [mem[q] EXCEPT !.account = sequence])

\* The transaction of q: it has the next sequence number and enters the ledger, where the
\* contract executes it or refuses it; or it does not enter the ledger.  The caller of a
\* transaction that was executed goes on at step then, unless its answer is lost.
Enters(q) == mem[q].account = sequence
Executed(q, then) ==
    /\ Enters(q)
    /\ sequence' = sequence + 1
    /\ Goto(q, then, mem[q]) \/ (Failing /\ Answer(q))
Refused(q) ==
    /\ \/ Enters(q) /\ sequence' = sequence + 1
       \/ (Failing \/ ~Enters(q)) /\ UNCHANGED sequence
    /\ Answer(q)
    /\ UNCHANGED <<onChain, paidOn>>

\* registerMerchant and addSupportedToken: the contract, then Redis.
RegisterMerchant(q) ==
    /\ At(q, "submitShop")
    /\ \/ Refused(q)
       \/ /\ mem[q].shop \notin onChain.shops
          /\ Executed(q, "cacheShop")
          /\ onChain' = [onChain EXCEPT !.shops = @ \cup {mem[q].shop}]
          /\ UNCHANGED paidOn

CacheShop(q) ==
    /\ At(q, "cacheShop")
    /\ registry' = [registry EXCEPT !.shops = @ \cup {mem[q].shop}]
    /\ Answer(q)

AddSupportedToken(q) ==
    /\ At(q, "submitToken")
    /\ \/ Refused(q)
       \/ /\ Executed(q, "cacheToken")
          /\ onChain' = [onChain EXCEPT !.tokens = @ \cup {<<mem[q].shop, mem[q].token>>}]
          /\ UNCHANGED paidOn

CacheToken(q) ==
    /\ At(q, "cacheToken")
    /\ registry' = [registry EXCEPT !.tokens = @ \cup {<<mem[q].shop, mem[q].token>>}]
    /\ Answer(q)

------------------------------------------------------------------------------
\* processPayment: the signature and the nonce, the merchant and its token, the
\* submission, and the nonce again.
CheckNonce(q) ==
    LET fresh == mem[q].signed /\ mem[q].order \notin nonces IN
    /\ At(q, "checkNonce")
    /\ \/ fresh /\ Goto(q, "checkShop", mem[q])
       \/ ~fresh /\ Answer(q)

CheckShop(q) ==
    LET o == mem[q].order
        known == ShopOf[o] \in registry.shops /\ <<ShopOf[o], TokenOf[o]>> \in registry.tokens IN
    /\ At(q, "checkShop")
    /\ \/ known /\ Goto(q, "submitOrder", mem[q])
       \/ ~known /\ Answer(q)

PayOrder(q) ==
    LET o == mem[q].order IN
    /\ Executed(q, "storeNonce")
    /\ onChain' = [onChain EXCEPT !.paid[o] = @ + 1]
    /\ paidOn' = [paidOn EXCEPT ![o] = IF @ = None THEN today ELSE @]

\* Variant for testing the properties: the account is loaded when the transaction is built.
ProcessPaymentLate(q) ==
    LET o == mem[q].order IN
    /\ At(q, "submitOrder")
    /\ sequence' = sequence + 1
    /\ Goto(q, "storeNonce", mem[q])
    /\ onChain' = [onChain EXCEPT !.paid[o] = @ + 1]
    /\ paidOn' = [paidOn EXCEPT ![o] = IF @ = None THEN today ELSE @]

ProcessPayment(q) ==
    /\ At(q, "submitOrder")
    /\ Refused(q) \/ PayOrder(q)

StoreNonce(q) ==
    /\ At(q, "storeNonce")
    /\ nonces' = nonces \cup {mem[q].order}
    /\ Answer(q)

\* The next day; Redis has forgotten the nonces.  No request takes a day.
NextDay ==
    /\ today < LastDay
    /\ \A q \in Requests : At(q, "idle")
    /\ today' = today + 1
    /\ nonces' = {}
    /\ UNCHANGED <<handlerVars, sequence, onChain, registry, paidOn>>

------------------------------------------------------------------------------
\* An order's nonce is late for a request that looks it up before it is stored, and missing
\* once the request that paid the order has ended without storing it.
Late(q, r) ==
    /\ pc[q] = "storeNonce" /\ pc[r] = "checkNonce" /\ pc'[r] = "checkShop"
    /\ mem[q].order = mem[r].order
Missing(q) ==
    /\ pc'[q] = "idle"
    /\ \/ pc[q] = "submitOrder" /\ onChain' # onChain
       \/ pc[q] = "storeNonce" /\ nonces' = nonces /\ mem[q].order \notin nonces
ContractHistory ==
    unrecorded' = unrecorded \cup {mem[q].order : q \in {p \in Requests :
                     Missing(p) \/ \E r \in Requests : Late(p, r)}}

ContractReads(q) ==
    /\ PostShop(q) \/ PostToken(q) \/ PostOrder(q) \/ InitializeContract(q)
          \/ CheckNonce(q) \/ CheckShop(q)
    /\ UNCHANGED <<contractTables, paidOn>>

ContractWrites(q) ==
    \/ /\ RegisterMerchant(q) \/ AddSupportedToken(q) \/ ProcessPayment(q)
       /\ UNCHANGED <<registry, nonces, today>>
    \/ /\ CacheShop(q) \/ CacheToken(q)
       /\ UNCHANGED <<sequence, onChain, nonces, today, paidOn>>
    \/ StoreNonce(q) /\ UNCHANGED <<sequence, onChain, registry, today, paidOn>>

ContractNext ==
    /\ \/ \E q \in Requests : ContractReads(q) \/ ContractWrites(q)
       \/ calls.contract > 0 /\ NextDay
    /\ ContractHistory

ContractInterrupted(q) ==
    /\ pc[q] \in ContractSteps
    /\ Interrupted(q)
    /\ UNCHANGED <<contractTables, paidOn>>
    /\ ContractHistory

------------------------------------------------------------------------------
\* An order is paid once, however many requests carry it and however they interleave:
\* the account is loaded before the nonce is looked up, so that of two requests that found
\* the nonce unused only one has a sequence number the network takes.  The exceptions are
\* a nonce that was looked up between the payment and its storage or was not stored at
\* all, and an order that may still be paid when its nonce is forgotten
\* (StellarContractService.ts lines 237 to 310).
OrdersPaidOnce ==
    \A o \in Orders : onChain.paid[o] > 1 => o \in unrecorded \/ ExpiryOf[o] > paidOn[o]
==============================================================================
