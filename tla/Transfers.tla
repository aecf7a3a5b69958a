----------------------------- MODULE Transfers ------------------------------
(***************************************************************************)
(* Custodial wallets, the payments they send and the synchronisation with  *)
(* the network: src/src/services/WalletService.ts, StellarService.ts and   *)
(* src/src/controllers/walletController.ts.                                *)
(***************************************************************************)
EXTENDS Handlers

CONSTANTS
    Holders,     \* users with a wallet, or about to have one
    Hashes       \* bound: the transactions the network can take

ASSUME TransferAssumption == None \notin Holders \cup Hashes

VARIABLES
    purses,      \* table wallets, by user
    transfers,   \* table transactions: a sequence of [status, hash]
    ledger,      \* external: the wallet of each transaction on the network
    recordOf,    \* history: the row sendPayment had saved for a transaction
    blurred      \* history: transactions whose outcome a request lost, or two recorded at once

transferVars == <<purses, transfers, ledger, recordOf, blurred>>
transferTables == <<purses, transfers, ledger, recordOf>>

Purse == [status: {"ACTIVE", "INACTIVE", "NEEDS_VERIFICATION"}, isVerified: BOOLEAN, notify: BOOLEAN]
SyncSteps == {"findTransfer", "insertTransfer"}
SavingSteps == {"saveSuccess", "saveFailed"}
TransferSteps == SyncSteps \cup SavingSteps \cup
    {"findPurse", "insertPurse", "findSender", "savePending", "loadAccount", "submitPayment",
     "savePurse", "fetchLedger"}

Sent == {h \in Hashes : ledger[h] # None}
Opened == {u \in Holders : purses[u] # None}
RowsOf(h) == {i \in DOMAIN transfers : transfers[i].hash = h}

TransferTypeOK ==
    /\ purses \in [Holders -> Purse \cup {None}]
    /\ \A i \in DOMAIN transfers :
          transfers[i] \in [status: {"pending", "success", "failed"}, hash: Hashes \cup {None}]
    /\ ledger \in [Hashes -> Holders \cup {None}]

\* Before the calls a wallet is missing, waits to be verified, or is active.
TransferInit ==
    /\ \E st \in {"ACTIVE", "NEEDS_VERIFICATION", "none"} : purses = [u \in Holders |->
          IF st = "none" THEN None ELSE [status |-> st, isVerified |-> FALSE, notify |-> TRUE]]
    /\ transfers = <<>>
    /\ ledger = [h \in Hashes |-> None]
    /\ recordOf = [h \in Hashes |-> None]
    /\ blurred = {}

TransferIdle ==
    /\ purses = [u \in Holders |-> None]
    /\ transfers = <<>>
    /\ ledger = [h \in Hashes |-> None]
    /\ recordOf = [h \in Hashes |-> None]
    /\ blurred = {}

------------------------------------------------------------------------------
\* getWallet opens a wallet for a user who has none; the index on userId refuses a
\* second one.
GetWallet(q) ==
    /\ \E u \in Holders \ Opened : Receive(q, "transfers", "findPurse", [user |-> u])

FindPurse(q) ==
    /\ At(q, "findPurse")
    /\ \/ mem[q].user \notin Opened /\ Goto(q, "insertPurse", mem[q])
       \/ mem[q].user \in Opened /\ Answer(q)

CreateWallet(q) ==
    LET u == mem[q].user IN
    /\ At(q, "insertPurse")
    /\ purses' = IF u \in Opened THEN purses
          ELSE [purses EXCEPT ![u] = [status |-> "INACTIVE", isVerified |-> FALSE, notify |-> TRUE]]
    /\ Answer(q)

\* activateWallet, verifyWallet and updateWalletSettings change a column of the row
\* they read and save it whole.
Activated(row) == [row EXCEPT !.status = "ACTIVE"]
Verified(row) ==
    [row EXCEPT !.isVerified = TRUE,
                !.status = IF @ = "NEEDS_VERIFICATION" THEN "ACTIVE" ELSE @]
Configured(row) == [row EXCEPT !.notify = FALSE]

PostActivate(q) ==
    /\ \E u \in Opened : Receive(q, "transfers", "savePurse",
          [user |-> u, row |-> Activated(purses[u])])
PostVerify(q) ==
    /\ \E u \in Opened : Receive(q, "transfers", "savePurse",
          [user |-> u, row |-> Verified(purses[u])])
PutSettings(q) ==
    /\ \E u \in Opened : Receive(q, "transfers", "savePurse",
          [user |-> u, row |-> Configured(purses[u])])

SavePurse(q) ==
    /\ At(q, "savePurse")
    /\ purses' = [purses EXCEPT ![mem[q].user] = mem[q].row]
    /\ Answer(q)

------------------------------------------------------------------------------
\* sendPayment: a pending row, the submission, and the row again with its outcome.
PostPayment(q) ==
    /\ \E u \in Opened : Receive(q, "transfers", "findSender", [user |-> u])

FindSender(q) ==
    LET active == purses[mem[q].user].status = "ACTIVE" IN
    /\ At(q, "findSender")
    /\ \/ active /\ Goto(q, "savePending", mem[q])
       \/ ~active /\ Answer(q)

SavePending(q) ==
    /\ At(q, "savePending")
    /\ transfers' = Append(transfers, [status |-> "pending", hash |-> None])
    /\ Goto(q, "loadAccount", [user |-> mem[q].user, row |-> Len(transfers) + 1])

\* The account's sequence number is the number of its transactions.
Sequence(u) == Cardinality({h \in Sent : ledger[h] = u})

\* A row is saved as failed when the account cannot be loaded; so it is when the network
\* refuses the transaction, or its answer is lost.
Fails(q, h) ==
    Goto(q, "saveFailed", [user |-> mem[q].user, row |-> mem[q].row, hash |-> None, sent |-> h])

LoadAccount(q) ==
    /\ At(q, "loadAccount")
    /\ \/ Goto(q, "submitPayment",
             [user |-> mem[q].user, row |-> mem[q].row, sequence |-> Sequence(mem[q].user)])
       \/ Failing /\ Fails(q, None)

\* Only a transaction with the next sequence number is executed.
SubmitPayment(q) ==
    LET next == mem[q].sequence = Sequence(mem[q].user) IN
    /\ At(q, "submitPayment")
    /\ \/ /\ ~next \/ Failing
          /\ Fails(q, None)
          /\ UNCHANGED <<ledger, recordOf>>
       \/ /\ next
          /\ \E h \in Hashes \ Sent :
                /\ ledger' = [ledger EXCEPT ![h] = mem[q].user]
                /\ recordOf' = [recordOf EXCEPT ![h] = mem[q].row]
                /\ \/ Goto(q, "saveSuccess",
                         [user |-> mem[q].user, row |-> mem[q].row, hash |-> h, sent |-> h])
                   \/ Failing /\ Fails(q, h)

Outcome(q, st) == [transfers EXCEPT ![mem[q].row] = [status |-> st, hash |-> mem[q].hash]]

SaveSuccess(q) ==
    /\ At(q, "saveSuccess")
    /\ transfers' = Outcome(q, "success")
    /\ Answer(q)

\* The save of the success is inside the try: if it throws, the row is saved as failed,
\* with the hash it has by now.
SaveSuccessFails(q) ==
    /\ At(q, "saveSuccess")
    /\ Failing
    /\ Goto(q, "saveFailed", mem[q])

\* Variant for testing the properties: the success of a payment is saved although its
\* answer was lost.
SaveFailedAsSuccess(q) ==
    /\ At(q, "saveFailed")
    /\ transfers' = Outcome(q, "success")
    /\ Answer(q)

SaveFailed(q) ==
    /\ At(q, "saveFailed")
    /\ transfers' = Outcome(q, "failed")
    /\ Answer(q)

------------------------------------------------------------------------------
\* syncTransactionsFromBlockchain: every transaction of the account that no row has is
\* added, one after the other.
PostSync(q) ==
    /\ \E u \in Opened : Receive(q, "transfers", "fetchLedger", [user |-> u])

Continue(q, left) ==
    IF left = {} THEN Answer(q) ELSE Goto(q, "findTransfer", [user |-> mem[q].user, left |-> left])

FetchLedger(q) ==
    /\ At(q, "fetchLedger")
    /\ Continue(q, {h \in Sent : ledger[h] = mem[q].user})

FindTransfer(q) ==
    /\ At(q, "findTransfer")
    /\ \E h \in mem[q].left :
          \/ RowsOf(h) # {} /\ Continue(q, mem[q].left \ {h})
          \/ /\ RowsOf(h) = {}
             /\ Goto(q, "insertTransfer", [user |-> mem[q].user, left |-> mem[q].left, hash |-> h])

InsertTransfer(q) ==
    /\ At(q, "insertTransfer")
    /\ transfers' = Append(transfers, [status |-> "success", hash |-> mem[q].hash])
    /\ Continue(q, mem[q].left \ {mem[q].hash})

------------------------------------------------------------------------------
\* The transactions a request is recording.
Recording(q) ==
    IF pc'[q] \in SyncSteps THEN mem'[q].left
    ELSE IF pc'[q] \in SavingSteps THEN {mem'[q].sent} \ {None} ELSE {}

TransferHistory ==
    blurred' = blurred
       \cup InBoth(Recording)
       \cup UNION {Recording(q) : q \in {r \in Requests : pc'[r] = "saveFailed"}}

TransferReads(q) ==
    /\ \/ GetWallet(q) \/ FindPurse(q)
       \/ PostActivate(q) \/ PostVerify(q) \/ PutSettings(q)
       \/ PostPayment(q) \/ FindSender(q) \/ LoadAccount(q) \/ SaveSuccessFails(q)
       \/ PostSync(q) \/ FetchLedger(q) \/ FindTransfer(q)
    /\ UNCHANGED transferTables

TransferWrites(q) ==
    \/ (CreateWallet(q) \/ SavePurse(q)) /\ UNCHANGED <<transfers, ledger, recordOf>>
    \/ /\ SavePending(q) \/ SaveSuccess(q) \/ SaveFailed(q) \/ InsertTransfer(q)
       /\ UNCHANGED <<purses, ledger, recordOf>>
    \/ SubmitPayment(q) /\ UNCHANGED <<purses, transfers>>

TransferNext ==
    /\ \E q \in Requests : TransferReads(q) \/ TransferWrites(q)
    /\ TransferHistory

TransferInterrupted(q) ==
    /\ pc[q] \in TransferSteps
    /\ Interrupted(q)
    /\ blurred' = IF pc[q] \in SavingSteps THEN blurred \cup ({mem[q].sent} \ {None}) ELSE blurred
    /\ UNCHANGED transferTables

------------------------------------------------------------------------------
\* The rows and the network agree on every transaction.  A row with a hash is one of a
\* transaction that was executed; a transaction has one row, which says so, as soon as
\* its request has recorded it.  A second row, a missing one, or one that says failed
\* comes from an answer or a save that was lost, or from a synchronisation that ran
\* while another request was recording the same transaction (WalletService.ts lines 231
\* to 282 and 370 to 412).
RowsMatchLedger ==
    /\ \A i \in DOMAIN transfers : LET row == transfers[i] IN
          /\ row.hash # None => row.hash \in Sent
          /\ row.status = "success" => row.hash # None
    /\ \A h \in Sent \ blurred :
          \/ \E q \in Requests : pc[q] \in SavingSteps /\ mem[q].sent = h
          \/ \E i \in DOMAIN transfers :
                /\ RowsOf(h) = {i}
                /\ i = recordOf[h]
                /\ transfers[i].status = "success"
==============================================================================
