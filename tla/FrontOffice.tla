----------------------------- MODULE FrontOffice -----------------------------
(***************************************************************************)
(* The components users and merchants meet directly: accounts, teams,      *)
(* wallets and their transfers, the rate limiter, payments through the     *)
(* contract, payment links, merchants, logins and the audit log.  They     *)
(* share the server's request handlers and nothing else.                   *)
(***************************************************************************)
EXTENDS Accounts, Teams, Transfers, Throttling, ContractPayments, PaymentLinks, Merchants, SignIn,
        AuditTrail

vars == <<handlerVars, accountVars, teamVars, transferVars, throttleVars, contractVars,
          linkVars, merchantVars, signInVars, auditVars>>

Init ==
    /\ HandlersInit
    /\ IF calls.accounts > 0 THEN AccountInit ELSE AccountIdle
    /\ IF calls.teams > 0 THEN TeamInit ELSE TeamIdle
    /\ IF calls.transfers > 0 THEN TransferInit ELSE TransferIdle
    /\ IF calls.throttling > 0 THEN ThrottleInit ELSE ThrottleIdle
    /\ IF calls.contract > 0 THEN ContractInit ELSE ContractIdle
    /\ LinkInit
    /\ IF calls.merchants > 0 THEN MerchantInit ELSE MerchantIdle
    /\ IF calls.signin > 0 THEN SignInInit ELSE SignInIdle
    /\ IF calls.audit > 0 THEN AuditInit ELSE AuditIdle

\* A step of one component, or an await of it that fails, leaves the others alone.  Only
\* a busy component steps: the time of an idle one stands still.
AccountStep ==
    /\ Busy("accounts", AccountSteps)
    /\ AccountNext \/ \E q \in Requests : AccountInterrupted(q)
    /\ UNCHANGED <<teamVars, transferVars, throttleVars, contractVars, linkVars, merchantVars,
                   signInVars, auditVars>>

TeamStep ==
    /\ Busy("teams", TeamSteps) \/ Busy("defaults", TeamSteps)
    /\ TeamNext \/ \E q \in Requests : TeamInterrupted(q)
    /\ UNCHANGED <<accountVars, transferVars, throttleVars, contractVars, linkVars, merchantVars,
                   signInVars, auditVars>>

TransferStep ==
    /\ Busy("transfers", TransferSteps)
    /\ TransferNext \/ \E q \in Requests : TransferInterrupted(q)
    /\ UNCHANGED <<accountVars, teamVars, throttleVars, contractVars, linkVars, merchantVars,
                   signInVars, auditVars>>

ThrottleStep ==
    /\ Busy("throttling", ThrottleSteps)
    /\ ThrottleNext \/ \E q \in Requests : ThrottleInterrupted(q)
    /\ UNCHANGED <<accountVars, teamVars, transferVars, contractVars, linkVars, merchantVars,
                   signInVars, auditVars>>

ContractStep ==
    /\ Busy("contract", ContractSteps)
    /\ ContractNext \/ \E q \in Requests : ContractInterrupted(q)
    /\ UNCHANGED <<accountVars, teamVars, transferVars, throttleVars, linkVars, merchantVars,
                   signInVars, auditVars>>

LinkStep ==
    /\ Busy("links", LinkSteps)
    /\ LinkNext \/ \E q \in Requests : LinkInterrupted(q)
    /\ UNCHANGED <<accountVars, teamVars, transferVars, throttleVars, contractVars, merchantVars,
                   signInVars, auditVars>>

MerchantStep ==
    /\ Busy("merchants", MerchantSteps)
    /\ MerchantNext \/ \E q \in Requests : MerchantInterrupted(q)
    /\ UNCHANGED <<accountVars, teamVars, transferVars, throttleVars, contractVars, linkVars,
                   signInVars, auditVars>>

SignInStep ==
    /\ Busy("signin", SignInSteps)
    /\ SignInNext \/ \E q \in Requests : SignInInterrupted(q)
    /\ UNCHANGED <<accountVars, teamVars, transferVars, throttleVars, contractVars, linkVars,
                   merchantVars, auditVars>>

AuditStep ==
    /\ Busy("audit", AuditSteps)
    /\ AuditNext \/ \E q \in Requests : AuditInterrupted(q)
    /\ UNCHANGED <<accountVars, teamVars, transferVars, throttleVars, contractVars, linkVars,
                   merchantVars, signInVars>>

Next ==
    \/ AccountStep
    \/ TeamStep
    \/ TransferStep
    \/ ThrottleStep
    \/ ContractStep
    \/ LinkStep
    \/ MerchantStep
    \/ SignInStep
    \/ AuditStep

Spec == Init /\ [][Next]_vars

TypeOK ==
    /\ pc \in [Requests -> {"idle"} \cup AccountSteps \cup TeamSteps \cup TransferSteps
                              \cup ThrottleSteps \cup ContractSteps \cup LinkSteps \cup MerchantSteps
                              \cup SignInSteps \cup AuditSteps]
    /\ AccountTypeOK
    /\ TeamTypeOK
    /\ TransferTypeOK
    /\ ThrottleTypeOK
    /\ ContractTypeOK
    /\ LinkTypeOK
    /\ MerchantTypeOK
    /\ SignInTypeOK
    /\ AuditTypeOK
==============================================================================
