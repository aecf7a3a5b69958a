------------------------------ MODULE Accounts ------------------------------
(***************************************************************************)
(* Users, their sessions, and the verification of their e-mail addresses   *)
(* and wallets: UserService.ts, session.service.ts,                        *)
(* emailVerification.service.ts and wallet-verification.service.ts under   *)
(* src/src/services, with their controllers.  save() writes the whole row  *)
(* as it was read, and inserts it again if it was deleted.                 *)
(***************************************************************************)
EXTENDS Handlers

CONSTANTS
    People,      \* ids of users; the database gives none twice
    Owner,       \* the user there is to begin with
    Addresses,   \* e-mail addresses
    Wallets,     \* addresses of wallets
    UserBodies,  \* bound: what a request may write over the row of a user
    MailIds,     \* rows of email_verification
    ProofIds,    \* rows of wallet_verification
    SessionIds   \* tokens of sessions

VARIABLES
    accounts,    \* table users
    profiles,    \* Redis: answers to GET /users/:id, by URL, for ten minutes
    mails,       \* table email_verification
    proofs,      \* table wallet_verification
    sessions,    \* table session
    born,        \* history: ids of users and sessions given out
    newest,      \* history: the last session created for each user
    confirmed,   \* history: users verifyEmail has saved
    stated,      \* history: the columns that a body set, for each user
    torn,        \* history: users whose row two requests held at once, or one was cut off
    crossed      \* history: users two requests created sessions for at once

accountVars == <<accounts, profiles, mails, proofs, sessions, born, newest, confirmed,
                 stated, torn, crossed>>
accountTables == <<accounts, profiles, mails, proofs, sessions, born, newest, confirmed, stated>>

Account == [email: Addresses, wallet: Wallets \cup {None},
            emailVerified: BOOLEAN, walletVerified: BOOLEAN]
Proof == [user: People, wallet: Wallets, status: {"pending", "verified"}]

\* A row with the defaults of its columns.
NewAccount(e) == [email |-> e, wallet |-> None, emailVerified |-> FALSE, walletVerified |-> FALSE]

\* There is a user with an address to begin with, and a row is not null.
ASSUME AccountAssumption ==
    /\ Owner \in People /\ Addresses # {}
    /\ \A b \in UserBodies, row \in Account : Assigned(row, b) \in Account
    /\ None \notin People \cup Account \cup Proof

\* The steps at which a request holds the row of a user it will save or remove.
HoldingSteps == {"findEmail", "saveAccount", "removeAccount", "saveConfirmed",
                 "checkWallet", "saveVerified", "saveOwner"}
SessionSteps == {"findSession", "deleteSession", "saveSession"}
AccountSteps == HoldingSteps \cup SessionSteps \cup
    {"findNewEmail", "insertAccount", "findAccount", "queryProfile", "cacheProfile", "saveMail",
     "findByEmail", "findMail", "findMailUser", "removeMail", "saveProof", "findProof",
     "deleteExpired"}

Flags == {"emailVerified", "walletVerified"}
Known == {u \in People : accounts[u] # None}
Proving == {p \in ProofIds : proofs[p] # None}
SessionsOf(u) == {s \in SessionIds : sessions[s] # None /\ sessions[s].user = u}
Taken(e, u) == \E v \in Known \ {u} : accounts[v].email = e

AccountTypeOK ==
    /\ accounts \in [People -> Account \cup {None}]
    /\ profiles \in [People -> Account \cup {None}]
    /\ mails \in [MailIds -> [user: People, email: Addresses] \cup {None}]
    /\ proofs \in [ProofIds -> Proof \cup {None}]
    /\ sessions \in [SessionIds -> [user: People, live: BOOLEAN] \cup {None}]

AccountInit ==
    /\ LET e == CHOOSE a \in Addresses : TRUE IN
          /\ accounts = [u \in People |-> IF u = Owner THEN NewAccount(e) ELSE None]
          /\ \E sent \in SUBSET {CHOOSE m \in MailIds : TRUE} : mails = [m \in MailIds |->
                IF m \in sent THEN [user |-> Owner, email |-> e] ELSE None]
    /\ profiles = [u \in People |-> None]
    /\ proofs = [p \in ProofIds |-> None]
    /\ sessions = [s \in SessionIds |-> None]
    /\ born = {Owner}
    /\ newest = [u \in People |-> None]
    /\ confirmed = {}
    /\ stated = {}
    /\ torn = {}
    /\ crossed = {}

AccountIdle ==
    /\ accounts = [u \in People |-> None]
    /\ profiles = [u \in People |-> None]
    /\ mails = [m \in MailIds |-> None]
    /\ proofs = [p \in ProofIds |-> None]
    /\ sessions = [s \in SessionIds |-> None]
    /\ born = {}
    /\ newest = [u \in People |-> None]
    /\ confirmed = {}
    /\ stated = {}
    /\ torn = {}
    /\ crossed = {}

------------------------------------------------------------------------------
\* createUser makes the row from all the body names: no user has the address; the unique index
\* on it refuses a second row.  What a row begins with concerns only its flags.
PostUser(q) ==
    /\ \E e \in Addresses, b \in UserBodies :
          Receive(q, "accounts", "findNewEmail", [row |-> Assigned(NewAccount(e), b), said |-> DOMAIN b])

FindNewEmail(q) ==
    LET taken == Taken(mem[q].row.email, None) IN
    /\ At(q, "findNewEmail")
    /\ \/ ~taken /\ Goto(q, "insertAccount", mem[q])
       \/ taken /\ Answer(q)

CreateUser(q) ==
    LET taken == Taken(mem[q].row.email, None) IN
    /\ At(q, "insertAccount")
    /\ \/ /\ ~taken
          /\ \E u \in People \ born :
                /\ accounts' = [accounts EXCEPT ![u] = mem[q].row]
                /\ born' = born \cup {u}
                /\ stated' = stated \cup ({u} \X (mem[q].said \cap Flags))
       \/ taken /\ UNCHANGED <<accounts, born, stated>>
    /\ Answer(q)
    /\ UNCHANGED <<profiles, mails, proofs, sessions, newest, confirmed>>

\* getUserById answers from the cache, or from the table and fills the cache.  The
\* entry's key is the URL: no update or deletion ever removes it.
GetUser(q) ==
    /\ \E u \in People :
          /\ profiles[u] = None
          /\ Receive(q, "accounts", "queryProfile", [user |-> u])

QueryProfile(q) ==
    LET u == mem[q].user IN
    /\ At(q, "queryProfile")
    /\ \/ u \in Known /\ Goto(q, "cacheProfile", [user |-> u, row |-> accounts[u]])
       \/ u \notin Known /\ Answer(q)

CacheProfile(q) ==
    /\ At(q, "cacheProfile")
    /\ profiles' = [profiles EXCEPT ![mem[q].user] = mem[q].row]
    /\ Answer(q)
    /\ UNCHANGED <<accounts, mails, proofs, sessions, born, newest, confirmed, stated>>

ProfileExpires ==
    /\ \E u \in People :
          /\ profiles[u] # None
          /\ profiles' = [profiles EXCEPT ![u] = None]
    /\ UNCHANGED <<handlerVars, accounts, mails, proofs, sessions, born, newest, confirmed,
                   stated>>

\* updateUser assigns all the body names, which may be a flag: a new address or wallet resets
\* none.  deleteUser reads the row too.
PutUser(q) ==
    /\ \E u \in People :
          \/ \E b \in UserBodies : Receive(q, "accounts", "findAccount", [user |-> u, removes |-> FALSE, body |-> b])
          \/ Receive(q, "accounts", "findAccount", [user |-> u, removes |-> TRUE])

FindAccount(q) ==
    LET u == mem[q].user IN
    /\ At(q, "findAccount")
    /\ \/ u \notin Known /\ Answer(q)
       \/ u \in Known /\ mem[q].removes /\ Goto(q, "removeAccount", [user |-> u])
       \/ /\ u \in Known /\ ~mem[q].removes
          /\ LET row == Assigned(accounts[u], mem[q].body) IN
             Goto(q, IF row.email # accounts[u].email THEN "findEmail" ELSE "saveAccount",
                  [user |-> u, row |-> row, said |-> DOMAIN mem[q].body])

FindEmail(q) ==
    LET taken == Taken(mem[q].row.email, None) IN
    /\ At(q, "findEmail")
    /\ \/ ~taken /\ Goto(q, "saveAccount", mem[q])
       \/ taken /\ Answer(q)

\* save(): refused by the unique index if another user has the address meanwhile.
Save(u, row) == accounts' =
    IF Taken(row.email, u) THEN accounts ELSE [accounts EXCEPT ![u] = row]

UpdateUser(q) ==
    LET u == mem[q].user
        row == mem[q].row IN
    /\ At(q, "saveAccount")
    /\ Save(u, row)
    /\ stated' = IF Taken(row.email, u) THEN stated ELSE stated \cup ({u} \X mem[q].said)
    /\ Answer(q)
    /\ UNCHANGED <<profiles, mails, proofs, sessions, born, newest, confirmed>>

\* remove(): sessions and e-mail verifications go with the user, and the wallet
\* verifications refer to it, so that the database refuses.
DeleteUser(q) ==
    LET u == mem[q].user
        refused == \E p \in Proving : proofs[p].user = u IN
    /\ At(q, "removeAccount")
    /\ \/ refused /\ UNCHANGED <<accounts, mails, sessions>>
       \/ /\ ~refused
          /\ accounts' = [accounts EXCEPT ![u] = None]
          /\ mails' = [m \in MailIds |->
                IF mails[m] # None /\ mails[m].user = u THEN None ELSE mails[m]]
          /\ sessions' = [s \in SessionIds |-> IF s \in SessionsOf(u) THEN None ELSE sessions[s]]
    /\ Answer(q)
    /\ UNCHANGED <<profiles, proofs, born, newest, confirmed, stated>>

------------------------------------------------------------------------------
\* sendVerificationEmail takes the user and the address from the client.
PostMail(q) ==
    /\ \E u \in People, e \in Addresses :
          Receive(q, "accounts", "saveMail", [user |-> u, email |-> e])

PostMailAgain(q) ==
    /\ \E e \in Addresses : Receive(q, "accounts", "findByEmail", [email |-> e])

ResendVerificationEmail(q) ==
    LET S == {u \in Known : accounts[u].email = mem[q].email /\ ~accounts[u].emailVerified} IN
    /\ At(q, "findByEmail")
    /\ \/ \E u \in S : Goto(q, "saveMail", [user |-> u, email |-> mem[q].email])
       \/ S = {} /\ Answer(q)

SendVerificationEmail(q) ==
    /\ At(q, "saveMail")
    /\ \/ /\ mem[q].user \in Known
          /\ \E m \in MailIds : mails[m] = None /\ mails' = [mails EXCEPT ![m] = mem[q]]
       \/ mem[q].user \notin Known /\ UNCHANGED mails
    /\ Answer(q)
    /\ UNCHANGED <<accounts, profiles, proofs, sessions, born, newest, confirmed, stated>>

GetVerifyEmail(q) ==
    /\ \E m \in MailIds : mails[m] # None /\ Receive(q, "accounts", "findMail", [mail |-> m])

\* The entry may be gone, or expired.
FindMail(q) ==
    LET m == mem[q].mail IN
    /\ At(q, "findMail")
    /\ \/ mails[m] # None /\ Goto(q, "findMailUser", [mail |-> m, user |-> mails[m].user])
       \/ Answer(q)

FindMailUser(q) ==
    LET u == mem[q].user IN
    /\ At(q, "findMailUser")
    /\ \/ /\ u \in Known
          /\ Goto(q, "saveConfirmed", [mail |-> mem[q].mail, user |-> u,
                row |-> [accounts[u] EXCEPT !.emailVerified = TRUE]])
       \/ u \notin Known /\ Goto(q, "removeMail", mem[q])

SaveConfirmed(q) ==
    LET u == mem[q].user IN
    /\ At(q, "saveConfirmed")
    /\ Save(u, mem[q].row)
    /\ \/ ~Taken(mem[q].row.email, u) /\ Goto(q, "removeMail", mem[q]) /\ confirmed' = confirmed \cup {u}
       \/ Taken(mem[q].row.email, u) /\ Answer(q) /\ UNCHANGED confirmed
    /\ UNCHANGED <<profiles, mails, proofs, sessions, born, newest, stated>>

VerifyEmail(q) ==
    /\ At(q, "removeMail")
    /\ mails' = [mails EXCEPT ![mem[q].mail] = None]
    /\ Answer(q)
    /\ UNCHANGED <<accounts, profiles, proofs, sessions, born, newest, confirmed, stated>>

------------------------------------------------------------------------------
\* initiateVerification saves a verification before it looks for the user.
PostProof(q) ==
    /\ \E u \in People, w \in Wallets :
          Receive(q, "accounts", "saveProof", [user |-> u, wallet |-> w])

InitiateVerification(q) ==
    /\ At(q, "saveProof")
    /\ \/ /\ mem[q].user \in Known
          /\ \E p \in ProofIds \ Proving : proofs' = [proofs EXCEPT ![p] =
                [user |-> mem[q].user, wallet |-> mem[q].wallet, status |-> "pending"]]
       \/ mem[q].user \notin Known /\ UNCHANGED proofs
    /\ Answer(q)
    /\ UNCHANGED <<accounts, profiles, mails, sessions, born, newest, confirmed, stated>>

PostVerifyWallet(q) ==
    /\ \E p \in Proving : Receive(q, "accounts", "findProof", [proof |-> p])

\* A pending verification, if it has not expired, with the row of its user.
FindProof(q) ==
    LET v == proofs[mem[q].proof] IN
    /\ At(q, "findProof")
    /\ \/ /\ v.status = "pending"
          /\ Goto(q, "checkWallet", [proof |-> mem[q].proof, user |-> v.user, row |-> accounts[v.user]])
       \/ Answer(q)

CheckWallet(q) ==
    /\ At(q, "checkWallet")
    /\ Goto(q, "saveVerified", mem[q]) \/ Answer(q)

SaveVerified(q) ==
    /\ At(q, "saveVerified")
    /\ proofs' = [proofs EXCEPT ![mem[q].proof].status = "verified"]
    /\ Goto(q, "saveOwner", mem[q])
    /\ UNCHANGED <<accounts, profiles, mails, sessions, born, newest, confirmed, stated>>

\* Variant for testing the properties: the user keeps the address of the wallet it had.
VerifyWalletElsewhere(q) ==
    LET u == mem[q].user IN
    /\ At(q, "saveOwner")
    /\ Save(u, [mem[q].row EXCEPT !.walletVerified = TRUE])
    /\ Answer(q)
    /\ UNCHANGED <<profiles, mails, proofs, sessions, born, newest, confirmed, stated>>

VerifyWallet(q) ==
    LET u == mem[q].user IN
    /\ At(q, "saveOwner")
    /\ Save(u, [mem[q].row EXCEPT !.wallet = proofs[mem[q].proof].wallet, !.walletVerified = TRUE])
    /\ Answer(q)
    /\ UNCHANGED <<profiles, mails, proofs, sessions, born, newest, confirmed, stated>>

------------------------------------------------------------------------------
\* createSession: the user, a session it has, its deletion, and the new one.
PostSession(q) ==
    /\ \E u \in Known : Receive(q, "accounts", "findSession", [user |-> u])

FindSession(q) ==
    LET u == mem[q].user IN
    /\ At(q, "findSession")
    /\ \/ \E s \in SessionsOf(u) : Goto(q, "deleteSession", [user |-> u, session |-> s])
       \/ SessionsOf(u) = {} /\ Goto(q, "saveSession", mem[q])

DeleteExisting(q) ==
    /\ At(q, "deleteSession")
    /\ sessions' = [sessions EXCEPT ![mem[q].session] = None]
    /\ Goto(q, "saveSession", [user |-> mem[q].user])
    /\ UNCHANGED <<accounts, profiles, mails, proofs, born, newest, confirmed, stated>>

CreateSession(q) ==
    LET u == mem[q].user IN
    /\ At(q, "saveSession")
    /\ \/ /\ u \in Known
          /\ \E s \in SessionIds \ born :
                /\ sessions' = [sessions EXCEPT ![s] = [user |-> u, live |-> TRUE]]
                /\ newest' = [newest EXCEPT ![u] = s]
                /\ born' = born \cup {s}
       \/ u \notin Known /\ UNCHANGED <<sessions, newest, born>>
    /\ Answer(q)
    /\ UNCHANGED <<accounts, profiles, mails, proofs, confirmed, stated>>

DeleteSession(q) ==
    /\ Serve(q, "accounts")
    /\ \E s \in SessionIds : sessions' = [sessions EXCEPT ![s] = None]
    /\ UNCHANGED <<accounts, profiles, mails, proofs, born, newest, confirmed, stated>>

\* sessionMiddleware finds the session of the token expired, and deletes it.
UseSession(q) ==
    /\ \E s \in SessionIds :
          /\ sessions[s] # None /\ ~sessions[s].live
          /\ Receive(q, "accounts", "deleteExpired", [session |-> s])

DeleteExpired(q) ==
    /\ At(q, "deleteExpired")
    /\ sessions' = [sessions EXCEPT ![mem[q].session] = None]
    /\ Answer(q)
    /\ UNCHANGED <<accounts, profiles, mails, proofs, born, newest, confirmed, stated>>

\* cleanupExpiredSessions, every hour.
CleanupExpiredSessions(q) ==
    /\ Serve(q, "accounts")
    /\ sessions' = [s \in SessionIds |->
          IF sessions[s] # None /\ ~sessions[s].live THEN None ELSE sessions[s]]
    /\ UNCHANGED <<accounts, profiles, mails, proofs, born, newest, confirmed, stated>>

SessionExpires ==
    /\ \E s \in SessionIds :
          /\ sessions[s] # None /\ sessions[s].live
          /\ sessions' = [sessions EXCEPT ![s].live = FALSE]
    /\ UNCHANGED <<handlerVars, accounts, profiles, mails, proofs, born, newest, confirmed,
                   stated>>

------------------------------------------------------------------------------
HoldingRow(q) == IF pc'[q] \in HoldingSteps THEN {mem'[q].user} ELSE {}
LoggingIn(q) == IF pc'[q] \in SessionSteps THEN {mem'[q].user} ELSE {}
AccountHistory ==
    /\ torn' = torn \cup InBoth(HoldingRow)
    /\ crossed' = crossed \cup InBoth(LoggingIn)

AccountReads(q) ==
    /\ \/ PostUser(q) \/ FindNewEmail(q) \/ GetUser(q) \/ QueryProfile(q)
       \/ PutUser(q) \/ FindAccount(q) \/ FindEmail(q)
       \/ PostMail(q) \/ PostMailAgain(q) \/ ResendVerificationEmail(q)
       \/ GetVerifyEmail(q) \/ FindMail(q) \/ FindMailUser(q)
       \/ PostProof(q) \/ PostVerifyWallet(q) \/ FindProof(q) \/ CheckWallet(q)
       \/ PostSession(q) \/ FindSession(q) \/ UseSession(q)
    /\ UNCHANGED accountTables

AccountWrites(q) ==
    \/ CreateUser(q) \/ CacheProfile(q) \/ UpdateUser(q) \/ DeleteUser(q)
    \/ SendVerificationEmail(q) \/ SaveConfirmed(q) \/ VerifyEmail(q)
    \/ InitiateVerification(q) \/ SaveVerified(q) \/ VerifyWallet(q)
    \/ DeleteExisting(q) \/ CreateSession(q) \/ DeleteSession(q) \/ DeleteExpired(q)
    \/ CleanupExpiredSessions(q)

AccountNext ==
    /\ \/ \E q \in Requests : AccountReads(q) \/ AccountWrites(q)
       \/ ProfileExpires \/ SessionExpires
    /\ AccountHistory

AccountInterrupted(q) ==
    /\ pc[q] \in AccountSteps
    /\ Interrupted(q)
    /\ torn' = IF pc[q] = "saveOwner" THEN torn \cup {mem[q].user} ELSE torn
    /\ UNCHANGED <<accountTables, crossed>>

------------------------------------------------------------------------------
\* (Users whom Auth0 vouches for, who are created verified, are in SignIn.)  A user
\* whose row, or whose profile in the cache, says that an address or a wallet is
\* verified went through that verification, and one who did shows it, unless the body of
\* a request said that column: the two rows can disagree only if another request held the
\* user's row at the same time, or the request was cut off between its two saves.  The
\* verified wallet is the one proved, until an update replaces it (UserService.ts lines
\* 33 to 66, emailVerification.service.ts lines 53 to 60, wallet-verification.service.ts
\* lines 63 to 100).
FlagsFollowProof == \A u \in People :
    LET Proved == {p \in Proving : proofs[p].user = u /\ proofs[p].status = "verified"}
        settled == \A q \in Requests : ~(At(q, "saveOwner") /\ mem[q].user = u)
        Stated(c) == <<u, c>> \in stated IN
    /\ \A row \in {accounts[u], profiles[u]} \ {None} :
          /\ row.emailVerified => u \in confirmed \/ Stated("emailVerified")
          /\ row.walletVerified => Proved # {} \/ Stated("walletVerified")
          /\ row.walletVerified => \/ row.wallet \in {proofs[p].wallet : p \in Proved}
                                   \/ Stated("wallet") \/ Stated("walletVerified")
    /\ u \in Known \ torn =>
          /\ u \in confirmed => accounts[u].emailVerified \/ Stated("emailVerified")
          /\ Proved # {} /\ settled => accounts[u].walletVerified \/ Stated("walletVerified")

\* The only session of a user is the last one created for it, unless two logins of that
\* user overlapped (session.service.ts lines 16 to 58).
OneSessionPerUser == \A u \in People \ crossed : SessionsOf(u) \subseteq {newest[u]}

\* What can be relied on of a user: the flags of the row and the only session.
AccountsHold == FlagsFollowProof /\ OneSessionPerUser
==============================================================================
