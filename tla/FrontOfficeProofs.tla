-------------------------- MODULE FrontOfficeProofs ---------------------------
(***************************************************************************)
(* Theorems about FrontOffice, for any number of requests and of calls,    *)
(* any tables and bounds, and all failures.  A step is one of a component  *)
(* and within the steps of that component (StepWithin), so that only its   *)
(* own actions disturb the invariant of a component.                       *)
(***************************************************************************)
EXTENDS FrontOffice, HandlersProofs, FiniteSetTheorems

LEMMA AccountWithin ==
    PerRequest /\ (AccountNext \/ \E q \in Requests : AccountInterrupted(q)) => Within(AccountSteps)
  <1> SUFFICES ASSUME PerRequest,
                      \/ \E q \in Requests : AccountReads(q) \/ AccountWrites(q) \/ AccountInterrupted(q)
                      \/ ProfileExpires \/ SessionExpires
               PROVE  Within(AccountSteps)
    BY DEF AccountNext
  <1> USE DEF AccountSteps, HoldingSteps, SessionSteps
  <1>1. ASSUME NEW q \in Requests, PostUser(q) \/ FindNewEmail(q) \/ GetUser(q) \/ QueryProfile(q)
        PROVE  Within(AccountSteps)
    BY <1>1, ReceiveWithin, GotoWithin, AnswerWithin DEF PostUser, FindNewEmail, GetUser, QueryProfile, At
  <1>9. ASSUME NEW q \in Requests, PostMail(q) \/ PostMailAgain(q) \/ ResendVerificationEmail(q)
        PROVE  Within(AccountSteps)
    BY <1>9, ReceiveWithin, GotoWithin, AnswerWithin DEF PostMail, PostMailAgain, ResendVerificationEmail, At
  <1>6. ASSUME NEW q \in Requests, PutUser(q) PROVE Within(AccountSteps)
    BY <1>6, ReceiveWithin DEF PutUser
  <1>10. ASSUME NEW q \in Requests, FindAccount(q) PROVE Within(AccountSteps)
    BY <1>10, GotoWithin, AnswerWithin DEF FindAccount, At
  <1>11. ASSUME NEW q \in Requests, FindEmail(q) PROVE Within(AccountSteps)
    BY <1>11, GotoWithin, AnswerWithin DEF FindEmail, At
  <1>2. ASSUME NEW q \in Requests, GetVerifyEmail(q) \/ FindMail(q) \/ FindMailUser(q)
        PROVE  Within(AccountSteps)
    BY <1>2, ReceiveWithin, GotoWithin, AnswerWithin DEF GetVerifyEmail, FindMail, FindMailUser, At
  <1>7. ASSUME NEW q \in Requests, PostProof(q) \/ PostVerifyWallet(q) \/ FindProof(q) \/ CheckWallet(q)
        PROVE  Within(AccountSteps)
    BY <1>7, ReceiveWithin, GotoWithin, AnswerWithin DEF PostProof, PostVerifyWallet, FindProof, CheckWallet, At
  <1>8. ASSUME NEW q \in Requests, PostSession(q) \/ FindSession(q) \/ UseSession(q)
        PROVE  Within(AccountSteps)
    BY <1>8, ReceiveWithin, GotoWithin, AnswerWithin DEF PostSession, FindSession, UseSession, At
  <1>3. ASSUME NEW q \in Requests, AccountWrites(q) PROVE Within(AccountSteps)
    BY <1>3, GotoWithin, AnswerWithin, ServeWithin
       DEF AccountWrites, CreateUser, CacheProfile, UpdateUser, DeleteUser, SendVerificationEmail,
           SaveConfirmed, VerifyEmail, InitiateVerification, SaveVerified, VerifyWallet, DeleteExisting,
           CreateSession, DeleteSession, DeleteExpired, CleanupExpiredSessions, At
  <1>4. ASSUME NEW q \in Requests, AccountInterrupted(q) PROVE Within(AccountSteps)
    BY <1>4, InterruptedWithin DEF AccountInterrupted
  <1>5. CASE ProfileExpires \/ SessionExpires
    BY <1>5, StayWithin DEF ProfileExpires, SessionExpires
  <1> QED
    BY <1>1, <1>2, <1>3, <1>4, <1>5, <1>6, <1>7, <1>8, <1>9, <1>10, <1>11 DEF AccountReads

\* The step a request goes on to, where it holds the name of it.
RoleThens == {"findRole", "findActiveRole", "findUserRole", "findRolePermission"}
ThenHeld(step, m) ==
    /\ step = "getRole" => m.then \in RoleThens
    /\ step = "expireEntry" => m.then \in {"isWhitelisted", "countRequest"}
    /\ step = "initializeContract" => m.then \in {"submitShop", "submitToken", "checkNonce"}
    /\ step = "findSlug" => m.then \in {"saveLink", "saveAgain", "updateLink"}
    /\ step \in {"findSlug", "saveLink"} => "then" \in DOMAIN m
Thens == \A q \in Requests : ThenHeld(pc[q], mem[q])

LEMMA TeamWithin ==
    PerRequest /\ Thens /\ (TeamNext \/ \E q \in Requests : TeamInterrupted(q)) => Within(TeamSteps)
  <1> SUFFICES ASSUME PerRequest, Thens, NEW q \in Requests,
                      \/ TeamReads(q)
                      \/ CreateRole(q) \/ UpdateRole(q) \/ DeleteRole(q)
                      \/ AssignRoleToUser(q) \/ RemoveUserRole(q)
                      \/ AssignPermissionToRole(q) \/ RemovePermissionFromRole(q)
                      \/ SavePermission(q) \/ SaveDefault(q) \/ FindGranted(q) \/ Grant(q)
                      \/ TeamInterrupted(q)
               PROVE  Within(TeamSteps)
    BY DEF TeamNext
  <1> USE DEF TeamSteps, UsingSteps, DeletingSteps
  <1>1. CASE \/ PostRole(q) \/ CountRoles(q)
             \/ PutRole(q) \/ DeleteRoleById(q) \/ PostUserRole(q) \/ DeleteUserRole(q)
             \/ PostPermission(q) \/ DeletePermission(q)
    BY <1>1, ReceiveWithin, GotoWithin, AnswerWithin
       DEF PostRole, CountRoles, PutRole, DeleteRoleById, PostUserRole, DeleteUserRole, PostPermission,
           DeletePermission, Ask, At
  <1>2. CASE GetRoleById(q)
    BY <1>2, GotoWithin, AnswerWithin DEF GetRoleById, At, Thens, ThenHeld, RoleThens
  <1>3. CASE \/ FindRole(q) \/ FindActiveRole(q) \/ CountUserRoles(q)
             \/ FindUserRole(q) \/ FindRolePermission(q) \/ AssignPermissionFails(q)
    BY <1>3, GotoWithin, AnswerWithin
       DEF FindRole, FindActiveRole, CountUserRoles, FindUserRole, FindRolePermission, AssignPermissionFails, At
  <1>4. CASE \/ InitializeDefaultPermissions(q) \/ FindMissing(q)
             \/ InitializeDefaultRoles(q) \/ FindDefault(q)
    BY <1>4, ReceiveWithin, GotoWithin, AnswerWithin
       DEF InitializeDefaultPermissions, FindMissing, InitializeDefaultRoles, FindDefault, NextDefault, At
  <1>5. CASE \/ CreateRole(q) \/ UpdateRole(q) \/ DeleteRole(q)
             \/ AssignRoleToUser(q) \/ RemoveUserRole(q)
             \/ AssignPermissionToRole(q) \/ RemovePermissionFromRole(q)
    BY <1>5, AnswerWithin
       DEF CreateRole, UpdateRole, DeleteRole, AssignRoleToUser, RemoveUserRole, AssignPermissionToRole,
           RemovePermissionFromRole, At
  <1>6. CASE SavePermission(q) \/ SaveDefault(q)
    BY <1>6, GotoWithin, AnswerWithin DEF SavePermission, SaveDefault, At
  <1>8. CASE FindGranted(q)
    BY <1>8, GotoWithin, AnswerWithin DEF FindGranted, NextDefault, At
  <1>9. CASE Grant(q)
    BY <1>9, GotoWithin, AnswerWithin DEF Grant, At
  <1>7. CASE TeamInterrupted(q)
    BY <1>7, InterruptedWithin DEF TeamInterrupted
  <1> QED
    BY <1>1, <1>2, <1>3, <1>4, <1>5, <1>6, <1>7, <1>8, <1>9 DEF TeamReads

LEMMA TransferWithin ==
    PerRequest /\ (TransferNext \/ \E q \in Requests : TransferInterrupted(q)) => Within(TransferSteps)
  <1> SUFFICES ASSUME PerRequest, NEW q \in Requests,
                      TransferReads(q) \/ TransferWrites(q) \/ TransferInterrupted(q)
               PROVE  Within(TransferSteps)
    BY DEF TransferNext
  <1> USE DEF TransferSteps, SyncSteps, SavingSteps
  <1>1. CASE \/ GetWallet(q) \/ FindPurse(q)
             \/ PostActivate(q) \/ PostVerify(q) \/ PutSettings(q)
             \/ PostPayment(q) \/ FindSender(q)
    BY <1>1, ReceiveWithin, GotoWithin, AnswerWithin
       DEF GetWallet, FindPurse, PostActivate, PostVerify, PutSettings, PostPayment, FindSender, At
  <1>2. CASE \/ LoadAccount(q) \/ SaveSuccessFails(q)
             \/ PostSync(q) \/ FetchLedger(q) \/ FindTransfer(q)
    BY <1>2, ReceiveWithin, GotoWithin, AnswerWithin
       DEF LoadAccount, SaveSuccessFails, PostSync, FetchLedger, FindTransfer, Continue, Fails, At
  <1>3. CASE TransferWrites(q)
    BY <1>3, GotoWithin, AnswerWithin
       DEF TransferWrites, CreateWallet, SavePurse, SavePending, SaveSuccess, SaveFailed, InsertTransfer,
           SubmitPayment, Continue, Fails, At
  <1>4. CASE TransferInterrupted(q)
    BY <1>4, InterruptedWithin DEF TransferInterrupted
  <1> QED
    BY <1>1, <1>2, <1>3, <1>4 DEF TransferReads

LEMMA ThrottleWithin ==
    PerRequest /\ Thens /\ (ThrottleNext \/ \E q \in Requests : ThrottleInterrupted(q)) => Within(ThrottleSteps)
  <1> SUFFICES ASSUME PerRequest, Thens,
                      \/ \E q \in Requests :
                            \/ ThrottleReads(q) \/ ExpireEntry(q) \/ LogAdvancedRateLimitEvent(q)
                            \/ InsertEntry(q) \/ SaveEntry(q) \/ ThrottleInterrupted(q)
                      \/ DayPasses \/ StrikesFade
               PROVE  Within(ThrottleSteps)
    BY DEF ThrottleNext
  <1> USE DEF ThrottleSteps, HoldSteps
  <1>1. ASSUME NEW q \in Requests,
               \/ Request(q) \/ RefusedByGlobal(q) \/ IsBlacklisted(q) \/ IsWhitelisted(q)
               \/ CountRequest(q) \/ CheckForAdvancedSuspiciousActivity(q)
        PROVE  Within(ThrottleSteps)
    BY <1>1, ReceiveWithin, GotoWithin, AnswerWithin
       DEF Request, RefusedByGlobal, IsBlacklisted, IsWhitelisted, Lookup, CountRequest,
           CheckForAdvancedSuspiciousActivity, Finish, At
  <1>2. ASSUME NEW q \in Requests, LookupFails(q) \/ ExpireEntry(q) PROVE Within(ThrottleSteps)
    BY <1>2, GotoWithin DEF LookupFails, ExpireEntry, Thens, ThenHeld, At
  <1>3. ASSUME NEW q \in Requests,
               \/ PostBlacklist(q) \/ PostWhitelist(q) \/ AddToBlacklist(q) \/ AddToWhitelist(q)
               \/ RemoveFromBlacklist(q) \/ RemoveFromWhitelist(q) \/ LogFails(q)
        PROVE  Within(ThrottleSteps)
    BY <1>3, ReceiveWithin, GotoWithin, AnswerWithin
       DEF PostBlacklist, PostWhitelist, AddToBlacklist, AddToWhitelist, AddTo, RemoveFromBlacklist,
           RemoveFromWhitelist, RemoveFrom, LogFails, Finish, At
  <1>4. ASSUME NEW q \in Requests,
               LogAdvancedRateLimitEvent(q) \/ InsertEntry(q) \/ SaveEntry(q)
        PROVE  Within(ThrottleSteps)
    BY <1>4, GotoWithin, AnswerWithin DEF LogAdvancedRateLimitEvent, InsertEntry, SaveEntry, Finish, At
  <1>5. ASSUME NEW q \in Requests, ThrottleInterrupted(q) PROVE Within(ThrottleSteps)
    BY <1>5, InterruptedWithin DEF ThrottleInterrupted
  <1>6. CASE DayPasses \/ StrikesFade
    BY <1>6, StayWithin DEF DayPasses, StrikesFade
  <1> QED
    BY <1>1, <1>2, <1>3, <1>4, <1>5, <1>6 DEF ThrottleReads

LEMMA ContractWithin ==
    PerRequest /\ Thens /\ (ContractNext \/ \E q \in Requests : ContractInterrupted(q)) => Within(ContractSteps)
  <1> SUFFICES ASSUME PerRequest, Thens,
                      \/ \E q \in Requests : ContractReads(q) \/ ContractWrites(q) \/ ContractInterrupted(q)
                      \/ NextDay
               PROVE  Within(ContractSteps)
    BY DEF ContractNext
  <1> USE DEF ContractSteps
  <1>1. ASSUME NEW q \in Requests, PostShop(q) \/ PostToken(q) \/ PostOrder(q) \/ CheckNonce(q) \/ CheckShop(q)
        PROVE  Within(ContractSteps)
    BY <1>1, ReceiveWithin, GotoWithin, AnswerWithin
       DEF PostShop, PostToken, PostOrder, CheckNonce, CheckShop, At
  <1>2. ASSUME NEW q \in Requests, InitializeContract(q) PROVE Within(ContractSteps)
    BY <1>2, GotoWithin DEF InitializeContract, Thens, ThenHeld, At
  <1>3. ASSUME NEW q \in Requests, ContractWrites(q) PROVE Within(ContractSteps)
    BY <1>3, GotoWithin, AnswerWithin
       DEF ContractWrites, RegisterMerchant, AddSupportedToken, ProcessPayment, PayOrder, Executed, Refused,
           CacheShop, CacheToken, StoreNonce, At
  <1>4. ASSUME NEW q \in Requests, ContractInterrupted(q) PROVE Within(ContractSteps)
    BY <1>4, InterruptedWithin DEF ContractInterrupted
  <1>5. CASE NextDay
    BY <1>5, StayWithin DEF NextDay
  <1> QED
    BY <1>1, <1>2, <1>3, <1>4, <1>5 DEF ContractReads

LEMMA LinkWithin ==
    PerRequest /\ Thens /\ (LinkNext \/ \E q \in Requests : LinkInterrupted(q)) => Within(LinkSteps)
  <1> SUFFICES ASSUME PerRequest, Thens, NEW q \in Requests,
                      \/ PostLink(q) \/ PutLink(q) \/ GenerateUniqueSlug(q)
                      \/ CreatePaymentLink(q) \/ RetryPaymentLink(q) \/ UpdatePaymentLink(q)
                      \/ DeletePaymentLink(q) \/ SoftDeletePaymentLink(q) \/ LinkInterrupted(q)
               PROVE  Within(LinkSteps)
    BY DEF LinkNext
  <1> QED
    BY ReceiveWithin, GotoWithin, AnswerWithin, ServeWithin, InterruptedWithin
       DEF PostLink, PutLink, GenerateUniqueSlug, CreatePaymentLink, RetryPaymentLink, InsertLink, RefuseLink,
           UpdatePaymentLink, DeletePaymentLink, SoftDeletePaymentLink, LinkInterrupted, LinkSteps,
           Thens, ThenHeld, At

LEMMA MerchantWithin ==
    PerRequest /\ (MerchantNext \/ \E q \in Requests : MerchantInterrupted(q)) => Within(MerchantSteps)
  <1> SUFFICES ASSUME PerRequest, NEW q \in Requests,
                      \/ MerchantReads(q) \/ CommitMerchant(q) \/ CreateMerchantConfig(q)
                      \/ RegisterHook(q) \/ UpdateHook(q)
                      \/ PutProfile(q) \/ PostLogo(q) \/ DeleteLogo(q)
                      \/ FindProfile(q) \/ UnlinkLogo(q) \/ SaveProfile(q) \/ MerchantInterrupted(q)
               PROVE  Within(MerchantSteps)
    BY DEF MerchantNext
  <1> USE DEF MerchantSteps, RegisterSteps, HookSteps, ProfileSteps
  <1>1. CASE MerchantReads(q)
    BY <1>1, ReceiveWithin, GotoWithin, AnswerWithin
       DEF MerchantReads, PostMerchant, FindMerchant, SaveMerchant, InitializeDefaultFraudConfig,
           CheckTransaction, GetMerchantConfig, PostHook, PutHook, DeleteHook, FindHook, At
  <1>2. CASE \/ CommitMerchant(q) \/ CreateMerchantConfig(q) \/ RegisterHook(q) \/ UpdateHook(q)
             \/ UnlinkLogo(q) \/ SaveProfile(q)
    BY <1>2, GotoWithin, AnswerWithin
       DEF CommitMerchant, CreateMerchantConfig, RegisterHook, UpdateHook, UnlinkLogo, SaveProfile, At
  <1>3. CASE PutProfile(q) \/ PostLogo(q) \/ DeleteLogo(q) \/ FindProfile(q)
    BY <1>3, ReceiveWithin, GotoWithin, AnswerWithin DEF PutProfile, PostLogo, DeleteLogo, Profiles, FindProfile, At
  <1>4. CASE MerchantInterrupted(q)
    BY <1>4, InterruptedWithin DEF MerchantInterrupted
  <1> QED
    BY <1>1, <1>2, <1>3, <1>4

LEMMA SignInWithin ==
    PerRequest /\ (SignInNext \/ \E q \in Requests : SignInInterrupted(q)) => Within(SignInSteps)
  <1> SUFFICES ASSUME PerRequest, NEW q \in Requests, SignInReads(q) \/ SignInWrites(q) \/ SignInInterrupted(q)
               PROVE  Within(SignInSteps)
    BY DEF SignInNext
  <1> USE DEF SignInSteps, MemberHolding
  <1>1. CASE SignInReads(q)
    BY <1>1, ReceiveWithin, GotoWithin, AnswerWithin
       DEF SignInReads, PostRegister, FindMember, Auth0Callback, FindAuth0User, PostLogin, Login,
           ValidateTwoFactor, LoginAgain, PostEnable, PostDisable, FindToDisable, PutPassword, FindToUpdate, At
  <1>2. CASE SignInWrites(q)
    BY <1>2, GotoWithin, AnswerWithin
       DEF SignInWrites, Register, FindOrCreateAuth0User, RefuseEnrolment, StoreToken, FindToEnable,
           EnableTwoFactor, DisableTwoFactor, UpdatePassword, At
  <1>3. CASE SignInInterrupted(q)
    BY <1>3, InterruptedWithin DEF SignInInterrupted
  <1> QED
    BY <1>1, <1>2, <1>3

LEMMA AuditWithin ==
    PerRequest /\ (AuditNext \/ \E q \in Requests : AuditInterrupted(q)) => Within(AuditSteps)
  <1> SUFFICES ASSUME PerRequest, NEW q \in Requests,
                      \/ PostChange(q) \/ FindRecord(q) \/ LoadRecord(q) \/ PostCreate(q)
                      \/ Change(q) \/ LogChange(q) \/ CommitChange(q)
                      \/ PostRemove(q) \/ FindToRemove(q) \/ Remove(q) \/ LogRemoval(q) \/ CommitRemoval(q)
                      \/ UpdateById(q) \/ DeleteById(q)
                      \/ GetAuditLogs(q) \/ ReadPage(q) \/ AuditInterrupted(q)
               PROVE  Within(AuditSteps)
    BY DEF AuditNext
  <1> QED
    BY ReceiveWithin, GotoWithin, AnswerWithin, ServeWithin, InterruptedWithin
       DEF PostChange, FindRecord, LoadRecord, PostCreate, Change, LogChange, CommitChange, PostRemove,
           FindToRemove, Remove, LogRemoval, CommitRemoval, UpdateById, DeleteById, GetAuditLogs, ReadPage,
           AuditInterrupted, AuditSteps, LockingSteps, At

------------------------------------------------------------------------------
\* No step belongs to two components.
LEMMA StepsDisjoint ==
    /\ "idle" \notin AccountSteps \cup TeamSteps \cup TransferSteps \cup ThrottleSteps \cup ContractSteps
                        \cup LinkSteps \cup MerchantSteps \cup SignInSteps \cup AuditSteps
    /\ AccountSteps \cap TeamSteps = {}
    /\ (AccountSteps \cup TeamSteps) \cap TransferSteps = {}
    /\ (AccountSteps \cup TeamSteps \cup TransferSteps) \cap ThrottleSteps = {}
    /\ (AccountSteps \cup TeamSteps \cup TransferSteps \cup ThrottleSteps) \cap ContractSteps = {}
    /\ (AccountSteps \cup TeamSteps \cup TransferSteps \cup ThrottleSteps \cup ContractSteps) \cap LinkSteps = {}
    /\ (AccountSteps \cup TeamSteps \cup TransferSteps \cup ThrottleSteps \cup ContractSteps \cup LinkSteps)
          \cap MerchantSteps = {}
    /\ (AccountSteps \cup TeamSteps \cup TransferSteps \cup ThrottleSteps \cup ContractSteps \cup LinkSteps
          \cup MerchantSteps) \cap SignInSteps = {}
    /\ (AccountSteps \cup TeamSteps \cup TransferSteps \cup ThrottleSteps \cup ContractSteps \cup LinkSteps
          \cup MerchantSteps \cup SignInSteps) \cap AuditSteps = {}
  BY DEF AccountSteps, HoldingSteps, SessionSteps, TeamSteps, UsingSteps, DeletingSteps, TransferSteps,
         SyncSteps, SavingSteps, ThrottleSteps, HoldSteps, ContractSteps, LinkSteps, MerchantSteps,
         RegisterSteps, HookSteps, ProfileSteps, SignInSteps, MemberHolding, AuditSteps, LockingSteps

------------------------------------------------------------------------------
Base == PerRequest /\ Thens

LEMMA BaseInit == Init => Base
  BY InitPerRequest DEF Init, Base, Thens, ThenHeld

\* A step of the office is one of a component, within the steps of it.
LEMMA StepWithin ==
    ASSUME Base, [Next]_vars
    PROVE  \/ AccountStep /\ Within(AccountSteps)
           \/ TeamStep /\ Within(TeamSteps)
           \/ TransferStep /\ Within(TransferSteps)
           \/ ThrottleStep /\ Within(ThrottleSteps)
           \/ ContractStep /\ Within(ContractSteps)
           \/ LinkStep /\ Within(LinkSteps)
           \/ MerchantStep /\ Within(MerchantSteps)
           \/ SignInStep /\ Within(SignInSteps)
           \/ AuditStep /\ Within(AuditSteps)
           \/ UNCHANGED vars /\ Within({})
  <1>1. CASE AccountStep
    BY <1>1, AccountWithin DEF AccountStep, Base
  <1>2. CASE TeamStep
    BY <1>2, TeamWithin DEF TeamStep, Base
  <1>3. CASE TransferStep
    BY <1>3, TransferWithin DEF TransferStep, Base
  <1>4. CASE ThrottleStep
    BY <1>4, ThrottleWithin DEF ThrottleStep, Base
  <1>5. CASE ContractStep
    BY <1>5, ContractWithin DEF ContractStep, Base
  <1>6. CASE LinkStep
    BY <1>6, LinkWithin DEF LinkStep, Base
  <1>7. CASE MerchantStep
    BY <1>7, MerchantWithin DEF MerchantStep, Base
  <1>8. CASE SignInStep
    BY <1>8, SignInWithin DEF SignInStep, Base
  <1>9. CASE AuditStep
    BY <1>9, AuditWithin DEF AuditStep, Base
  <1>10. CASE UNCHANGED vars
    <2>1. UNCHANGED handlerVars
      BY <1>10 DEF vars
    <2> QED
      BY <1>10, <2>1, StayWithin DEF Base
  <1> QED
    BY <1>1, <1>2, <1>3, <1>4, <1>5, <1>6, <1>7, <1>8, <1>9, <1>10 DEF Next

\* A step of the office is one of a component's own, or leaves its tables and its requests alone.
LEMMA StepApart ==
    ASSUME Base, [Next]_vars
    PROVE  /\ PerRequest'
           /\ AccountStep \/ (UNCHANGED accountVars /\ Apart(AccountSteps))
           /\ TeamStep \/ (UNCHANGED teamVars /\ Apart(TeamSteps))
           /\ TransferStep \/ (UNCHANGED transferVars /\ Apart(TransferSteps))
           /\ ThrottleStep \/ (UNCHANGED throttleVars /\ Apart(ThrottleSteps))
           /\ ContractStep \/ (UNCHANGED contractVars /\ Apart(ContractSteps))
           /\ LinkStep \/ (UNCHANGED linkVars /\ Apart(LinkSteps))
           /\ MerchantStep \/ (UNCHANGED merchantVars /\ Apart(MerchantSteps))
           /\ SignInStep \/ (UNCHANGED signInVars /\ Apart(SignInSteps))
           /\ AuditStep \/ (UNCHANGED auditVars /\ Apart(AuditSteps))
  <1>1. CASE AccountStep /\ Within(AccountSteps)
    <2>1. \A T : AccountSteps \cap T = {} /\ "idle" \notin T => Apart(T)
      BY <1>1, WithinApart
    <2> QED
      BY <1>1, <2>1, StepsDisjoint, WithinPerRequest DEF AccountStep
  <1>2. CASE TeamStep /\ Within(TeamSteps)
    <2>1. \A T : TeamSteps \cap T = {} /\ "idle" \notin T => Apart(T)
      BY <1>2, WithinApart
    <2> QED
      BY <1>2, <2>1, StepsDisjoint, WithinPerRequest DEF TeamStep
  <1>3. CASE TransferStep /\ Within(TransferSteps)
    <2>1. \A T : TransferSteps \cap T = {} /\ "idle" \notin T => Apart(T)
      BY <1>3, WithinApart
    <2> QED
      BY <1>3, <2>1, StepsDisjoint, WithinPerRequest DEF TransferStep
  <1>4. CASE ThrottleStep /\ Within(ThrottleSteps)
    <2>1. \A T : ThrottleSteps \cap T = {} /\ "idle" \notin T => Apart(T)
      BY <1>4, WithinApart
    <2> QED
      BY <1>4, <2>1, StepsDisjoint, WithinPerRequest DEF ThrottleStep
  <1>5. CASE ContractStep /\ Within(ContractSteps)
    <2>1. \A T : ContractSteps \cap T = {} /\ "idle" \notin T => Apart(T)
      BY <1>5, WithinApart
    <2> QED
      BY <1>5, <2>1, StepsDisjoint, WithinPerRequest DEF ContractStep
  <1>6. CASE LinkStep /\ Within(LinkSteps)
    <2>1. \A T : LinkSteps \cap T = {} /\ "idle" \notin T => Apart(T)
      BY <1>6, WithinApart
    <2> QED
      BY <1>6, <2>1, StepsDisjoint, WithinPerRequest DEF LinkStep
  <1>7. CASE MerchantStep /\ Within(MerchantSteps)
    <2>1. \A T : MerchantSteps \cap T = {} /\ "idle" \notin T => Apart(T)
      BY <1>7, WithinApart
    <2> QED
      BY <1>7, <2>1, StepsDisjoint, WithinPerRequest DEF MerchantStep
  <1>8. CASE SignInStep /\ Within(SignInSteps)
    <2>1. \A T : SignInSteps \cap T = {} /\ "idle" \notin T => Apart(T)
      BY <1>8, WithinApart
    <2> QED
      BY <1>8, <2>1, StepsDisjoint, WithinPerRequest DEF SignInStep
  <1>9. CASE AuditStep /\ Within(AuditSteps)
    <2>1. \A T : AuditSteps \cap T = {} /\ "idle" \notin T => Apart(T)
      BY <1>9, WithinApart
    <2> QED
      BY <1>9, <2>1, StepsDisjoint, WithinPerRequest DEF AuditStep
  <1>10. CASE UNCHANGED vars /\ Within({})
    <2>1. \A T : "idle" \notin T => Apart(T)
      BY <1>10, WithinApart
    <2> QED
      BY <1>10, <2>1, StepsDisjoint, WithinPerRequest DEF vars
  <1> QED
    BY <1>1, <1>2, <1>3, <1>4, <1>5, <1>6, <1>7, <1>8, <1>9, <1>10, StepWithin

LEMMA AccountApart == Base /\ [Next]_vars => PerRequest' /\ (AccountStep \/ (UNCHANGED accountVars /\ Apart(AccountSteps)))
  BY StepApart

LEMMA TeamApart == Base /\ [Next]_vars => PerRequest' /\ (TeamStep \/ (UNCHANGED teamVars /\ Apart(TeamSteps)))
  BY StepApart

LEMMA TransferApart == Base /\ [Next]_vars => PerRequest' /\ (TransferStep \/ (UNCHANGED transferVars /\ Apart(TransferSteps)))
  BY StepApart

LEMMA ThrottleApart == Base /\ [Next]_vars => PerRequest' /\ (ThrottleStep \/ (UNCHANGED throttleVars /\ Apart(ThrottleSteps)))
  BY StepApart

LEMMA ContractApart == Base /\ [Next]_vars => PerRequest' /\ (ContractStep \/ (UNCHANGED contractVars /\ Apart(ContractSteps)))
  BY StepApart

LEMMA LinkApart == Base /\ [Next]_vars => PerRequest' /\ (LinkStep \/ (UNCHANGED linkVars /\ Apart(LinkSteps)))
  BY StepApart

LEMMA MerchantApart == Base /\ [Next]_vars => PerRequest' /\ (MerchantStep \/ (UNCHANGED merchantVars /\ Apart(MerchantSteps)))
  BY StepApart

LEMMA SignInApart == Base /\ [Next]_vars => PerRequest' /\ (SignInStep \/ (UNCHANGED signInVars /\ Apart(SignInSteps)))
  BY StepApart

LEMMA AuditApart == Base /\ [Next]_vars => PerRequest' /\ (AuditStep \/ (UNCHANGED auditVars /\ Apart(AuditSteps)))
  BY StepApart

LEMMA PutThen ==
    ASSUME Thens, NEW q \in Requests, NEW step, NEW m, Put(q, step, m), ThenHeld(step, m)
    PROVE  Base'
  BY DEF Base, Thens, Put

LEMMA ReceiveThen ==
    ASSUME Base, NEW q \in Requests, NEW c, NEW step, NEW m, Receive(q, c, step, m), ThenHeld(step, m)
    PROVE  Base'
  BY ReceivePuts, PutThen DEF Base

LEMMA GotoThen ==
    ASSUME Base, NEW q \in Requests, NEW step, NEW m, Goto(q, step, m), ThenHeld(step, m)
    PROVE  Base'
  BY GotoPuts, PutThen DEF Base

LEMMA AnswerThen ==
    ASSUME Base, NEW q \in Requests, Answer(q)
    PROVE  Base'
  BY GotoThen DEF Answer, ThenHeld

\* Requests that move among steps which hold no name of a step keep those names.
LEMMA WithinThens ==
    ASSUME Base, NEW S, Within(S),
           S \cap {"getRole", "expireEntry", "initializeContract", "findSlug", "saveLink"} = {}
    PROVE  Base'
  BY DEF Base, Within, Thens, ThenHeld

LEMMA StayThens ==
    ASSUME Base, UNCHANGED <<pc, mem>>
    PROVE  Base'
  BY DEF Base, PerRequest, Thens, ThenHeld

------------------------------------------------------------------------------
LEMMA TeamThens ==
    ASSUME Base, TeamStep
    PROVE  Base'
  <1> SUFFICES ASSUME NEW q \in Requests,
                      \/ TeamReads(q)
                      \/ CreateRole(q) \/ UpdateRole(q) \/ DeleteRole(q)
                      \/ AssignRoleToUser(q) \/ RemoveUserRole(q)
                      \/ AssignPermissionToRole(q) \/ RemovePermissionFromRole(q)
                      \/ SavePermission(q) \/ SaveDefault(q) \/ FindGranted(q) \/ Grant(q)
                      \/ TeamInterrupted(q)
               PROVE  Base'
    BY DEF TeamStep, TeamNext
  <1>1. CASE PutRole(q) \/ DeleteRoleById(q) \/ PostUserRole(q) \/ DeleteUserRole(q)
             \/ PostPermission(q) \/ DeletePermission(q)
    BY <1>1, ReceiveThen
       DEF PutRole, DeleteRoleById, PostUserRole, DeleteUserRole, PostPermission, DeletePermission, Ask,
           ThenHeld, RoleThens
  <1>2. CASE PostRole(q) \/ InitializeDefaultPermissions(q) \/ InitializeDefaultRoles(q)
    BY <1>2, ReceiveThen DEF PostRole, InitializeDefaultPermissions, InitializeDefaultRoles, ThenHeld
  <1>3. CASE GetRoleById(q)
    BY <1>3, GotoThen, AnswerThen DEF GetRoleById, At, Base, Thens, ThenHeld, RoleThens
  <1>4. CASE \/ CountRoles(q) \/ FindRole(q) \/ FindActiveRole(q) \/ CountUserRoles(q)
             \/ FindUserRole(q) \/ FindRolePermission(q) \/ AssignPermissionFails(q)
             \/ FindMissing(q) \/ FindDefault(q)
    BY <1>4, GotoThen, AnswerThen
       DEF CountRoles, FindRole, FindActiveRole, CountUserRoles, FindUserRole, FindRolePermission,
           AssignPermissionFails, FindMissing, FindDefault, NextDefault, ThenHeld
  <1>5. CASE \/ CreateRole(q) \/ UpdateRole(q) \/ DeleteRole(q)
             \/ AssignRoleToUser(q) \/ RemoveUserRole(q)
             \/ AssignPermissionToRole(q) \/ RemovePermissionFromRole(q)
    BY <1>5, AnswerThen
       DEF CreateRole, UpdateRole, DeleteRole, AssignRoleToUser, RemoveUserRole, AssignPermissionToRole,
           RemovePermissionFromRole
  <1>6. CASE SavePermission(q) \/ SaveDefault(q) \/ FindGranted(q) \/ Grant(q)
    BY <1>6, GotoThen, AnswerThen DEF SavePermission, SaveDefault, FindGranted, Grant, NextDefault, ThenHeld
  <1>7. CASE TeamInterrupted(q)
    BY <1>7, AnswerThen DEF TeamInterrupted, Interrupted
  <1> QED
    BY <1>1, <1>2, <1>3, <1>4, <1>5, <1>6, <1>7 DEF TeamReads

LEMMA ThrottleThens ==
    ASSUME Base, ThrottleStep
    PROVE  Base'
  <1>1. CASE DayPasses \/ StrikesFade
    BY <1>1, StayThens DEF DayPasses, StrikesFade, handlerVars
  <1>2. ASSUME NEW q \in Requests, IsBlacklisted(q) PROVE Base'
    BY <1>2, GotoThen DEF IsBlacklisted, Lookup, ThenHeld
  <1>3. ASSUME NEW q \in Requests, IsWhitelisted(q) PROVE Base'
    BY <1>3, GotoThen DEF IsWhitelisted, Lookup, ThenHeld
  <1>4. ASSUME NEW q \in Requests, LookupFails(q) \/ ExpireEntry(q) PROVE Base'
    BY <1>4, GotoThen DEF LookupFails, ExpireEntry, At, Base, Thens, ThenHeld
  <1>5. ASSUME NEW q \in Requests,
               \/ Request(q) \/ RefusedByGlobal(q) \/ PostBlacklist(q) \/ PostWhitelist(q)
               \/ RemoveFromBlacklist(q) \/ RemoveFromWhitelist(q)
        PROVE  Base'
    BY <1>5, ReceiveThen
       DEF Request, RefusedByGlobal, PostBlacklist, PostWhitelist, RemoveFromBlacklist, RemoveFromWhitelist,
           RemoveFrom, ThenHeld
  <1>6. ASSUME NEW q \in Requests,
               \/ CountRequest(q) \/ CheckForAdvancedSuspiciousActivity(q) \/ LogFails(q)
               \/ AddToBlacklist(q) \/ AddToWhitelist(q)
               \/ LogAdvancedRateLimitEvent(q) \/ InsertEntry(q) \/ SaveEntry(q)
        PROVE  Base'
    BY <1>6, GotoThen, AnswerThen
       DEF CountRequest, CheckForAdvancedSuspiciousActivity, LogFails, AddToBlacklist, AddToWhitelist, AddTo,
           LogAdvancedRateLimitEvent, InsertEntry, SaveEntry, Finish, ThenHeld
  <1>7. ASSUME NEW q \in Requests, ThrottleInterrupted(q) PROVE Base'
    BY <1>7, AnswerThen DEF ThrottleInterrupted, Interrupted
  <1> QED
    BY <1>1, <1>2, <1>3, <1>4, <1>5, <1>6, <1>7 DEF ThrottleStep, ThrottleNext, ThrottleReads

LEMMA ContractThens ==
    ASSUME Base, ContractStep
    PROVE  Base'
  <1>1. CASE NextDay
    BY <1>1, StayThens DEF NextDay, handlerVars
  <1>2. ASSUME NEW q \in Requests, PostShop(q) \/ PostToken(q) \/ PostOrder(q) PROVE Base'
    BY <1>2, ReceiveThen DEF PostShop, PostToken, PostOrder, ThenHeld
  <1>3. ASSUME NEW q \in Requests, InitializeContract(q) PROVE Base'
    BY <1>3, GotoThen DEF InitializeContract, At, Base, Thens, ThenHeld
  <1>4. ASSUME NEW q \in Requests, CheckNonce(q) \/ CheckShop(q) \/ ContractWrites(q) PROVE Base'
    BY <1>4, GotoThen, AnswerThen
       DEF CheckNonce, CheckShop, ContractWrites, RegisterMerchant, AddSupportedToken, ProcessPayment, PayOrder,
           Executed, Refused, CacheShop, CacheToken, StoreNonce, ThenHeld
  <1>5. ASSUME NEW q \in Requests, ContractInterrupted(q) PROVE Base'
    BY <1>5, AnswerThen DEF ContractInterrupted, Interrupted
  <1> QED
    BY <1>1, <1>2, <1>3, <1>4, <1>5 DEF ContractStep, ContractNext, ContractReads

LEMMA LinkThens ==
    ASSUME Base, LinkStep
    PROVE  Base'
  <1> SUFFICES ASSUME NEW q \in Requests,
                      \/ PostLink(q) \/ PutLink(q) \/ GenerateUniqueSlug(q)
                      \/ CreatePaymentLink(q) \/ RetryPaymentLink(q) \/ UpdatePaymentLink(q)
                      \/ DeletePaymentLink(q) \/ SoftDeletePaymentLink(q) \/ LinkInterrupted(q)
               PROVE  Base'
    BY DEF LinkStep, LinkNext
  <1>1. CASE PostLink(q) \/ PutLink(q)
    BY <1>1, ReceiveThen DEF PostLink, PutLink, ThenHeld
  <1>2. CASE GenerateUniqueSlug(q)
    <2>1. At(q, "findSlug")
      BY <1>2 DEF GenerateUniqueSlug
    <2>2. mem[q].then \in {"saveLink", "saveAgain", "updateLink"} /\ "then" \in DOMAIN mem[q]
      BY <2>1 DEF At, Base, Thens, ThenHeld
    <2> DEFINE m == [mem[q] EXCEPT !.counter = @ + 1]
    <2>4. m.then = mem[q].then /\ "then" \in DOMAIN m
      BY <2>2
    <2>5. CASE Goto(q, "findSlug", m)
      BY <2>2, <2>4, <2>5, GotoThen DEF ThenHeld
    <2>6. CASE Goto(q, mem[q].then, mem[q])
      BY <2>2, <2>6, GotoThen DEF ThenHeld
    <2> QED
      BY <1>2, <2>5, <2>6 DEF GenerateUniqueSlug
  <1>3. CASE CreatePaymentLink(q)
    <2> DEFINE m == [mem[q] EXCEPT !.counter = 0, !.then = "saveAgain", !.hidden = Hidden(SlugOf(q))]
    <2>2. At(q, "saveLink")
      BY <1>3 DEF CreatePaymentLink
    <2>3. "then" \in DOMAIN mem[q]
      BY <2>2 DEF At, Base, Thens, ThenHeld
    <2>4. m.then = "saveAgain" /\ "then" \in DOMAIN m
      BY <2>3
    <2>5. CASE Goto(q, "findSlug", m)
      BY <2>4, <2>5, GotoThen DEF ThenHeld
    <2>6. CASE Answer(q)
      BY <2>6, AnswerThen
    <2> QED
      BY <1>3, <2>5, <2>6 DEF CreatePaymentLink, InsertLink
  <1>4. CASE RetryPaymentLink(q) \/ UpdatePaymentLink(q) \/ LinkInterrupted(q)
    BY <1>4, AnswerThen
       DEF RetryPaymentLink, InsertLink, RefuseLink, UpdatePaymentLink, LinkInterrupted, Interrupted
  <1>5. CASE DeletePaymentLink(q) \/ SoftDeletePaymentLink(q)
    BY <1>5, StayThens DEF DeletePaymentLink, SoftDeletePaymentLink, Serve
  <1> QED
    BY <1>1, <1>2, <1>3, <1>4, <1>5

LEMMA BaseStep == Base /\ [Next]_vars => Base'
  <1> SUFFICES ASSUME Base, [Next]_vars PROVE Base'
    OBVIOUS
  <1> USE DEF AccountSteps, HoldingSteps, SessionSteps, TransferSteps, SyncSteps, SavingSteps, MerchantSteps,
              RegisterSteps, HookSteps, ProfileSteps, SignInSteps, MemberHolding, AuditSteps, LockingSteps
  <1>1. CASE Within(AccountSteps) \/ Within(TransferSteps)
    BY <1>1, WithinThens
  <1>2. CASE Within(MerchantSteps) \/ Within(SignInSteps)
    BY <1>2, WithinThens
  <1>3. CASE Within(AuditSteps) \/ Within({})
    BY <1>3, WithinThens
  <1> QED
    BY <1>1, <1>2, <1>3, StepWithin, TeamThens, ThrottleThens, ContractThens, LinkThens

------------------------------------------------------------------------------
ContractAct == ContractNext \/ \E q \in Requests : ContractInterrupted(q)

\* What a request holds at each step.
ShopRequest == [shop: Shops, account: Nat \cup {None}, then: {"submitShop"}]
TokenRequest == [shop: Shops, token: Tokens, account: Nat \cup {None}, then: {"submitToken"}]
OrderRequest == [order: Orders, signed: BOOLEAN, account: Nat \cup {None}, then: {"checkNonce"}]

\* The steps of a payment past the account, and those that have found the nonce unused.
Paying == {"checkNonce", "checkShop", "submitOrder", "storeNonce"}
Checked == {"checkShop", "submitOrder"}

ContractRequestTypes ==
    /\ DOMAIN pc = Requests
    /\ DOMAIN mem = Requests
    /\ \A q \in Requests :
          /\ pc[q] = "initializeContract" => mem[q] \in ShopRequest \cup TokenRequest \cup OrderRequest
          /\ pc[q] \in {"submitShop", "cacheShop"} => mem[q] \in ShopRequest
          /\ pc[q] \in {"submitToken", "cacheToken"} => mem[q] \in TokenRequest
          /\ pc[q] \in Paying => mem[q] \in OrderRequest

ContractTypeInv == ContractTypeOK /\ ContractRequestTypes

\* A payment in progress has an account that is no newer than the network's and an order
\* that may still be paid.
PaymentInv == \A q \in Requests :
    /\ pc[q] \in Paying => mem[q].account \in Nat /\ mem[q].account <= sequence
    /\ pc[q] \in Paying \/ (pc[q] = "initializeContract" /\ mem[q] \in OrderRequest) =>
          ExpiryOf[mem[q].order] >= today

\* The day of the first payment is known once there is one.
DayInv == \A o \in Orders :
    /\ onChain.paid[o] = 0 <=> paidOn[o] = None
    /\ onChain.paid[o] > 0 => paidOn[o] \in Nat /\ paidOn[o] <= today

\* The nonce of an order that was paid is stored or about to be, or a day has passed.
NonceInv == \A o \in Orders \ unrecorded : onChain.paid[o] > 0 =>
    \/ o \in nonces
    \/ today > paidOn[o]
    \/ \E q \in Requests : pc[q] = "storeNonce" /\ mem[q].order = o

\* A request that found the nonce unused before the payment has an account from before it.
SequenceInv == \A q \in Requests :
    pc[q] \in Checked =>
       LET o == mem[q].order IN
       onChain.paid[o] > 0 => o \in unrecorded \/ ExpiryOf[o] > paidOn[o] \/ mem[q].account < sequence

ContractInv ==
    /\ ContractTypeInv
    /\ DOMAIN paidOn = Orders
    /\ PaymentInv
    /\ DayInv
    /\ NonceInv
    /\ SequenceInv
    /\ OrdersPaidOnce

------------------------------------------------------------------------------
LEMMA HistoryGrows == ContractHistory => unrecorded \subseteq unrecorded'
  BY DEF ContractHistory

LEMMA LateIsNoted ==
    ASSUME NEW q \in Requests, NEW r \in Requests, ContractHistory, Late(q, r)
    PROVE  mem[q].order \in unrecorded'
  BY DEF ContractHistory

LEMMA MissingIsNoted ==
    ASSUME NEW q \in Requests, ContractHistory, Missing(q)
    PROVE  mem[q].order \in unrecorded'
  BY DEF ContractHistory

LEMMA ContractInitInv == HandlersInit /\ (ContractInit \/ ContractIdle) => ContractInv
  BY ContractAssumption
     DEF ContractAssumption, HandlersInit, ContractInit, ContractIdle, ContractStart, ContractInv,
         ContractTypeInv, ContractTypeOK, ContractRequestTypes, Paying, Checked, PaymentInv, DayInv, NonceInv,
         SequenceInv, OrdersPaidOnce

\* The types are inductive.
LEMMA ContractTypeStep == ContractTypeInv /\ ContractAct => ContractTypeInv'
  <1> SUFFICES ASSUME ContractTypeInv, ContractAct PROVE ContractTypeInv'
    OBVIOUS
  <1> USE DEF ContractTypeInv, ContractTypeOK, ContractRequestTypes, Paying
  <1>1. CASE NextDay
    BY <1>1, ContractAssumption DEF NextDay, handlerVars, ContractAssumption
  <1>2. ASSUME NEW q \in Requests, ContractInterrupted(q) PROVE ContractTypeInv'
    BY <1>2 DEF ContractInterrupted, Interrupted, Answer, Goto, contractTables
  <1>3. ASSUME NEW q \in Requests, ContractReads(q) PROVE ContractTypeInv'
    <2> USE DEF contractTables
    <2>1. CASE PostShop(q)
      BY <1>3, <2>1 DEF ContractReads, PostShop, Receive, At, ShopRequest
    <2>2. CASE PostToken(q)
      BY <1>3, <2>2 DEF ContractReads, PostToken, Receive, At, TokenRequest
    <2>3. CASE PostOrder(q)
      BY <1>3, <2>3 DEF ContractReads, PostOrder, Receive, At, OrderRequest
    <2>4. CASE InitializeContract(q)
      <3>1. [mem[q] EXCEPT !.account = sequence] \in
               IF mem[q].then = "submitShop" THEN ShopRequest
               ELSE IF mem[q].then = "submitToken" THEN TokenRequest ELSE OrderRequest
        BY <2>4 DEF InitializeContract, At, ShopRequest, TokenRequest, OrderRequest
      <3>2. mem[q].then \in {"submitShop", "submitToken", "checkNonce"}
        BY <2>4 DEF InitializeContract, At, ShopRequest, TokenRequest, OrderRequest
      <3> PICK m, step : m = [mem[q] EXCEPT !.account = sequence] /\ step = mem[q].then
        OBVIOUS
      <3>3. pc' = [pc EXCEPT ![q] = step] /\ mem' = [mem EXCEPT ![q] = m] /\ UNCHANGED calls
        BY <2>4 DEF InitializeContract, Goto
      <3> QED
        BY <1>3, <3>1, <3>2, <3>3 DEF ContractReads
    <2>5. CASE CheckNonce(q)
      BY <1>3, <2>5 DEF ContractReads, CheckNonce, At, Goto, Answer
    <2>6. CASE CheckShop(q)
      BY <1>3, <2>6 DEF ContractReads, CheckShop, At, Goto, Answer
    <2> QED
      BY <1>3, <2>1, <2>2, <2>3, <2>4, <2>5, <2>6 DEF ContractReads
  <1>4. ASSUME NEW q \in Requests, ContractWrites(q) PROVE ContractTypeInv'
    <2>1. CASE RegisterMerchant(q) /\ UNCHANGED <<registry, nonces, today>>
      BY <2>1 DEF RegisterMerchant, Refused, Executed, Enters, At, Goto, Answer, ShopRequest
    <2>2. CASE AddSupportedToken(q) /\ UNCHANGED <<registry, nonces, today>>
      BY <2>2 DEF AddSupportedToken, Refused, Executed, Enters, At, Goto, Answer, TokenRequest
    <2>3. CASE ProcessPayment(q) /\ UNCHANGED <<registry, nonces, today>>
      BY <2>3 DEF ProcessPayment, PayOrder, Refused, Executed, Enters, At, Goto, Answer, OrderRequest
    <2>4. CASE CacheShop(q) /\ UNCHANGED <<sequence, onChain, nonces, today, paidOn>>
      BY <2>4 DEF CacheShop, At, Goto, Answer, ShopRequest
    <2>5. CASE CacheToken(q) /\ UNCHANGED <<sequence, onChain, nonces, today, paidOn>>
      BY <2>5 DEF CacheToken, At, Goto, Answer, TokenRequest
    <2>6. CASE StoreNonce(q) /\ UNCHANGED <<sequence, onChain, registry, today, paidOn>>
      BY <2>6 DEF StoreNonce, At, Goto, Answer, OrderRequest
    <2> QED
      BY <1>4, <2>1, <2>2, <2>3, <2>4, <2>5, <2>6 DEF ContractWrites
  <1> QED
    BY <1>1, <1>2, <1>3, <1>4 DEF ContractAct, ContractNext

------------------------------------------------------------------------------
\* The steps of a request that neither pay an order nor store a nonce: what is known of
\* orders stays, and no request gets to the end of a payment by them.
Minor(q) ==
    /\ pc[q] # "storeNonce"
    /\ pc'[q] # "storeNonce"
    /\ \A r \in Requests : r # q => pc'[r] = pc[r] /\ mem'[r] = mem[r]
    /\ onChain'.paid = onChain.paid
    /\ UNCHANGED <<nonces, today, paidOn>>
    /\ sequence' >= sequence
    /\ \/ pc'[q] \in {"idle", "submitShop", "submitToken", "cacheShop", "cacheToken"}
       \/ pc[q] = "idle" /\ pc'[q] = "initializeContract"
          /\ (mem'[q] \in OrderRequest => ExpiryOf[mem'[q].order] >= today)
       \/ pc[q] = "initializeContract" /\ pc'[q] = "checkNonce" /\ mem[q] \in OrderRequest
          /\ mem'[q].order = mem[q].order /\ mem'[q].account = sequence
       \/ /\ pc[q] = "checkNonce" /\ pc'[q] = "checkShop"
          /\ mem[q].order \notin nonces /\ mem'[q] = mem[q]
       \/ pc[q] = "checkShop" /\ pc'[q] = "submitOrder" /\ mem'[q] = mem[q]

LEMMA ReadsAreMinor ==
    ASSUME ContractTypeInv, NEW q \in Requests, ContractReads(q)
    PROVE  Minor(q)
  <1> USE DEF Minor, ContractTypeInv, ContractTypeOK, ContractRequestTypes, contractTables
  <1>1. CASE PostShop(q)
    BY <1>1 DEF ContractReads, PostShop, Receive, At, OrderRequest
  <1>2. CASE PostToken(q)
    BY <1>2 DEF ContractReads, PostToken, Receive, At, OrderRequest
  <1>3. CASE PostOrder(q)
    BY <1>3 DEF ContractReads, PostOrder, Receive, At
  <1>4. CASE InitializeContract(q)
    BY <1>4 DEF ContractReads, InitializeContract, At, Goto, ShopRequest, TokenRequest, OrderRequest
  <1>5. CASE CheckNonce(q)
    BY <1>5 DEF ContractReads, CheckNonce, At, Goto, Answer
  <1>6. CASE CheckShop(q)
    BY <1>6 DEF ContractReads, CheckShop, At, Goto, Answer
  <1> QED
    BY <1>1, <1>2, <1>3, <1>4, <1>5, <1>6 DEF ContractReads

\* Nor do the writes, but for an order that is paid and a nonce that is stored.
LEMMA WritesAreMinor ==
    ASSUME ContractTypeInv, NEW q \in Requests, ContractWrites(q)
    PROVE  \/ Minor(q)
           \/ /\ At(q, "submitOrder") /\ PayOrder(q)
              /\ UNCHANGED <<registry, nonces, today>>
           \/ StoreNonce(q) /\ UNCHANGED <<sequence, onChain, registry, today, paidOn>>
  <1> USE DEF Minor, ContractTypeInv, ContractTypeOK, ContractRequestTypes, Enters, At, Goto, Answer
  <1>1. CASE RegisterMerchant(q) /\ UNCHANGED <<registry, nonces, today>>
    BY <1>1 DEF RegisterMerchant, Refused, Executed
  <1>2. CASE AddSupportedToken(q) /\ UNCHANGED <<registry, nonces, today>>
    BY <1>2 DEF AddSupportedToken, Refused, Executed
  <1>3. CASE ProcessPayment(q) /\ UNCHANGED <<registry, nonces, today>>
    BY <1>3 DEF ProcessPayment, Refused
  <1>4. CASE CacheShop(q) /\ UNCHANGED <<sequence, onChain, nonces, today, paidOn>>
    BY <1>4 DEF CacheShop
  <1>5. CASE CacheToken(q) /\ UNCHANGED <<sequence, onChain, nonces, today, paidOn>>
    BY <1>5 DEF CacheToken
  <1> QED
    BY <1>1, <1>2, <1>3, <1>4, <1>5 DEF ContractWrites

\* A minor step keeps the invariant: a request that finds the nonce unused although the
\* order was paid either sees it late or comes on a later day.
LEMMA MinorStep ==
    ASSUME ContractInv, ContractTypeInv', ContractHistory, NEW q \in Requests, Minor(q)
    PROVE  ContractInv'
  <1> USE DEF ContractInv
  <1>1. PaymentInv'
    BY DEF PaymentInv, Minor, ContractTypeInv, ContractTypeOK, ContractRequestTypes, Paying, OrderRequest
  <1>2. DayInv'
    BY DEF DayInv, Minor
  <1>3. NonceInv'
    BY HistoryGrows DEF NonceInv, Minor
  <1>4. SequenceInv'
    <2>1. ASSUME NEW r \in Requests, r # q, pc'[r] \in Checked, onChain'.paid[mem'[r].order] > 0
          PROVE  \/ mem'[r].order \in unrecorded' \/ ExpiryOf[mem'[r].order] > paidOn'[mem'[r].order]
                 \/ mem'[r].account < sequence'
      BY <2>1, HistoryGrows DEF SequenceInv, PaymentInv, Minor, Checked, Paying, ContractTypeInv, ContractTypeOK
    <2>2. ASSUME pc[q] = "checkNonce", pc'[q] = "checkShop", mem'[q] = mem[q], mem[q].order \notin nonces,
                 onChain.paid[mem[q].order] > 0, mem[q].order \notin unrecorded'
          PROVE  ExpiryOf[mem[q].order] > paidOn[mem[q].order]
      <3>1. mem[q].order \in Orders /\ ExpiryOf[mem[q].order] >= today
        BY <2>2 DEF ContractTypeInv, ContractRequestTypes, Paying, OrderRequest, PaymentInv
      <3>2. \A p \in Requests : ~(pc[p] = "storeNonce" /\ mem[p].order = mem[q].order)
        BY <2>2, LateIsNoted DEF Late
      <3>3. today > paidOn[mem[q].order]
        BY <2>2, <3>1, <3>2, HistoryGrows DEF NonceInv
      <3> QED
        BY <2>2, <3>1, <3>3, ContractAssumption DEF ContractAssumption, DayInv, ContractTypeInv, ContractTypeOK
    <2>3. CASE pc[q] = "checkNonce" /\ pc'[q] = "checkShop"
      BY <2>1, <2>2, <2>3 DEF SequenceInv, Minor, Checked
    <2>4. CASE pc[q] = "checkShop" /\ pc'[q] = "submitOrder"
      BY <2>1, <2>4, HistoryGrows DEF SequenceInv, PaymentInv, Minor, Checked, Paying, ContractTypeInv, ContractTypeOK
    <2>5. CASE pc'[q] \notin Checked
      BY <2>1, <2>5 DEF SequenceInv, Minor, Checked
    <2> QED
      BY <2>3, <2>4, <2>5 DEF Minor, Checked
  <1>5. OrdersPaidOnce'
    BY HistoryGrows DEF OrdersPaidOnce, Minor
  <1> QED
    BY <1>1, <1>2, <1>3, <1>4, <1>5 DEF Minor

\* A payment is the first of its order, or an excepted one: another would need the
\* sequence number that the first has used.
LEMMA PaymentStep ==
    ASSUME ContractInv, ContractTypeInv', ContractHistory, NEW q \in Requests, At(q, "submitOrder"), PayOrder(q),
           UNCHANGED <<registry, nonces, today>>
    PROVE  ContractInv'
  <1> DEFINE o == mem[q].order
  <1> USE DEF ContractInv
  <1>1. /\ o \in Orders
        /\ mem[q].account = sequence
        /\ sequence' = sequence + 1
        /\ sequence \in Nat
        /\ onChain'.paid = [onChain.paid EXCEPT ![o] = @ + 1]
        /\ paidOn' = [paidOn EXCEPT ![o] = IF @ = None THEN today ELSE @]
        /\ onChain.paid \in [Orders -> Nat]
        /\ today \in Nat
    BY ContractAssumption
       DEF ContractAssumption, PayOrder, Executed, Enters, At, ContractTypeInv, ContractTypeOK, ContractRequestTypes,
           Paying, OrderRequest
  <1>2. /\ pc'[q] \in {"storeNonce", "idle"}
        /\ pc'[q] = "storeNonce" => mem'[q] = mem[q]
        /\ pc'[q] = "idle" => o \in unrecorded'
        /\ \A r \in Requests : r # q => pc'[r] = pc[r] /\ mem'[r] = mem[r]
    <2>1. onChain' # onChain
      BY <1>1
    <2> QED
      BY <2>1, MissingIsNoted DEF Missing, PayOrder, Executed, Goto, Answer, At, ContractTypeInv, ContractRequestTypes
  <1>3. PaymentInv'
    BY <1>1, <1>2 DEF PaymentInv, Paying, At
  <1>4. DayInv'
    BY <1>1, ContractAssumption DEF DayInv, ContractAssumption
  <1>5. NonceInv'
    BY <1>1, <1>2, HistoryGrows DEF NonceInv, DayInv, At
  <1>6. \A r \in Requests : pc'[r] \in Checked => mem'[r].account < sequence'
    BY <1>1, <1>2 DEF PaymentInv, Paying, Checked
  <1>7. SequenceInv'
    BY <1>6 DEF SequenceInv
  <1>8. OrdersPaidOnce'
    <2>1. ASSUME onChain.paid[o] > 0
          PROVE  o \in unrecorded' \/ ExpiryOf[o] > paidOn'[o]
      BY <1>1, <2>1, HistoryGrows, ContractAssumption DEF SequenceInv, At, Checked, DayInv, ContractAssumption
    <2>2. \A x \in Orders : x # o => onChain'.paid[x] = onChain.paid[x] /\ paidOn'[x] = paidOn[x]
      BY <1>1
    <2>3. onChain'.paid[o] > 1 => onChain.paid[o] > 0
      BY <1>1
    <2> QED
      BY <2>1, <2>2, <2>3, HistoryGrows DEF OrdersPaidOnce
  <1> QED
    BY <1>1, <1>3, <1>4, <1>5, <1>7, <1>8

LEMMA NonceStep ==
    ASSUME ContractInv, ContractTypeInv', ContractHistory, NEW q \in Requests, StoreNonce(q),
           UNCHANGED <<sequence, onChain, registry, today, paidOn>>
    PROVE  ContractInv'
  <1> USE DEF ContractInv, StoreNonce, At, Goto, Answer, ContractTypeInv, ContractRequestTypes
  <1>1. PaymentInv'
    BY DEF PaymentInv, Paying
  <1>2. DayInv'
    BY DEF DayInv
  <1>3. NonceInv'
    BY HistoryGrows DEF NonceInv
  <1>4. SequenceInv'
    BY HistoryGrows DEF SequenceInv, Checked
  <1>5. OrdersPaidOnce'
    BY HistoryGrows DEF OrdersPaidOnce
  <1> QED
    BY <1>1, <1>2, <1>3, <1>4, <1>5

LEMMA DayStep ==
    ASSUME ContractInv, ContractTypeInv', ContractHistory, NextDay
    PROVE  ContractInv'
  <1> USE DEF ContractInv, NextDay, handlerVars, At
  <1>1. PaymentInv'
    BY DEF PaymentInv, Paying
  <1>2. DayInv'
    BY ContractAssumption DEF DayInv, ContractAssumption, ContractTypeInv, ContractTypeOK
  <1>3. NonceInv'
    BY HistoryGrows, ContractAssumption DEF NonceInv, DayInv, ContractAssumption, ContractTypeInv, ContractTypeOK
  <1>4. SequenceInv'
    BY DEF SequenceInv, Checked
  <1>5. OrdersPaidOnce'
    BY HistoryGrows DEF OrdersPaidOnce
  <1> QED
    BY <1>1, <1>2, <1>3, <1>4, <1>5

\* A request that is cut off before it stores the nonce leaves it missing.
LEMMA ContractInterruptedStep ==
    ASSUME ContractInv, ContractTypeInv', NEW q \in Requests, ContractInterrupted(q)
    PROVE  ContractInv'
  <1>1. ContractHistory
    BY DEF ContractInterrupted
  <1>2. /\ pc'[q] = "idle"
        /\ \A r \in Requests : r # q => pc'[r] = pc[r] /\ mem'[r] = mem[r]
        /\ UNCHANGED <<contractTables, paidOn>>
    BY DEF ContractInterrupted, Interrupted, Answer, Goto, ContractInv, ContractTypeInv, ContractRequestTypes
  <1>3. CASE pc[q] # "storeNonce"
    <2>1. Minor(q)
      BY <1>2, <1>3 DEF Minor, contractTables, ContractInv, ContractTypeInv, ContractTypeOK
    <2> QED
      BY <1>1, <2>1, MinorStep
  <1>4. CASE pc[q] = "storeNonce"
    <2> USE DEF ContractInv, contractTables
    <2>1. mem[q].order \in nonces \/ mem[q].order \in unrecorded'
      BY <1>1, <1>2, <1>4, MissingIsNoted DEF Missing
    <2>2. NonceInv'
      BY <1>1, <1>2, <1>4, <2>1, HistoryGrows DEF NonceInv
    <2>3. PaymentInv'
      BY <1>2 DEF PaymentInv, Paying
    <2>4. DayInv'
      BY <1>2 DEF DayInv
    <2>5. SequenceInv'
      BY <1>1, <1>2, HistoryGrows DEF SequenceInv, Checked
    <2>6. OrdersPaidOnce'
      BY <1>1, <1>2, HistoryGrows DEF OrdersPaidOnce
    <2> QED
      BY <1>2, <2>2, <2>3, <2>4, <2>5, <2>6
  <1> QED
    BY <1>3, <1>4

LEMMA ContractFrame ==
    ASSUME ContractInv, PerRequest', UNCHANGED contractVars, Apart(ContractSteps)
    PROVE  ContractInv'
  <1> USE DEF ContractInv, contractVars, PerRequest, Apart, ContractSteps
  <1>1. ContractTypeInv'
    BY DEF ContractTypeInv, ContractTypeOK, ContractRequestTypes, Paying
  <1>2. PaymentInv' /\ DayInv'
    BY DEF PaymentInv, DayInv, Paying
  <1>3. NonceInv'
    BY DEF NonceInv
  <1>4. SequenceInv' /\ OrdersPaidOnce'
    BY DEF SequenceInv, OrdersPaidOnce, Checked
  <1> QED
    BY <1>1, <1>2, <1>3, <1>4

LEMMA ContractStepInv == Base /\ ContractInv /\ [Next]_vars => ContractInv'
  <1> SUFFICES ASSUME Base, ContractInv, [Next]_vars PROVE ContractInv'
    OBVIOUS
  <1>1. CASE UNCHANGED contractVars /\ Apart(ContractSteps)
    BY <1>1, ContractApart, ContractFrame
  <1>2. CASE ContractStep
    <2> USE <1>2 DEF ContractStep
    <2>1. ContractTypeInv'
      BY ContractTypeStep DEF ContractInv, ContractAct
    <2>2. ASSUME NEW q \in Requests, ContractInterrupted(q) PROVE ContractInv'
      BY <2>1, <2>2, ContractInterruptedStep
    <2>3. ASSUME NEW q \in Requests, ContractReads(q), ContractHistory PROVE ContractInv'
      BY <2>1, <2>3, ReadsAreMinor, MinorStep DEF ContractInv
    <2>4. ASSUME NEW q \in Requests, ContractWrites(q), ContractHistory PROVE ContractInv'
      BY <2>1, <2>4, WritesAreMinor, MinorStep, PaymentStep, NonceStep DEF ContractInv
    <2>5. ASSUME NextDay, ContractHistory PROVE ContractInv'
      BY <2>1, <2>5, DayStep
    <2> QED
      BY <2>2, <2>3, <2>4, <2>5 DEF ContractNext
  <1> QED
    BY <1>1, <1>2, ContractApart

LEMMA ContractInvariant == Spec => []ContractInv
  <1>1. Init => Base /\ ContractInv
    BY BaseInit, ContractInitInv DEF Init
  <1>2. Base /\ ContractInv /\ [Next]_vars => (Base /\ ContractInv)'
    BY BaseStep, ContractStepInv
  <1> QED
    BY <1>1, <1>2, PTL DEF Spec

\* The tables of the component, the account's sequence number and what the contract holds
\* have their types.
THEOREM ContractTypesCorrect == Spec => []ContractTypeOK
  <1>1. ContractInv => ContractTypeOK
    BY DEF ContractInv, ContractTypeInv
  <1> QED
    BY <1>1, ContractInvariant, PTL

\* An order is paid once, however many requests carry it, unless its nonce was late or
\* missing or forgotten while the order was still good (StellarContractService.ts lines
\* 237 to 310).
THEOREM PaidOnce == Spec => []OrdersPaidOnce
  <1>1. ContractInv => OrdersPaidOnce
    BY DEF ContractInv
  <1> QED
    BY <1>1, ContractInvariant, PTL

------------------------------------------------------------------------------
ThrottleAct == ThrottleNext \/ \E q \in Requests : ThrottleInterrupted(q)
Expiries == Days \cup {None, MaxDay + 1}

\* What a request holds at a step.
ThrottleHeldAt(step, m) ==
    /\ step \in {"isBlacklisted", "isWhitelisted", "countRequest", "logEvent", "countEvents"} =>
          m \in [host: Hosts, again: BOOLEAN]
    /\ step = "findEntry" => m \in [host: Hosts, again: BOOLEAN, list: Lists, until: Expiries]
    /\ step \in {"insertEntry", "saveEntry"} =>
          m \in [host: Hosts, again: BOOLEAN, list: Lists, row: Entry]
    /\ step = "expireEntry" =>
          m \in [host: Hosts, again: {TRUE}, list: Lists, row: Entry, then: {"isWhitelisted", "countRequest"}]

ThrottleRequestTypes ==
    /\ DOMAIN pc = Requests
    /\ DOMAIN mem = Requests
    /\ \A q \in Requests : ThrottleHeldAt(pc[q], mem[q])

ThrottleTypeInv == ThrottleTypeOK /\ ThrottleRequestTypes

\* Two requests hold one entry only if it is disputed.
SameEntry(q, r) ==
    /\ pc[q] \in HoldSteps
    /\ pc[r] \in HoldSteps
    /\ mem[q].list = mem[r].list
    /\ mem[q].host = mem[r].host
ThrottleAloneInv == \A q, r \in Requests :
    q # r /\ SameEntry(q, r) => <<mem[q].list, mem[q].host>> \in disputed

\* What is about to be deactivated is still what was read, and expired.
ThrottleFresh(m) ==
    LET row == entries[m.list][m.host] IN
    row # None /\ Expired(row) /\ m.row = [row EXCEPT !.isActive = FALSE]
ExpiringInv == \A q \in Requests : pc[q] = "expireEntry" =>
    <<mem[q].list, mem[q].host>> \in disputed \/ ThrottleFresh(mem[q])

\* An entry is the one that was granted, or that one deactivated after its date.
Agree(row, grant) ==
    /\ row = None <=> grant = None
    /\ row # None => /\ row.expiresAt = grant.expiresAt
                     /\ row.isActive = grant.isActive \/ Expired(grant)
AgreeInv == \A l \in Lists, h \in Hosts : <<l, h>> \notin disputed => Agree(entries[l][h], granted[l][h])

ThrottleInv == ThrottleTypeInv /\ ThrottleAloneInv /\ ExpiringInv /\ AgreeInv

\* Request q, and no other, goes to a step with what it must hold there.
ThrottleMoves(q) ==
    /\ DOMAIN pc' = Requests
    /\ DOMAIN mem' = Requests
    /\ \A r \in Requests \ {q} : pc'[r] = pc[r] /\ mem'[r] = mem[r]
    /\ ThrottleHeldAt(pc'[q], mem'[q])

------------------------------------------------------------------------------
LEMMA ThrottleInitInv == HandlersInit /\ (ThrottleInit \/ ThrottleIdle) => ThrottleInv
  <1> SUFFICES ASSUME HandlersInit, ThrottleInit \/ ThrottleIdle PROVE ThrottleInv
    OBVIOUS
  <1> USE ThrottleAssumption DEF ThrottleAssumption
  <1>1. /\ pc = [q \in Requests |-> "idle"]
        /\ mem = [q \in Requests |-> NoMemory]
    BY DEF HandlersInit
  <1>2. /\ entries = [l \in Lists |-> [h \in Hosts |-> None]]
        /\ granted = entries
        /\ day = 0
        /\ disputed = {}
        /\ strikes \in {[h \in Hosts |-> 0], [h \in Hosts |-> BanAfter]}
    BY DEF ThrottleInit, ThrottleIdle
  <1>3. ThrottleTypeInv
    <2>1. ThrottleTypeOK
      BY <1>2 DEF ThrottleTypeOK, Days
    <2>2. ThrottleHeldAt("idle", NoMemory)
      BY DEF ThrottleHeldAt
    <2> QED
      BY <1>1, <2>1, <2>2 DEF ThrottleTypeInv, ThrottleRequestTypes
  <1>4. \A q \in Requests : pc[q] \notin HoldSteps /\ pc[q] # "expireEntry"
    BY <1>1 DEF HoldSteps
  <1>5. ThrottleAloneInv /\ ExpiringInv
    BY <1>4 DEF ThrottleAloneInv, SameEntry, ExpiringInv
  <1>6. AgreeInv
    BY <1>2 DEF AgreeInv, Agree
  <1> QED
    BY <1>3, <1>5, <1>6 DEF ThrottleInv

\* How a request moves.
LEMMA ThrottleGotoMoves ==
    ASSUME ThrottleRequestTypes, NEW q \in Requests, NEW step, NEW m, ThrottleHeldAt(step, m),
           \/ Goto(q, step, m)
           \/ Receive(q, "throttling", step, m)
    PROVE  ThrottleMoves(q) /\ pc'[q] = step /\ mem'[q] = m
  BY DEF ThrottleRequestTypes, Goto, Receive, ThrottleMoves

LEMMA ThrottleAnswerMoves ==
    ASSUME ThrottleRequestTypes, NEW q \in Requests, Answer(q)
    PROVE  ThrottleMoves(q) /\ pc'[q] = "idle"
  <1>1. ThrottleHeldAt("idle", NoMemory)
    BY DEF ThrottleHeldAt
  <1> QED
    BY <1>1, ThrottleGotoMoves DEF Answer

LEMMA FinishMoves ==
    ASSUME ThrottleRequestTypes, NEW q \in Requests, Finish(q), mem[q].host \in Hosts
    PROVE  ThrottleMoves(q) /\ pc'[q] \in {"idle", "logEvent"}
  <1>1. ThrottleHeldAt("logEvent", [host |-> mem[q].host, again |-> FALSE])
    BY DEF ThrottleHeldAt
  <1>2. CASE Answer(q)
    BY <1>2, ThrottleAnswerMoves
  <1>3. CASE Goto(q, "logEvent", [host |-> mem[q].host, again |-> FALSE])
    BY <1>1, <1>3, ThrottleGotoMoves
  <1> QED
    BY <1>2, <1>3 DEF Finish

\* A lookup deactivates nothing but what it read and found expired.
LEMMA LookupMoves ==
    ASSUME ThrottleTypeInv, NEW q \in Requests, NEW l \in Lists, pc[q] \in {"isBlacklisted", "isWhitelisted"},
           NEW other \in {"isWhitelisted", "countRequest"}, Lookup(q, l, "logEvent", other)
    PROVE  ThrottleMoves(q) /\ (pc'[q] = "expireEntry" => ThrottleFresh(mem'[q]))
  <1> DEFINE h == mem[q].host
             row == entries[l][h]
             m == [host |-> h, again |-> TRUE, list |-> l, row |-> [row EXCEPT !.isActive = FALSE], then |-> other]
  <1>1. mem[q] \in [host: Hosts, again: BOOLEAN] /\ ThrottleRequestTypes
    BY DEF ThrottleTypeInv, ThrottleRequestTypes, ThrottleHeldAt
  <1>2. ThrottleHeldAt("logEvent", mem[q]) /\ ThrottleHeldAt(other, mem[q])
    BY <1>1 DEF ThrottleHeldAt
  <1>3. CASE Goto(q, "logEvent", mem[q]) \/ Goto(q, other, mem[q])
    BY <1>1, <1>2, <1>3, ThrottleGotoMoves
  <1>4. CASE Active(row) /\ Expired(row) /\ Goto(q, "expireEntry", m)
    <2>1. row \in Entry
      BY <1>1, <1>4 DEF ThrottleTypeInv, ThrottleTypeOK, Active
    <2>2. row # None
      BY <1>4 DEF Active
    <2>3. [row EXCEPT !.isActive = FALSE] \in Entry
      BY <2>1 DEF Entry
    <2>4. ThrottleHeldAt("expireEntry", m)
      BY <1>1, <2>3 DEF ThrottleHeldAt
    <2>5. ThrottleMoves(q) /\ mem'[q] = m
      BY <1>1, <1>4, <2>4, ThrottleGotoMoves
    <2> QED
      BY <1>4, <2>2, <2>5 DEF ThrottleFresh
  <1> QED
    BY <1>3, <1>4 DEF Lookup

\* What the actions that write nothing do.
LEMMA ThrottleReadsMove ==
    ASSUME ThrottleTypeInv, NEW q \in Requests, ThrottleReads(q)
    PROVE  ThrottleMoves(q) /\ (pc'[q] = "expireEntry" => ThrottleFresh(mem'[q]))
  <1>1. ThrottleRequestTypes /\ ThrottleHeldAt(pc[q], mem[q])
    BY DEF ThrottleTypeInv, ThrottleRequestTypes
  <1>2. None \in Expiries /\ day \in Expiries /\ day + 1 \in Expiries
    BY ThrottleAssumption DEF ThrottleTypeInv, ThrottleTypeOK, Expiries, Days, ThrottleAssumption
  <1>3. CASE Request(q) \/ RefusedByGlobal(q)
    <2>1. PICK h \in Hosts, again \in BOOLEAN, step \in {"isBlacklisted", "logEvent"} :
            Receive(q, "throttling", step, [host |-> h, again |-> again])
      BY <1>3 DEF Request, RefusedByGlobal
    <2>2. ThrottleHeldAt(step, [host |-> h, again |-> again])
      BY DEF ThrottleHeldAt
    <2> QED
      BY <1>1, <2>1, <2>2, ThrottleGotoMoves
  <1>4. CASE IsBlacklisted(q)
    BY <1>4, LookupMoves DEF IsBlacklisted, At, Lists
  <1>5. CASE IsWhitelisted(q)
    BY <1>5, LookupMoves DEF IsWhitelisted, At, Lists
  <1>6. CASE LookupFails(q)
    <2>1. CASE pc[q] \in {"isBlacklisted", "isWhitelisted"}
      <3>1. \A step \in {"isWhitelisted", "countRequest"} : ThrottleHeldAt(step, mem[q])
        BY <1>1, <2>1 DEF ThrottleHeldAt
      <3> QED
        BY <1>1, <1>6, <2>1, <3>1, ThrottleGotoMoves DEF LookupFails, At
    <2>2. CASE At(q, "expireEntry") /\ Goto(q, mem[q].then, [host |-> mem[q].host, again |-> TRUE])
      <3>1. /\ mem[q].then \in {"isWhitelisted", "countRequest"}
            /\ ThrottleHeldAt(mem[q].then, [host |-> mem[q].host, again |-> TRUE])
        BY <1>1, <2>2 DEF ThrottleHeldAt, At
      <3> QED
        BY <1>1, <2>2, <3>1, ThrottleGotoMoves
    <2> QED
      BY <1>6, <2>1, <2>2 DEF LookupFails, At
  <1>7. CASE CountRequest(q)
    <2>1. ThrottleHeldAt("logEvent", mem[q])
      BY <1>1, <1>7 DEF ThrottleHeldAt, CountRequest, At
    <2> QED
      BY <1>1, <1>7, <2>1, ThrottleGotoMoves, ThrottleAnswerMoves DEF CountRequest
  <1>8. CASE CheckForAdvancedSuspiciousActivity(q)
    <2> DEFINE m == [host |-> mem[q].host, again |-> mem[q].again, list |-> "black", until |-> day + 1]
    <2>1. mem[q].host \in Hosts /\ ThrottleHeldAt("findEntry", m)
      BY <1>1, <1>2, <1>8 DEF ThrottleHeldAt, CheckForAdvancedSuspiciousActivity, At, Lists
    <2>2. CASE Goto(q, "findEntry", m)
      BY <1>1, <2>1, <2>2, ThrottleGotoMoves
    <2>3. CASE Finish(q)
      BY <1>1, <2>1, <2>3, FinishMoves
    <2> QED
      BY <1>8, <2>2, <2>3 DEF CheckForAdvancedSuspiciousActivity
  <1>9. CASE PostBlacklist(q) \/ PostWhitelist(q)
    <2>1. PICK h \in Hosts, until \in Expiries, l \in Lists :
            Receive(q, "throttling", "findEntry", [host |-> h, again |-> FALSE, list |-> l, until |-> until])
      BY <1>2, <1>9 DEF PostBlacklist, PostWhitelist, Lists
    <2>2. ThrottleHeldAt("findEntry", [host |-> h, again |-> FALSE, list |-> l, until |-> until])
      BY DEF ThrottleHeldAt
    <2> QED
      BY <1>1, <2>1, <2>2, ThrottleGotoMoves
  <1>10. ASSUME NEW l \in Lists, AddTo(q, l)
         PROVE  ThrottleMoves(q) /\ pc'[q] # "expireEntry"
    <2> DEFINE old == entries[l][mem[q].host]
               new == [isActive |-> TRUE, expiresAt |->
                         IF mem[q].until = None /\ old # None THEN old.expiresAt ELSE mem[q].until]
               m == [host |-> mem[q].host, again |-> mem[q].again, list |-> l, row |-> new]
    <2>1. mem[q] \in [host: Hosts, again: BOOLEAN, list: Lists, until: Expiries]
      BY <1>1, <1>10 DEF ThrottleHeldAt, AddTo, At
    <2>2. old \in Entry \cup {None}
      BY <2>1 DEF ThrottleTypeInv, ThrottleTypeOK
    <2>3. new \in Entry
      BY <2>1, <2>2 DEF Entry, Expiries
    <2>4. \A step \in {"insertEntry", "saveEntry"} : ThrottleHeldAt(step, m)
      BY <2>1, <2>3 DEF ThrottleHeldAt
    <2>5. Goto(q, "insertEntry", m) \/ Goto(q, "saveEntry", m)
      BY <1>10 DEF AddTo
    <2> HIDE DEF m
    <2> QED
      BY <1>1, <2>4, <2>5, ThrottleGotoMoves
  <1>11. ASSUME NEW l \in Lists, RemoveFrom(q, l)
         PROVE  ThrottleMoves(q) /\ pc'[q] # "expireEntry"
    <2>1. PICK h \in Hosts :
            /\ entries[l][h] # None
            /\ Receive(q, "throttling", "saveEntry", [host |-> h, again |-> FALSE, list |-> l,
                  row |-> [entries[l][h] EXCEPT !.isActive = FALSE]])
      BY <1>11 DEF RemoveFrom
    <2>2. entries[l][h] \in Entry
      BY <2>1 DEF ThrottleTypeInv, ThrottleTypeOK
    <2>3. [entries[l][h] EXCEPT !.isActive = FALSE] \in Entry
      BY <2>2 DEF Entry
    <2>4. ThrottleHeldAt("saveEntry", [host |-> h, again |-> FALSE, list |-> l,
                  row |-> [entries[l][h] EXCEPT !.isActive = FALSE]])
      BY <2>3 DEF ThrottleHeldAt
    <2> QED
      BY <1>1, <2>1, <2>4, ThrottleGotoMoves
  <1>12. CASE LogFails(q)
    <2>1. mem[q].host \in Hosts
      BY <1>1, <1>12 DEF ThrottleHeldAt, LogFails
    <2> QED
      BY <1>1, <1>12, <2>1, FinishMoves DEF LogFails
  <1> QED
    BY <1>3, <1>4, <1>5, <1>6, <1>7, <1>8, <1>9, <1>10, <1>11, <1>12
       DEF ThrottleReads, AddToBlacklist, AddToWhitelist, RemoveFromBlacklist, RemoveFromWhitelist, Lists

\* What those that write do.
LEMMA ExpireMoves ==
    ASSUME ThrottleTypeInv, NEW q \in Requests, ExpireEntry(q)
    PROVE  /\ ThrottleMoves(q)
           /\ pc'[q] \in {"isWhitelisted", "countRequest"}
           /\ mem[q].list \in Lists /\ mem[q].host \in Hosts /\ mem[q].row \in Entry
  <1>1. mem[q] \in [host: Hosts, again: {TRUE}, list: Lists, row: Entry, then: {"isWhitelisted", "countRequest"}]
    BY DEF ThrottleTypeInv, ThrottleRequestTypes, ThrottleHeldAt, ExpireEntry, At
  <1>2. ThrottleHeldAt(mem[q].then, [host |-> mem[q].host, again |-> TRUE])
    BY <1>1 DEF ThrottleHeldAt
  <1>3. mem[q].then \in {"isWhitelisted", "countRequest"} /\ mem[q].list \in Lists /\ mem[q].host \in Hosts
        /\ mem[q].row \in Entry
    BY <1>1
  <1>4. Goto(q, mem[q].then, [host |-> mem[q].host, again |-> TRUE])
    BY DEF ExpireEntry
  <1> QED
    BY <1>2, <1>3, <1>4, ThrottleGotoMoves DEF ThrottleTypeInv

LEMMA LogMoves ==
    ASSUME ThrottleTypeInv, NEW q \in Requests, LogAdvancedRateLimitEvent(q)
    PROVE  ThrottleMoves(q) /\ pc'[q] = "countEvents" /\ mem[q].host \in Hosts
  <1>1. mem[q] \in [host: Hosts, again: BOOLEAN] /\ ThrottleHeldAt("countEvents", mem[q])
    BY DEF ThrottleTypeInv, ThrottleRequestTypes, ThrottleHeldAt, LogAdvancedRateLimitEvent, At
  <1> QED
    BY <1>1, ThrottleGotoMoves DEF ThrottleTypeInv, LogAdvancedRateLimitEvent

LEMMA WriteMoves ==
    ASSUME ThrottleTypeInv, NEW q \in Requests, InsertEntry(q) \/ SaveEntry(q)
    PROVE  /\ ThrottleMoves(q)
           /\ pc'[q] \in {"idle", "logEvent"}
           /\ mem[q].list \in Lists /\ mem[q].host \in Hosts /\ mem[q].row \in Entry
  <1>1. mem[q] \in [host: Hosts, again: BOOLEAN, list: Lists, row: Entry]
    BY DEF ThrottleTypeInv, ThrottleRequestTypes, ThrottleHeldAt, InsertEntry, SaveEntry, At
  <1> QED
    BY <1>1, FinishMoves DEF ThrottleTypeInv, InsertEntry, SaveEntry

------------------------------------------------------------------------------
\* Saving an entry changes that entry.
LEMMA SetEntryIsLocal ==
    ASSUME NEW f \in [Lists -> [Hosts -> Entry \cup {None}]], NEW l \in Lists, NEW h \in Hosts, NEW row \in Entry
    PROVE  /\ SetEntry(f, l, h, row) \in [Lists -> [Hosts -> Entry \cup {None}]]
           /\ SetEntry(f, l, h, row)[l][h] = row
           /\ \A k \in Lists, g \in Hosts : k # l \/ g # h => SetEntry(f, l, h, row)[k][g] = f[k][g]
  BY DEF SetEntry

\* The types are inductive.
LEMMA ThrottleMovesTypes ==
    ASSUME ThrottleRequestTypes, NEW q \in Requests, ThrottleMoves(q)
    PROVE  ThrottleRequestTypes'
  <1>1. \A r \in Requests : ThrottleHeldAt(pc'[r], mem'[r])
    BY DEF ThrottleRequestTypes, ThrottleMoves
  <1>2. (\A r \in Requests : ThrottleHeldAt(pc[r], mem[r]))'
    BY <1>1 DEF ThrottleHeldAt
  <1> QED
    BY <1>2 DEF ThrottleRequestTypes, ThrottleMoves

LEMMA ThrottleInterruptMoves ==
    ASSUME ThrottleTypeInv, NEW q \in Requests, ThrottleInterrupted(q)
    PROVE  ThrottleMoves(q) /\ pc'[q] = "idle"
  BY ThrottleAnswerMoves DEF ThrottleTypeInv, ThrottleInterrupted, Interrupted

LEMMA ThrottleTypeStep == ThrottleTypeInv /\ ThrottleAct => ThrottleTypeInv'
  <1> SUFFICES ASSUME ThrottleTypeInv, ThrottleAct PROVE ThrottleTypeInv'
    OBVIOUS
  <1>1. ThrottleTypeOK /\ ThrottleRequestTypes /\ BanAfter \in Nat /\ MaxDay \in Nat
    BY ThrottleAssumption DEF ThrottleTypeInv, ThrottleAssumption
  <1>2. CASE DayPasses
    <2>1. ThrottleTypeOK'
      BY <1>1, <1>2 DEF ThrottleTypeOK, DayPasses, Days
    <2>2. ThrottleRequestTypes'
      BY <1>1, <1>2 DEF ThrottleRequestTypes, ThrottleHeldAt, DayPasses, handlerVars
    <2> QED
      BY <2>1, <2>2 DEF ThrottleTypeInv
  <1>3. CASE StrikesFade
    <2>1. ThrottleTypeOK'
      BY <1>1, <1>3 DEF ThrottleTypeOK, StrikesFade
    <2>2. ThrottleRequestTypes'
      BY <1>1, <1>3 DEF ThrottleRequestTypes, ThrottleHeldAt, StrikesFade, handlerVars
    <2> QED
      BY <2>1, <2>2 DEF ThrottleTypeInv
  <1>4. ASSUME NEW q \in Requests, ThrottleInterrupted(q) PROVE ThrottleTypeInv'
    <2>1. ThrottleTypeOK'
      BY <1>1, <1>4 DEF ThrottleTypeOK, ThrottleInterrupted, throttleVars
    <2> QED
      BY <1>1, <1>4, <2>1, ThrottleInterruptMoves, ThrottleMovesTypes DEF ThrottleTypeInv
  <1>5. ASSUME NEW q \in Requests, ThrottleReads(q) PROVE ThrottleTypeInv'
    <2>1. ThrottleTypeOK'
      BY <1>1, <1>5 DEF ThrottleTypeOK, ThrottleReads, throttleTables
    <2> QED
      BY <1>1, <1>5, <2>1, ThrottleReadsMove, ThrottleMovesTypes DEF ThrottleTypeInv
  <1>6. ASSUME NEW q \in Requests, ExpireEntry(q) PROVE ThrottleTypeInv'
    <2>1. ThrottleTypeOK'
      BY <1>1, <1>6, ExpireMoves DEF ThrottleTypeOK, ExpireEntry, SetEntry
    <2> QED
      BY <1>1, <1>6, <2>1, ExpireMoves, ThrottleMovesTypes DEF ThrottleTypeInv
  <1>7. ASSUME NEW q \in Requests, LogAdvancedRateLimitEvent(q) PROVE ThrottleTypeInv'
    <2>1. ThrottleTypeOK'
      <3>1. mem[q].host \in Hosts
        BY <1>7, LogMoves
      <3>2. strikes[mem[q].host] \in 0 .. BanAfter + 1
        BY <1>1, <3>1 DEF ThrottleTypeOK
      <3>3. (IF strikes[mem[q].host] > BanAfter THEN strikes[mem[q].host] ELSE strikes[mem[q].host] + 1)
               \in 0 .. BanAfter + 1
        BY <1>1, <3>2
      <3>4. strikes' \in [Hosts -> 0 .. BanAfter + 1]
        BY <1>1, <1>7, <3>1, <3>3 DEF ThrottleTypeOK, LogAdvancedRateLimitEvent
      <3> QED
        BY <1>1, <1>7, <3>4 DEF ThrottleTypeOK, LogAdvancedRateLimitEvent
    <2> QED
      BY <1>1, <1>7, <2>1, LogMoves, ThrottleMovesTypes DEF ThrottleTypeInv
  <1>8. ASSUME NEW q \in Requests, InsertEntry(q) \/ SaveEntry(q) PROVE ThrottleTypeInv'
    <2>1. ThrottleTypeOK'
      <3>1. mem[q].list \in Lists /\ mem[q].host \in Hosts /\ mem[q].row \in Entry
        BY <1>8, WriteMoves
      <3>2. /\ strikes' = strikes /\ day' = day
            /\ \/ entries' = entries /\ granted' = granted
               \/ /\ entries' = SetEntry(entries, mem[q].list, mem[q].host, mem[q].row)
                  /\ granted' = SetEntry(granted, mem[q].list, mem[q].host, mem[q].row)
        BY <1>8 DEF InsertEntry, SaveEntry
      <3>3. /\ entries \in [Lists -> [Hosts -> Entry \cup {None}]]
            /\ granted \in [Lists -> [Hosts -> Entry \cup {None}]]
        BY <1>1 DEF ThrottleTypeOK
      <3>4. /\ SetEntry(entries, mem[q].list, mem[q].host, mem[q].row) \in [Lists -> [Hosts -> Entry \cup {None}]]
            /\ SetEntry(granted, mem[q].list, mem[q].host, mem[q].row) \in [Lists -> [Hosts -> Entry \cup {None}]]
        BY <3>1, <3>3, SetEntryIsLocal
      <3>5. /\ entries' \in [Lists -> [Hosts -> Entry \cup {None}]]
            /\ granted' \in [Lists -> [Hosts -> Entry \cup {None}]]
        BY <3>2, <3>3, <3>4
      <3> QED
        BY <1>1, <3>2, <3>5 DEF ThrottleTypeOK, Days
    <2> QED
      BY <1>1, <1>8, <2>1, WriteMoves, ThrottleMovesTypes DEF ThrottleTypeInv
  <1> QED
    BY <1>2, <1>3, <1>4, <1>5, <1>6, <1>7, <1>8 DEF ThrottleAct, ThrottleNext

\* Of two requests that hold one entry, the later makes it disputed.
LEMMA DisputedGrows == ThrottleAct => disputed \subseteq disputed'
  BY DEF ThrottleAct, ThrottleNext, ThrottleHistory, ThrottleInterrupted, throttleVars

LEMMA ThrottleAloneStep == ThrottleInv /\ ThrottleAct => ThrottleAloneInv'
  <1> SUFFICES ASSUME ThrottleInv, ThrottleAct,
                      NEW q \in Requests, NEW r \in Requests, q # r,
                      pc'[q] \in HoldSteps, pc'[r] \in HoldSteps,
                      mem'[q].list = mem'[r].list, mem'[q].host = mem'[r].host
               PROVE  <<mem'[q].list, mem'[q].host>> \in disputed'
    BY DEF ThrottleAloneInv, SameEntry
  <1>1. mem'[q].list \in Lists /\ mem'[q].host \in Hosts
    <2>1. ThrottleTypeInv'
      BY ThrottleTypeStep DEF ThrottleInv
    <2>2. ThrottleHeldAt(pc'[q], mem'[q])
      BY <2>1 DEF ThrottleTypeInv, ThrottleRequestTypes, ThrottleHeldAt
    <2> QED
      BY <2>2 DEF ThrottleHeldAt, HoldSteps
  <1>2. CASE ThrottleHistory
    <2>1. <<mem'[q].list, mem'[q].host>> \in Holds(q) \cap Holds(r)
      BY DEF Holds
    <2> QED
      BY <1>1, <1>2, <2>1 DEF ThrottleHistory
  <1>3. ASSUME NEW s \in Requests, ThrottleInterrupted(s)
        PROVE  <<mem'[q].list, mem'[q].host>> \in disputed'
    <2>1. ThrottleMoves(s) /\ pc'[s] = "idle" /\ disputed' = disputed
      BY <1>3, ThrottleInterruptMoves DEF ThrottleInv, ThrottleInterrupted, throttleVars
    <2>2. q # s /\ r # s
      BY <2>1 DEF HoldSteps
    <2> QED
      BY <2>1, <2>2 DEF ThrottleMoves, ThrottleInv, ThrottleAloneInv, SameEntry
  <1> QED
    BY <1>2, <1>3 DEF ThrottleAct, ThrottleNext

\* An entry that has expired stays so.
LEMMA ExpiredStays ==
    ASSUME ThrottleTypeInv, ThrottleAct, NEW row \in Entry, Expired(row)
    PROVE  Expired(row)'
  <1>1. day \in Nat /\ MaxDay \in Nat /\ None \notin Nat
    BY ThrottleAssumption DEF ThrottleTypeInv, ThrottleTypeOK, Days, ThrottleAssumption
  <1>2. day' = day \/ day' = day + 1
    BY DEF ThrottleAct, ThrottleNext, ThrottleReads, throttleTables, throttleVars, ThrottleInterrupted, DayPasses,
           StrikesFade, ExpireEntry, LogAdvancedRateLimitEvent, InsertEntry, SaveEntry
  <1>3. row.expiresAt = None \/ row.expiresAt \in Nat
    BY <1>1 DEF Entry, Days
  <1> QED
    BY <1>1, <1>2, <1>3 DEF Expired

\* Two requests that are not told apart by `disputed` never hold one entry.
LEMMA OthersEntry ==
    ASSUME ThrottleInv, NEW q \in Requests, NEW r \in Requests, q # r,
           pc[q] \in HoldSteps, pc[r] = "expireEntry", <<mem[r].list, mem[r].host>> \notin disputed
    PROVE  mem[r].list # mem[q].list \/ mem[r].host # mem[q].host
  BY DEF ThrottleInv, ThrottleAloneInv, SameEntry, HoldSteps

\* What a request is about to deactivate stays as it was read while nobody else holds it.
LEMMA FreshStays ==
    ASSUME ThrottleTypeInv, ThrottleAct, NEW m, m.list \in Lists, m.host \in Hosts, ThrottleFresh(m),
           entries'[m.list][m.host] = entries[m.list][m.host]
    PROVE  ThrottleFresh(m)'
  <1> DEFINE row == entries[m.list][m.host]
  <1>1. row \in Entry
    BY DEF ThrottleTypeInv, ThrottleTypeOK, ThrottleFresh
  <1>2. Expired(row)'
    BY <1>1, ExpiredStays DEF ThrottleFresh
  <1> QED
    BY <1>2 DEF ThrottleFresh

LEMMA ExpiringStep == ThrottleInv /\ ThrottleAct => ExpiringInv'
  <1> SUFFICES ASSUME ThrottleInv, ThrottleAct, NEW r \in Requests, pc'[r] = "expireEntry",
                      <<mem'[r].list, mem'[r].host>> \notin disputed'
               PROVE  ThrottleFresh(mem[r])'
    BY DEF ExpiringInv, ThrottleFresh, Expired
  <1>1. ThrottleTypeInv /\ ThrottleTypeInv' /\ disputed \subseteq disputed'
    BY ThrottleTypeStep, DisputedGrows DEF ThrottleInv
  <1>2. mem'[r].list \in Lists /\ mem'[r].host \in Hosts
    BY <1>1 DEF ThrottleTypeInv, ThrottleRequestTypes, ThrottleHeldAt
  <1>3. ASSUME pc[r] = "expireEntry", mem'[r] = mem[r],
               entries'[mem[r].list][mem[r].host] = entries[mem[r].list][mem[r].host]
        PROVE  ThrottleFresh(mem[r])'
    <2>1. ThrottleFresh(mem[r])
      BY <1>1, <1>3 DEF ThrottleInv, ExpiringInv
    <2> QED
      BY <1>1, <1>2, <1>3, <2>1, FreshStays DEF ThrottleFresh, Expired
  <1>4. CASE DayPasses \/ StrikesFade
    BY <1>3, <1>4 DEF DayPasses, StrikesFade, handlerVars
  <1>5. ASSUME NEW q \in Requests, ThrottleReads(q) PROVE ThrottleFresh(mem[r])'
    <2>1. entries' = entries /\ day' = day
      BY <1>5 DEF ThrottleReads, throttleTables
    <2>2. CASE r = q
      BY <1>1, <1>5, <2>1, <2>2, ThrottleReadsMove DEF ThrottleFresh, Expired
    <2>3. CASE r # q
      BY <1>1, <1>3, <1>5, <2>1, <2>3, ThrottleReadsMove DEF ThrottleMoves
    <2> QED
      BY <2>2, <2>3
  <1>6. ASSUME NEW q \in Requests, ThrottleInterrupted(q) \/ LogAdvancedRateLimitEvent(q)
        PROVE  ThrottleFresh(mem[r])'
    BY <1>1, <1>3, <1>6, ThrottleInterruptMoves, LogMoves
       DEF ThrottleMoves, ThrottleInterrupted, LogAdvancedRateLimitEvent, throttleVars
  <1>7. ASSUME NEW q \in Requests, ExpireEntry(q) \/ InsertEntry(q) \/ SaveEntry(q)
        PROVE  ThrottleFresh(mem[r])'
    <2>1. /\ ThrottleMoves(q)
          /\ pc'[q] # "expireEntry"
          /\ mem[q].list \in Lists /\ mem[q].host \in Hosts
      BY <1>1, <1>7, ExpireMoves, WriteMoves
    <2>2. r # q /\ pc[r] = "expireEntry" /\ mem'[r] = mem[r]
      BY <2>1 DEF ThrottleMoves
    <2>3. pc[q] \in HoldSteps
      BY <1>7 DEF ExpireEntry, InsertEntry, SaveEntry, At, HoldSteps
    <2>4. mem[r].list # mem[q].list \/ mem[r].host # mem[q].host
      BY <1>1, <2>2, <2>3, OthersEntry
    <2>5. entries'[mem[r].list][mem[r].host] = entries[mem[r].list][mem[r].host]
      <3>1. mem[r].list \in Lists /\ mem[r].host \in Hosts /\ mem[q].row \in Entry
        BY <1>1, <1>2, <1>7, <2>2, ExpireMoves, WriteMoves
      <3>2. entries' = entries \/ entries' = SetEntry(entries, mem[q].list, mem[q].host, mem[q].row)
        BY <1>7 DEF ExpireEntry, InsertEntry, SaveEntry
      <3>3. entries \in [Lists -> [Hosts -> Entry \cup {None}]]
        BY <1>1 DEF ThrottleTypeInv, ThrottleTypeOK
      <3>4. SetEntry(entries, mem[q].list, mem[q].host, mem[q].row)[mem[r].list][mem[r].host]
               = entries[mem[r].list][mem[r].host]
        BY <2>1, <2>4, <3>1, <3>3, SetEntryIsLocal
      <3> QED
        BY <3>2, <3>4
    <2> QED
      BY <1>3, <2>2, <2>5
  <1> QED
    BY <1>4, <1>5, <1>6, <1>7 DEF ThrottleAct, ThrottleNext

LEMMA AgreeStep == ThrottleInv /\ ThrottleAct => AgreeInv'
  <1> SUFFICES ASSUME ThrottleInv, ThrottleAct, NEW l \in Lists, NEW h \in Hosts, <<l, h>> \notin disputed'
               PROVE  Agree(entries[l][h], granted[l][h])'
    BY DEF AgreeInv, Agree, Expired
  <1> DEFINE row == entries[l][h]
             grant == granted[l][h]
  <1>1. /\ ThrottleTypeInv
        /\ <<l, h>> \notin disputed
        /\ Agree(row, grant)
        /\ row \in Entry \cup {None}
        /\ grant \in Entry \cup {None}
    BY DisputedGrows DEF ThrottleInv, AgreeInv, ThrottleTypeInv, ThrottleTypeOK
  <1>2. ASSUME row' = row, grant' = grant PROVE Agree(row, grant)'
    BY <1>1, <1>2, ExpiredStays DEF Agree
  <1>3. CASE UNCHANGED <<entries, granted>>
    BY <1>2, <1>3
  <1>4. ASSUME NEW q \in Requests, ExpireEntry(q) PROVE Agree(row, grant)'
    <2>1. /\ mem[q].list \in Lists /\ mem[q].host \in Hosts
          /\ pc[q] = "expireEntry"
          /\ entries' = SetEntry(entries, mem[q].list, mem[q].host, mem[q].row)
          /\ granted' = granted
          /\ day' = day
      BY <1>1, <1>4, ExpireMoves DEF ExpireEntry, At
    <2>2. CASE mem[q].list = l /\ mem[q].host = h
      <3>1. ThrottleFresh(mem[q])
        BY <1>1, <2>1, <2>2 DEF ThrottleInv, ExpiringInv
      <3>2. row # None /\ Expired(row) /\ mem[q].row = [row EXCEPT !.isActive = FALSE]
        BY <2>2, <3>1 DEF ThrottleFresh
      <3>3. row' = mem[q].row
        BY <1>1, <2>1, <2>2 DEF SetEntry, ThrottleTypeInv, ThrottleTypeOK
      <3>4. row \in Entry /\ grant \in Entry /\ row.expiresAt = grant.expiresAt
        BY <1>1, <3>2 DEF Agree
      <3>5. mem[q].row \in Entry /\ mem[q].row.isActive = FALSE /\ mem[q].row.expiresAt = row.expiresAt
        BY <3>2, <3>4 DEF Entry
      <3>6. row' # None /\ grant # None
        BY <3>3, <3>4, <3>5, ThrottleAssumption DEF ThrottleAssumption
      <3>7. Expired(grant)'
        BY <2>1, <3>2, <3>4 DEF Expired
      <3> QED
        BY <2>1, <3>3, <3>4, <3>5, <3>6, <3>7 DEF Agree
    <2>3. CASE mem[q].list # l \/ mem[q].host # h
      <3>1. row' = row /\ grant' = grant
        BY <1>1, <2>1, <2>3 DEF SetEntry, ThrottleTypeInv, ThrottleTypeOK
      <3> QED
        BY <1>2, <3>1
    <2> QED
      BY <2>2, <2>3
  <1>5. ASSUME NEW q \in Requests, InsertEntry(q) \/ SaveEntry(q) PROVE Agree(row, grant)'
    <2>1. /\ mem[q].list \in Lists /\ mem[q].host \in Hosts /\ mem[q].row \in Entry
          /\ \/ UNCHANGED <<entries, granted>>
             \/ /\ entries' = SetEntry(entries, mem[q].list, mem[q].host, mem[q].row)
                /\ granted' = SetEntry(granted, mem[q].list, mem[q].host, mem[q].row)
      BY <1>1, <1>5, WriteMoves DEF InsertEntry, SaveEntry
    <2>2. (row' = mem[q].row /\ grant' = mem[q].row) \/ (row' = row /\ grant' = grant)
      BY <1>1, <2>1 DEF SetEntry, ThrottleTypeInv, ThrottleTypeOK
    <2>3. CASE row' = mem[q].row /\ grant' = mem[q].row
      BY <2>3 DEF Agree
    <2> QED
      BY <1>2, <2>2, <2>3
  <1> QED
    BY <1>3, <1>4, <1>5
       DEF ThrottleAct, ThrottleNext, ThrottleReads, throttleTables, throttleVars, ThrottleInterrupted, DayPasses,
           StrikesFade, LogAdvancedRateLimitEvent

------------------------------------------------------------------------------
LEMMA ThrottleFrame ==
    ASSUME ThrottleInv, PerRequest', UNCHANGED throttleVars, Apart(ThrottleSteps)
    PROVE  ThrottleInv'
  <1> USE DEF ThrottleInv, throttleVars, PerRequest, Apart, ThrottleSteps, HoldSteps
  <1>1. ThrottleTypeInv'
    BY DEF ThrottleTypeInv, ThrottleTypeOK, ThrottleRequestTypes, ThrottleHeldAt
  <1>2. ThrottleAloneInv'
    BY DEF ThrottleAloneInv, SameEntry
  <1>3. ExpiringInv'
    BY DEF ExpiringInv, ThrottleFresh, Expired
  <1>4. AgreeInv'
    BY DEF AgreeInv, Agree, Expired
  <1> QED
    BY <1>1, <1>2, <1>3, <1>4

LEMMA ThrottleInvariant == Spec => []ThrottleInv
  <1>1. Init => Base /\ ThrottleInv
    BY BaseInit, ThrottleInitInv DEF Init
  <1>2. ThrottleInv /\ ThrottleStep => ThrottleInv'
    BY ThrottleTypeStep, ThrottleAloneStep, ExpiringStep, AgreeStep DEF ThrottleInv, ThrottleStep, ThrottleAct
  <1>3. Base /\ ThrottleInv /\ [Next]_vars => (Base /\ ThrottleInv)'
    BY <1>2, BaseStep, ThrottleApart, ThrottleFrame
  <1> QED
    BY <1>1, <1>3, PTL DEF Spec

LEMMA AgreementSuffices == ThrottleInv => ListsAreAsGranted
  <1> SUFFICES ASSUME ThrottleInv, NEW l \in Lists, NEW h \in Hosts, <<l, h>> \notin disputed
               PROVE  /\ InForce(entries[l][h]) <=> InForce(granted[l][h])
                      /\ entries[l][h] # None => entries[l][h].expiresAt = granted[l][h].expiresAt
    BY DEF ListsAreAsGranted
  <1> DEFINE row == entries[l][h]
             grant == granted[l][h]
  <1>1. Agree(row, grant)
    BY DEF ThrottleInv, AgreeInv
  <1>2. CASE row = None
    BY <1>1, <1>2 DEF Agree, InForce, Active
  <1>3. CASE row # None
    <2>1. Expired(row) <=> Expired(grant)
      BY <1>1, <1>3 DEF Agree, Expired
    <2>2. row.isActive = grant.isActive \/ Expired(grant)
      BY <1>1, <1>3 DEF Agree
    <2>3. row # None /\ grant # None
      BY <1>1, <1>3 DEF Agree
    <2>4. row \in Entry /\ grant \in Entry
      BY <2>3 DEF ThrottleInv, ThrottleTypeInv, ThrottleTypeOK
    <2>5. row.isActive \in BOOLEAN /\ grant.isActive \in BOOLEAN
      BY <2>4 DEF Entry
    <2>6. (Active(row) <=> row.isActive) /\ (Active(grant) <=> grant.isActive)
      BY <2>3, <2>5 DEF Active
    <2>7. InForce(row) <=> InForce(grant)
      BY <2>1, <2>2, <2>5, <2>6 DEF InForce
    <2> QED
      BY <1>1, <2>3, <2>7 DEF Agree
  <1> QED
    BY <1>2, <1>3

\* The two lists, the counters of refusals and the clock keep their types (entities
\* RateLimitBlacklist and RateLimitWhitelist), whatever the requests and the failures.
THEOREM ThrottleTypesCorrect == Spec => []ThrottleTypeOK
  <1>1. ThrottleInv => ThrottleTypeOK
    BY DEF ThrottleInv, ThrottleTypeInv
  <1> QED
    BY <1>1, ThrottleInvariant, PTL

\* Whatever the number of requests, addresses and days: a ban or a pass is in force
\* exactly as the last call that changed its entry was answered, unless two requests were
\* about to save it at once (whitelistBlacklistService.ts).
THEOREM ListsHold == Spec => []ListsAreAsGranted
  BY ThrottleInvariant, AgreementSuffices, PTL

------------------------------------------------------------------------------
SignInAct == SignInNext \/ \E q \in Requests : SignInInterrupted(q)
Codes == Secrets \cup {None}
Attempt == [member: Members, password: Passwords, by: {"password"}, code: Codes]
ByAuth0 == [member: Members, by: {"auth0"}, code: {None}]

\* What a request holds at a step.
SignInHeldAt(step, m) ==
    /\ step \in SignInSteps => m.member \in Members
    /\ step \in {"findMember", "insertMember", "findToUpdate"} => m \in [member: Members, password: Passwords]
    /\ step = "insertAuth0" => m \in ByAuth0
    /\ step \in {"findLogin", "validate", "loginAgain"} => m \in Attempt
    /\ step = "storeToken" => m \in ByAuth0 \cup Attempt
    /\ step = "saveSecond" => m \in [member: Members, held: Second \cup {None}, secret: Secrets]
    /\ step = "saveMember" => m \in [member: Members, row: Member]

SignInRequestTypes ==
    /\ DOMAIN pc = Requests
    /\ DOMAIN mem = Requests
    /\ \A q \in Requests : SignInHeldAt(pc[q], mem[q])

\* Who changes a second factor or a password has a row.
Settling == MemberHolding \cup {"findToEnable", "findToDisable", "findToUpdate"}
EnrolledInv == \A q \in Requests : pc[q] \in Settling => mem[q].member \in Enrolled

SignInTypeInv ==
    /\ SignInTypeOK
    /\ last \in [Members -> [password: Passwords \cup {None}, factor: Codes]]
    /\ SignInRequestTypes
    /\ EnrolledInv

\* Two requests hold one row only if it is muddled.
SameRow(q, r) == pc[q] \in MemberHolding /\ pc[r] \in MemberHolding /\ mem[q].member = mem[r].member
SignInAloneInv == \A q, r \in Requests : q # r /\ SameRow(q, r) => mem[q].member \in muddled

\* What a request is about to save is still what it read.
SignInFresh(step, m) ==
    /\ step = "saveSecond" => m.held = logins[m.member].second
    /\ step = "saveMember" => m.row = [logins[m.member] EXCEPT !.password = m.row.password]
FreshInv == \A q \in Requests :
    pc[q] \in MemberHolding => mem[q].member \in muddled \/ SignInFresh(pc[q], mem[q])

\* A login that has got past the second factor saw it in force.
CodeInv ==
    /\ \A q \in Requests :
          pc[q] \in {"loginAgain", "storeToken"} /\ mem[q].by = "password" => mem[q].code \in seen[q]
    /\ \A g \in given : g.code \in g.seen

\* The rows hold what was answered.
RowInv == \A u \in Enrolled \ muddled :
    /\ logins[u].password = last[u].password
    /\ Factor(logins[u]) = last[u].factor

SignInInv == SignInTypeInv /\ SignInAloneInv /\ FreshInv /\ CodeInv /\ RowInv

\* Request q, and no other, goes to a step with what it must hold there.
SignInMoves(q) ==
    /\ DOMAIN pc' = Requests
    /\ DOMAIN mem' = Requests
    /\ \A r \in Requests \ {q} : pc'[r] = pc[r] /\ mem'[r] = mem[r]
    /\ SignInHeldAt(pc'[q], mem'[q])

------------------------------------------------------------------------------
LEMMA SignInInitInv == HandlersInit /\ (SignInInit \/ SignInIdle) => SignInInv
  <1> SUFFICES ASSUME HandlersInit, SignInInit \/ SignInIdle PROVE SignInInv
    OBVIOUS
  <1> USE SignInAssumption DEF SignInAssumption
  <1>1. /\ pc = [q \in Requests |-> "idle"]
        /\ mem = [q \in Requests |-> NoMemory]
    BY DEF HandlersInit
  <1>2. PICK U \in SUBSET Members, p \in Passwords :
          /\ logins = [u \in Members |-> IF u \in U THEN [password |-> p, second |-> None] ELSE None]
          /\ last = [u \in Members |-> [password |-> IF u \in U THEN p ELSE None, factor |-> None]]
    <2>1. CASE SignInInit
      <3>1. (CHOOSE x \in Passwords : TRUE) \in Passwords
        OBVIOUS
      <3> QED
        BY <2>1, <3>1 DEF SignInInit
    <2>2. CASE SignInIdle
      <3>1. PICK p \in Passwords : TRUE
        OBVIOUS
      <3> QED
        BY <2>2 DEF SignInIdle
    <2> QED
      BY <2>1, <2>2
  <1>3. given = {} /\ seen = [q \in Requests |-> {}] /\ spent = {} /\ muddled = {}
    BY DEF SignInInit, SignInIdle
  <1>4. [password |-> p, second |-> None] \in Member
    BY DEF Member
  <1>5. SignInTypeInv
    <2>1. SignInTypeOK /\ last \in [Members -> [password: Passwords \cup {None}, factor: Codes]]
      BY <1>2, <1>3, <1>4 DEF SignInTypeOK, Codes
    <2>2. SignInHeldAt("idle", NoMemory)
      BY DEF SignInHeldAt, SignInSteps, MemberHolding
    <2>3. SignInRequestTypes
      BY <1>1, <2>2 DEF SignInRequestTypes
    <2>4. EnrolledInv
      BY <1>1 DEF EnrolledInv, Settling, MemberHolding
    <2> QED
      BY <2>1, <2>3, <2>4 DEF SignInTypeInv
  <1>6. SignInAloneInv /\ FreshInv /\ CodeInv
    BY <1>1, <1>3 DEF SignInAloneInv, SameRow, FreshInv, CodeInv, MemberHolding
  <1>7. RowInv
    BY <1>2, <1>4 DEF RowInv, Enrolled, Factor, Enabled
  <1> QED
    BY <1>5, <1>6, <1>7 DEF SignInInv

\* How a request moves.
LEMMA SignInGotoMoves ==
    ASSUME SignInRequestTypes, NEW q \in Requests, NEW step, NEW m, SignInHeldAt(step, m),
           \/ Goto(q, step, m)
           \/ Receive(q, "signin", step, m)
    PROVE  SignInMoves(q) /\ pc'[q] = step /\ mem'[q] = m
  BY DEF SignInRequestTypes, Goto, Receive, SignInMoves

LEMMA SignInAnswerMoves ==
    ASSUME SignInRequestTypes, NEW q \in Requests, Answer(q)
    PROVE  SignInMoves(q) /\ pc'[q] = "idle"
  <1>1. SignInHeldAt("idle", NoMemory)
    BY DEF SignInHeldAt, SignInSteps, MemberHolding
  <1> QED
    BY <1>1, SignInGotoMoves DEF Answer

\* A step that leaves the rows alone prepares what it saves from the row it reads, and
\* lets a login pass only with the second factor then in force.
Prepared(q, step, m) ==
    /\ step \in MemberHolding => SignInFresh(step, m)
    /\ step \in Settling => m.member \in Enrolled
    /\ step \in {"loginAgain", "storeToken"} /\ m.by = "password" =>
          m.code \in seen[q] \cup {Factor(logins[m.member])}

LEMMA SignInReadsMove ==
    ASSUME SignInTypeInv, CodeInv, NEW q \in Requests, SignInReads(q)
    PROVE  SignInMoves(q) /\ Prepared(q, pc'[q], mem'[q])
  <1>1. SignInRequestTypes /\ SignInHeldAt(pc[q], mem[q]) /\ spent \subseteq Secrets
    BY DEF SignInTypeInv, SignInRequestTypes, SignInTypeOK
  <1>2. ASSUME Answer(q) PROVE SignInMoves(q) /\ Prepared(q, pc'[q], mem'[q])
    BY <1>1, <1>2, SignInAnswerMoves DEF Prepared, Settling, MemberHolding
  <1>3. ASSUME NEW step, NEW m, SignInHeldAt(step, m), Prepared(q, step, m),
               Goto(q, step, m) \/ Receive(q, "signin", step, m)
        PROVE  SignInMoves(q) /\ Prepared(q, pc'[q], mem'[q])
    <2>1. SignInMoves(q) /\ pc'[q] = step /\ mem'[q] = m
      BY <1>1, <1>3, SignInGotoMoves
    <2> QED
      BY <1>3, <2>1
  <1>4. CASE PostRegister(q)
    <2>1. PICK u \in Members, p \in Passwords :
            Receive(q, "signin", "findMember", [member |-> u, password |-> p])
      BY <1>4 DEF PostRegister
    <2>2. SignInHeldAt("findMember", [member |-> u, password |-> p])
      BY DEF SignInHeldAt, SignInSteps
    <2>3. Prepared(q, "findMember", [member |-> u, password |-> p])
      BY DEF Prepared, Settling, MemberHolding
    <2> QED
      BY <1>3, <2>1, <2>2, <2>3
  <1>5. CASE FindMember(q)
    <2>1. SignInHeldAt("insertMember", mem[q])
      BY <1>1, <1>5 DEF FindMember, At, SignInHeldAt, SignInSteps
    <2>2. Prepared(q, "insertMember", mem[q])
      BY DEF Prepared, Settling, MemberHolding
    <2> QED
      BY <1>2, <1>3, <1>5, <2>1, <2>2 DEF FindMember
  <1>6. CASE Auth0Callback(q)
    <2>1. PICK u \in Members : Receive(q, "signin", "findAuth0", [member |-> u])
      BY <1>6 DEF Auth0Callback
    <2>2. SignInHeldAt("findAuth0", [member |-> u])
      BY DEF SignInHeldAt, SignInSteps
    <2>3. Prepared(q, "findAuth0", [member |-> u])
      BY DEF Prepared, Settling, MemberHolding
    <2> QED
      BY <1>3, <2>1, <2>2, <2>3
  <1>7. CASE FindAuth0User(q)
    <2> DEFINE m == [member |-> mem[q].member, by |-> "auth0", code |-> None]
    <2>1. m \in ByAuth0 /\ m.by # "password"
      BY <1>1, <1>7 DEF FindAuth0User, At, SignInHeldAt, SignInSteps, ByAuth0
    <2>2. \A step \in {"storeToken", "insertAuth0"} : SignInHeldAt(step, m)
      BY <2>1 DEF SignInHeldAt, SignInSteps, ByAuth0
    <2>3. \A step \in {"storeToken", "insertAuth0"} : Prepared(q, step, m)
      BY <2>1 DEF Prepared, Settling, MemberHolding
    <2>4. Goto(q, "storeToken", m) \/ Goto(q, "insertAuth0", m)
      BY <1>7 DEF FindAuth0User
    <2> HIDE DEF m
    <2> QED
      BY <1>3, <2>2, <2>3, <2>4
  <1>8. CASE PostLogin(q)
    <2>1. PICK u \in Members, p \in Passwords, s \in Codes :
            Receive(q, "signin", "findLogin", [member |-> u, password |-> p, by |-> "password", code |-> s])
      BY <1>1, <1>8 DEF PostLogin, Codes
    <2> DEFINE m == [member |-> u, password |-> p, by |-> "password", code |-> s]
    <2>2. SignInHeldAt("findLogin", m)
      BY DEF SignInHeldAt, SignInSteps, Attempt
    <2>3. Prepared(q, "findLogin", m)
      BY DEF Prepared, Settling, MemberHolding
    <2> QED
      BY <1>3, <2>1, <2>2, <2>3
  <1>9. CASE Login(q) \/ ValidateTwoFactor(q) \/ LoginAgain(q)
    <2>1. mem[q] \in Attempt
      BY <1>1, <1>9 DEF Login, ValidateTwoFactor, LoginAgain, At, SignInHeldAt
    <2>2. \A step \in {"validate", "loginAgain", "storeToken"} : SignInHeldAt(step, mem[q])
      BY <2>1 DEF SignInHeldAt, SignInSteps, Attempt
    <2>3. Prepared(q, "validate", mem[q])
      BY DEF Prepared, Settling, MemberHolding
    <2>4. CASE Login(q)
      <3>1. CASE mem[q].code = None /\ ~Enabled(logins[mem[q].member]) /\ Goto(q, "loginAgain", mem[q])
        <4>1. Prepared(q, "loginAgain", mem[q])
          BY <3>1 DEF Prepared, Settling, MemberHolding, Factor
        <4> QED
          BY <1>3, <2>2, <3>1, <4>1
      <3>2. CASE Goto(q, "validate", mem[q])
        BY <1>3, <2>2, <2>3, <3>2
      <3> QED
        BY <1>2, <2>4, <3>1, <3>2 DEF Login
    <2>5. CASE ValidateTwoFactor(q)
      <3>1. CASE /\ Enabled(logins[mem[q].member])
                 /\ logins[mem[q].member].second.secret = mem[q].code
                 /\ Goto(q, "loginAgain", mem[q])
        <4>1. Prepared(q, "loginAgain", mem[q])
          BY <3>1 DEF Prepared, Settling, MemberHolding, Factor
        <4> QED
          BY <1>3, <2>2, <3>1, <4>1
      <3> QED
        BY <1>2, <2>5, <3>1 DEF ValidateTwoFactor
    <2>6. CASE LoginAgain(q)
      <3>1. mem[q].code \in seen[q]
        BY <2>1, <2>6 DEF LoginAgain, At, CodeInv, Attempt
      <3>2. Prepared(q, "storeToken", mem[q])
        BY <3>1 DEF Prepared, Settling, MemberHolding
      <3> QED
        BY <1>2, <1>3, <2>2, <2>6, <3>2 DEF LoginAgain
    <2> QED
      BY <1>9, <2>4, <2>5, <2>6
  <1>10. CASE PostEnable(q) \/ PostDisable(q)
    <2>1. PICK u \in Enrolled, step \in {"findToEnable", "findToDisable"} :
            Receive(q, "signin", step, [member |-> u])
      BY <1>10 DEF PostEnable, PostDisable
    <2>2. SignInHeldAt(step, [member |-> u])
      BY DEF SignInHeldAt, SignInSteps, Enrolled
    <2>3. Prepared(q, step, [member |-> u])
      BY DEF Prepared, Settling, MemberHolding
    <2> QED
      BY <1>3, <2>1, <2>2, <2>3
  <1>11. CASE FindToDisable(q)
    <2>1. mem[q].member \in Enrolled
      BY <1>11 DEF FindToDisable, At, SignInTypeInv, EnrolledInv, Settling
    <2>2. SignInHeldAt("saveDisabled", [member |-> mem[q].member])
      BY <2>1 DEF SignInHeldAt, SignInSteps, MemberHolding, Enrolled
    <2>3. Prepared(q, "saveDisabled", [member |-> mem[q].member])
      BY <2>1 DEF Prepared, SignInFresh
    <2> QED
      BY <1>2, <1>3, <1>11, <2>2, <2>3 DEF FindToDisable
  <1>12. CASE PutPassword(q)
    <2>1. PICK u \in Enrolled, p \in Passwords :
            Receive(q, "signin", "findToUpdate", [member |-> u, password |-> p])
      BY <1>12 DEF PutPassword
    <2>2. SignInHeldAt("findToUpdate", [member |-> u, password |-> p])
      BY DEF SignInHeldAt, SignInSteps, Enrolled
    <2>3. Prepared(q, "findToUpdate", [member |-> u, password |-> p])
      BY DEF Prepared, Settling, MemberHolding
    <2> QED
      BY <1>3, <2>1, <2>2, <2>3
  <1>13. CASE FindToUpdate(q)
    <2> DEFINE u == mem[q].member
               row == [logins[u] EXCEPT !.password = mem[q].password]
               m == [member |-> u, row |-> row]
    <2>1. u \in Enrolled /\ u \in Members /\ mem[q].password \in Passwords
      BY <1>1, <1>13 DEF FindToUpdate, At, SignInTypeInv, EnrolledInv, Settling, SignInHeldAt
    <2>2. logins[u] \in Member
      BY <2>1 DEF SignInTypeInv, SignInTypeOK, Enrolled
    <2>3. row \in Member /\ row = [logins[u] EXCEPT !.password = row.password]
      BY <2>1, <2>2 DEF Member
    <2>4. SignInHeldAt("saveMember", m)
      BY <2>1, <2>3 DEF SignInHeldAt, SignInSteps, MemberHolding
    <2>5. Prepared(q, "saveMember", m)
      BY <2>1, <2>3 DEF Prepared, SignInFresh
    <2> QED
      BY <1>3, <1>13, <2>4, <2>5 DEF FindToUpdate
  <1> QED
    BY <1>4, <1>5, <1>6, <1>7, <1>8, <1>9, <1>10, <1>11, <1>12, <1>13 DEF SignInReads

LEMMA FindToEnableMoves ==
    ASSUME SignInTypeInv, NEW q \in Requests, FindToEnable(q)
    PROVE  SignInMoves(q) /\ Prepared(q, pc'[q], mem'[q]) /\ spent' \subseteq Secrets
  <1> DEFINE u == mem[q].member
  <1>1. PICK s \in Secrets \ spent :
          /\ Goto(q, "saveSecond", [member |-> u, held |-> logins[u].second, secret |-> s])
          /\ spent' = spent \cup {s}
    BY DEF FindToEnable
  <1>2. SignInRequestTypes /\ spent \subseteq Secrets /\ u \in Enrolled /\ u \in Members
    BY DEF SignInTypeInv, SignInTypeOK, FindToEnable, At, EnrolledInv, Settling, Enrolled
  <1>3. logins[u] \in Member
    BY <1>2 DEF SignInTypeInv, SignInTypeOK, Enrolled
  <1>4. SignInHeldAt("saveSecond", [member |-> u, held |-> logins[u].second, secret |-> s])
    BY <1>2, <1>3 DEF SignInHeldAt, SignInSteps, MemberHolding, Member
  <1>5. Prepared(q, "saveSecond", [member |-> u, held |-> logins[u].second, secret |-> s])
    BY <1>2 DEF Prepared, SignInFresh
  <1> QED
    BY <1>1, <1>2, <1>4, <1>5, SignInGotoMoves

\* What the actions that write do.
Quiet(q) == SignInReads(q) \/ FindToEnable(q)
Saves(q) == EnableTwoFactor(q) \/ DisableTwoFactor(q) \/ UpdatePassword(q)
Enrols(q) == Register(q) \/ FindOrCreateAuth0User(q)

LEMMA QuietMoves ==
    ASSUME SignInTypeInv, CodeInv, NEW q \in Requests, Quiet(q)
    PROVE  /\ SignInMoves(q)
           /\ Prepared(q, pc'[q], mem'[q])
           /\ logins' = logins /\ last' = last /\ given' = given
           /\ spent' \subseteq Secrets
  <1>1. CASE SignInReads(q)
    <2>1. UNCHANGED signInTables
      BY <1>1 DEF SignInReads
    <2> QED
      BY <1>1, <2>1, SignInReadsMove DEF signInTables, SignInTypeInv, SignInTypeOK
  <1>2. CASE FindToEnable(q)
    <2>1. logins' = logins /\ last' = last /\ given' = given
      BY <1>2 DEF FindToEnable
    <2> QED
      BY <1>2, <2>1, FindToEnableMoves
  <1> QED
    BY <1>1, <1>2 DEF Quiet

LEMMA EnrolMoves ==
    ASSUME SignInTypeInv, NEW q \in Requests, Enrols(q)
    PROVE  /\ SignInMoves(q)
           /\ pc'[q] = "idle" \/ (pc'[q] = "storeToken" /\ mem'[q].by = "auth0")
           /\ given' = given /\ spent' = spent
           /\ \/ logins' = logins /\ last' = last
              \/ \E u \in Members \ Enrolled, p \in Passwords \cup {None} :
                    /\ logins' = [logins EXCEPT ![u] = [password |-> p, second |-> None]]
                    /\ last' = [last EXCEPT ![u] = [password |-> p, factor |-> None]]
  <1>1. SignInRequestTypes /\ SignInHeldAt(pc[q], mem[q])
    BY DEF SignInTypeInv, SignInRequestTypes
  <1>2. CASE Register(q)
    <2>1. mem[q] \in [member: Members, password: Passwords]
      BY <1>1, <1>2 DEF Register, At, SignInHeldAt
    <2>2. Answer(q)
      BY <1>2 DEF Register, RefuseEnrolment
    <2> QED
      BY <1>1, <1>2, <2>1, <2>2, SignInAnswerMoves DEF Register, Enrol, RefuseEnrolment, signInTables
  <1>3. CASE FindOrCreateAuth0User(q)
    <2>1. mem[q] \in ByAuth0
      BY <1>1, <1>3 DEF FindOrCreateAuth0User, At, SignInHeldAt
    <2>2. mem[q].member \in Members /\ mem[q].by = "auth0"
      BY <2>1 DEF ByAuth0
    <2>3. SignInHeldAt("storeToken", mem[q])
      BY <2>1, <2>2 DEF SignInHeldAt, SignInSteps
    <2>4. CASE Goto(q, "storeToken", mem[q]) /\ mem[q].member \notin Enrolled /\ Enrol(q, None)
      BY <1>1, <2>2, <2>3, <2>4, SignInGotoMoves DEF Enrol
    <2>5. CASE RefuseEnrolment(q)
      BY <1>1, <2>5, SignInAnswerMoves DEF RefuseEnrolment, signInTables
    <2> QED
      BY <1>3, <2>4, <2>5 DEF FindOrCreateAuth0User
  <1> QED
    BY <1>2, <1>3 DEF Enrols

\* A save writes the row of one user, who has one already.
LEMMA SavedIsLocal ==
    ASSUME SignInTypeInv, NEW q \in Requests, pc[q] \in MemberHolding
    PROVE  /\ mem[q].member \in Enrolled /\ mem[q].member \in Members
           /\ Saved(q) \in [Members -> Member \cup {None}]
           /\ Saved(q)[mem[q].member] \in Member
           /\ \A v \in Members \ {mem[q].member} : Saved(q)[v] = logins[v]
  <1> DEFINE u == mem[q].member
  <1>1. SignInHeldAt(pc[q], mem[q]) /\ logins \in [Members -> Member \cup {None}]
    BY DEF SignInTypeInv, SignInRequestTypes, SignInTypeOK
  <1>2. u \in Enrolled /\ u \in Members
    BY DEF SignInTypeInv, EnrolledInv, Settling, Enrolled
  <1>3. logins[u] \in Member
    BY <1>1, <1>2 DEF Enrolled
  <1>4. CASE pc[q] = "saveSecond"
    <2>1. mem[q].secret \in Secrets
      BY <1>1, <1>4 DEF SignInHeldAt
    <2>2. [secret |-> mem[q].secret, on |-> TRUE] \in Second
      BY <2>1 DEF Second
    <2>3. [logins[u] EXCEPT !.second = [secret |-> mem[q].secret, on |-> TRUE]] \in Member
      BY <1>3, <2>2 DEF Member
    <2>4. Saved(q) = logins \/ Saved(q) = [logins EXCEPT ![u].second = [secret |-> mem[q].secret, on |-> TRUE]]
      BY <1>4 DEF Saved, At
    <2> QED
      BY <1>1, <1>2, <1>3, <2>3, <2>4
  <1>5. CASE pc[q] = "saveDisabled"
    <2>1. [secret |-> None, on |-> FALSE] \in Second
      BY DEF Second
    <2>2. [logins[u] EXCEPT !.second = [secret |-> None, on |-> FALSE]] \in Member
      BY <1>3, <2>1 DEF Member
    <2>3. Saved(q) = [logins EXCEPT ![u].second = [secret |-> None, on |-> FALSE]]
      BY <1>5 DEF Saved, At
    <2> QED
      BY <1>1, <1>2, <2>2, <2>3
  <1>6. CASE pc[q] = "saveMember"
    <2>1. mem[q].row \in Member
      BY <1>1, <1>6 DEF SignInHeldAt
    <2>2. Saved(q) = [logins EXCEPT ![u] = mem[q].row]
      BY <1>6 DEF Saved, At
    <2> QED
      BY <1>1, <1>2, <2>1, <2>2
  <1> QED
    BY <1>4, <1>5, <1>6 DEF MemberHolding

\* What a save leaves, if nobody else held the row, is what it answers.
LEMMA SavesAnswer ==
    ASSUME SignInTypeInv, NEW q \in Requests, Saves(q)
    PROVE  /\ SignInMoves(q) /\ pc'[q] = "idle" /\ pc[q] \in MemberHolding
           /\ logins' = Saved(q)
           /\ given' = given /\ spent' = spent
           /\ last' \in [Members -> [password: Passwords \cup {None}, factor: Codes]]
           /\ \A v \in Members \ {mem[q].member} : last'[v] = last[v]
  <1> DEFINE u == mem[q].member
  <1>1. /\ pc[q] \in MemberHolding /\ logins' = Saved(q) /\ Answer(q)
        /\ given' = given /\ spent' = spent
    BY DEF Saves, EnableTwoFactor, DisableTwoFactor, UpdatePassword, At, MemberHolding
  <1>2. SignInMoves(q) /\ pc'[q] = "idle"
    BY <1>1, SignInAnswerMoves DEF SignInTypeInv
  <1>3. SignInHeldAt(pc[q], mem[q]) /\ u \in Members
    BY <1>1, SavedIsLocal DEF SignInTypeInv, SignInRequestTypes
  <1>4. last \in [Members -> [password: Passwords \cup {None}, factor: Codes]] /\ None \in Codes
    BY DEF SignInTypeInv, Codes
  <1>5. CASE EnableTwoFactor(q)
    <2>1. mem[q].secret \in Codes
      BY <1>3, <1>5 DEF EnableTwoFactor, At, SignInHeldAt, Codes
    <2>2. last' = last \/ last' = [last EXCEPT ![u].factor = mem[q].secret]
      BY <1>5 DEF EnableTwoFactor
    <2> QED
      BY <1>1, <1>2, <1>3, <1>4, <2>1, <2>2
  <1>6. CASE DisableTwoFactor(q)
    BY <1>1, <1>2, <1>3, <1>4, <1>6 DEF DisableTwoFactor
  <1>7. CASE UpdatePassword(q)
    <2>1. mem[q].row.password \in Passwords \cup {None}
      BY <1>3, <1>7 DEF UpdatePassword, At, SignInHeldAt, Member
    <2> QED
      BY <1>1, <1>2, <1>3, <1>4, <1>7, <2>1 DEF UpdatePassword
  <1> QED
    BY <1>5, <1>6, <1>7 DEF Saves

LEMMA StoreMoves ==
    ASSUME SignInTypeInv, NEW q \in Requests, StoreToken(q)
    PROVE  /\ SignInMoves(q) /\ pc'[q] = "idle"
           /\ logins' = logins /\ last' = last /\ spent' = spent
           /\ \/ given' = given
              \/ /\ mem[q].by = "password"
                 /\ given' = given \cup {[code |-> mem[q].code, seen |-> seen[q]]}
           /\ mem[q].code \in Codes
  <1>1. SignInHeldAt(pc[q], mem[q])
    BY DEF SignInTypeInv, SignInRequestTypes
  <1>2. mem[q] \in ByAuth0 \cup Attempt
    BY <1>1 DEF SignInHeldAt, StoreToken, At
  <1>3. mem[q].code \in Codes /\ (mem[q].by = "auth0" \/ mem[q].by = "password")
    BY <1>2 DEF ByAuth0, Attempt, Codes
  <1> QED
    BY <1>3, SignInAnswerMoves DEF SignInTypeInv, StoreToken

LEMMA SignInInterruptMoves ==
    ASSUME SignInTypeInv, NEW q \in Requests, SignInInterrupted(q)
    PROVE  /\ SignInMoves(q) /\ pc'[q] = "idle"
           /\ last' = last /\ given' = given /\ spent' = spent
           /\ seen' = [seen EXCEPT ![q] = {}]
           /\ \/ logins' = logins /\ muddled' = muddled
              \/ /\ pc[q] \in MemberHolding
                 /\ logins' = Saved(q)
                 /\ muddled' = muddled \cup {mem[q].member}
  BY SignInAnswerMoves DEF SignInTypeInv, SignInInterrupted, Interrupted

------------------------------------------------------------------------------
\* The rows and the histories after a step.
LEMMA FactorIsCode ==
    ASSUME NEW row \in Member \cup {None}
    PROVE  Factor(row) \in Codes
  <1>1. CASE Enabled(row)
    <2>1. row \in Member /\ row.second \in Second
      BY <1>1 DEF Enabled, Member
    <2> QED
      BY <1>1, <2>1 DEF Factor, Second, Codes
  <1> QED
    BY <1>1 DEF Factor, Codes

LEMMA StepKinds ==
    SignInAct => \/ SignInHistory /\ \E q \in Requests : Quiet(q) \/ Enrols(q) \/ Saves(q) \/ StoreToken(q)
           \/ \E q \in Requests : SignInInterrupted(q)
  BY DEF SignInAct, SignInNext, SignInWrites, Quiet, Enrols, Saves

LEMMA SignInMovesTypes ==
    ASSUME SignInRequestTypes, NEW q \in Requests, SignInMoves(q)
    PROVE  SignInRequestTypes'
  <1>1. \A r \in Requests : SignInHeldAt(pc'[r], mem'[r])
    BY DEF SignInRequestTypes, SignInMoves
  <1>2. (\A r \in Requests : SignInHeldAt(pc[r], mem[r]))'
    BY <1>1 DEF SignInHeldAt
  <1> QED
    BY <1>2 DEF SignInRequestTypes, SignInMoves

\* The rows of all but one user stay, and no row goes.
LEMMA RowsAfter ==
    ASSUME SignInTypeInv, CodeInv, SignInAct
    PROVE  /\ logins' \in [Members -> Member \cup {None}]
           /\ Enrolled \subseteq Enrolled'
           /\ last' \in [Members -> [password: Passwords \cup {None}, factor: Codes]]
           /\ spent' \subseteq Secrets
  <1>1. /\ logins \in [Members -> Member \cup {None}] /\ spent \subseteq Secrets
        /\ last \in [Members -> [password: Passwords \cup {None}, factor: Codes]]
    BY DEF SignInTypeInv, SignInTypeOK
  <1>2. None \notin Member /\ None \in Codes
    BY SignInAssumption DEF SignInAssumption, Codes
  <1>3. ASSUME NEW q \in Requests, pc[q] \in MemberHolding, logins' = Saved(q)
        PROVE  logins' \in [Members -> Member \cup {None}] /\ Enrolled \subseteq Enrolled'
    BY <1>1, <1>2, <1>3, SavedIsLocal DEF Enrolled
  <1>4. ASSUME NEW q \in Requests, Quiet(q) \/ StoreToken(q)
        PROVE  logins' = logins /\ last' = last /\ spent' \subseteq Secrets
    BY <1>1, <1>4, QuietMoves, StoreMoves
  <1>5. ASSUME NEW q \in Requests, Saves(q)
        PROVE  /\ pc[q] \in MemberHolding /\ logins' = Saved(q) /\ spent' = spent
               /\ last' \in [Members -> [password: Passwords \cup {None}, factor: Codes]]
    BY <1>5, SavesAnswer
  <1>6. ASSUME NEW q \in Requests, Enrols(q)
        PROVE  /\ logins' \in [Members -> Member \cup {None}] /\ Enrolled \subseteq Enrolled'
               /\ last' \in [Members -> [password: Passwords \cup {None}, factor: Codes]]
               /\ spent' = spent
    <2>1. spent' = spent
      BY <1>6, EnrolMoves
    <2>2. CASE logins' = logins /\ last' = last
      BY <1>1, <2>1, <2>2 DEF Enrolled
    <2>3. ASSUME NEW u \in Members \ Enrolled, NEW p \in Passwords \cup {None},
                 logins' = [logins EXCEPT ![u] = [password |-> p, second |-> None]],
                 last' = [last EXCEPT ![u] = [password |-> p, factor |-> None]]
          PROVE  /\ logins' \in [Members -> Member \cup {None}] /\ Enrolled \subseteq Enrolled'
                 /\ last' \in [Members -> [password: Passwords \cup {None}, factor: Codes]]
      <3>1. [password |-> p, second |-> None] \in Member
        BY DEF Member
      <3>2. [password |-> p, factor |-> None] \in [password: Passwords \cup {None}, factor: Codes]
        BY <1>2
      <3> HIDE DEF Member
      <3>3. logins' \in [Members -> Member \cup {None}]
        BY <1>1, <2>3, <3>1
      <3>4. Enrolled \subseteq Enrolled'
        BY <1>1, <2>3 DEF Enrolled
      <3> QED
        BY <1>1, <2>3, <3>2, <3>3, <3>4
    <2> QED
      BY <1>6, <2>1, <2>2, <2>3, EnrolMoves
  <1>7. ASSUME NEW q \in Requests, SignInInterrupted(q)
        PROVE  /\ last' = last /\ spent' = spent
               /\ logins' = logins \/ (pc[q] \in MemberHolding /\ logins' = Saved(q))
    BY <1>7, SignInInterruptMoves
  <1>8. logins' = logins => Enrolled' = Enrolled
    BY DEF Enrolled
  <1> QED
    BY <1>1, <1>3, <1>4, <1>5, <1>6, <1>7, <1>8, StepKinds

\* A request moves with each step.
LEMMA SomeoneMoves ==
    ASSUME SignInTypeInv, CodeInv, SignInAct
    PROVE  \E q \in Requests : SignInMoves(q) /\ (pc'[q] \in Settling => Quiet(q))
  <1>1. ASSUME NEW q \in Requests, Quiet(q) PROVE SignInMoves(q)
    BY <1>1, QuietMoves
  <1>2. ASSUME NEW q \in Requests, Enrols(q) \/ Saves(q) \/ StoreToken(q) \/ SignInInterrupted(q)
        PROVE  SignInMoves(q) /\ pc'[q] \in {"idle", "storeToken"}
    BY <1>2, EnrolMoves, SavesAnswer, StoreMoves, SignInInterruptMoves
  <1>3. "idle" \notin Settling /\ "storeToken" \notin Settling
    BY DEF Settling, MemberHolding
  <1> QED
    BY <1>1, <1>2, <1>3, StepKinds

LEMMA SignInTypeStep == SignInTypeInv /\ CodeInv /\ SignInAct => SignInTypeInv'
  <1> SUFFICES ASSUME SignInTypeInv, CodeInv, SignInAct PROVE SignInTypeInv'
    OBVIOUS
  <1>1. PICK q \in Requests : SignInMoves(q) /\ (pc'[q] \in Settling => Quiet(q))
    BY SomeoneMoves
  <1>2. SignInRequestTypes'
    BY <1>1, SignInMovesTypes DEF SignInTypeInv
  <1>3. EnrolledInv'
    <2> SUFFICES ASSUME NEW r \in Requests, pc'[r] \in Settling
                 PROVE  mem'[r].member \in Enrolled'
      BY DEF EnrolledInv
    <2>1. CASE r = q
      <3>1. mem'[q].member \in Enrolled
        BY <1>1, <2>1, QuietMoves DEF Prepared
      <3> QED
        BY <2>1, <3>1, RowsAfter
    <2>2. CASE r # q
      <3>1. mem'[r] = mem[r] /\ pc'[r] = pc[r]
        BY <1>1, <2>2 DEF SignInMoves
      <3> QED
        BY <3>1, RowsAfter DEF SignInTypeInv, EnrolledInv
    <2> QED
      BY <2>1, <2>2
  <1>4. seen' \in [Requests -> SUBSET Codes]
    <2>1. seen \in [Requests -> SUBSET Codes]
      BY DEF SignInTypeInv, SignInTypeOK, Codes
    <2>2. CASE SignInHistory
      <3>1. ASSUME NEW r \in Requests, pc'[r] \in SignInSteps
            PROVE  seen[r] \cup {Factor(logins'[mem'[r].member])} \in SUBSET Codes
        <4>1. SignInHeldAt(pc'[r], mem'[r])
          BY <1>2 DEF SignInRequestTypes, SignInHeldAt
        <4>2. logins'[mem'[r].member] \in Member \cup {None}
          BY <3>1, <4>1, RowsAfter DEF SignInHeldAt
        <4>3. Factor(logins'[mem'[r].member]) \in Codes
          BY <4>2, FactorIsCode
        <4> QED
          BY <2>1, <4>3
      <3> QED
        BY <2>2, <3>1 DEF SignInHistory
    <2>3. ASSUME NEW r \in Requests, SignInInterrupted(r) PROVE seen' \in [Requests -> SUBSET Codes]
      BY <2>1, <2>3, SignInInterruptMoves
    <2> QED
      BY <2>2, <2>3, StepKinds
  <1>5. \A g \in given' : g.seen \subseteq Codes /\ g.code \in Codes
    <2>1. \A g \in given : g.seen \subseteq Codes /\ g.code \in Codes
      BY DEF SignInTypeInv, SignInTypeOK, Codes
    <2>2. ASSUME NEW r \in Requests, StoreToken(r)
          PROVE  \A g \in given' : g.seen \subseteq Codes /\ g.code \in Codes
      <3>1. seen[r] \subseteq Codes
        BY DEF SignInTypeInv, SignInTypeOK, Codes
      <3> QED
        BY <2>1, <2>2, <3>1, StoreMoves
    <2>3. ASSUME NEW r \in Requests, Quiet(r) \/ Enrols(r) \/ Saves(r) \/ SignInInterrupted(r)
          PROVE  given' = given
      BY <2>3, QuietMoves, EnrolMoves, SavesAnswer, SignInInterruptMoves
    <2> QED
      BY <2>1, <2>2, <2>3, StepKinds
  <1>6. muddled' \subseteq Members
    <2>1. muddled \subseteq Members
      BY DEF SignInTypeInv, SignInTypeOK
    <2>2. ASSUME NEW r \in Requests, SignInInterrupted(r) PROVE muddled' \subseteq Members
      BY <2>1, <2>2, SignInInterruptMoves, SavedIsLocal
    <2> QED
      BY <2>1, <2>2, StepKinds DEF SignInHistory
  <1>7. \A u \in Members : last'[u].password \in Passwords \cup {None} /\ last'[u].factor \in Codes
    BY RowsAfter
  <1>8. SignInTypeOK'
    BY <1>4, <1>5, <1>6, <1>7, RowsAfter DEF SignInTypeOK, Codes
  <1> QED
    BY <1>2, <1>3, <1>8, RowsAfter DEF SignInTypeInv, Codes

LEMMA SignInAloneStep == SignInInv /\ SignInAct => SignInAloneInv'
  <1> SUFFICES ASSUME SignInInv, SignInAct, NEW q \in Requests, NEW r \in Requests, q # r,
                      pc'[q] \in MemberHolding, pc'[r] \in MemberHolding, mem'[q].member = mem'[r].member
               PROVE  mem'[q].member \in muddled'
    BY DEF SignInAloneInv, SameRow
  <1>1. mem'[q].member \in Members
    <2>1. SignInHeldAt(pc'[q], mem'[q])
      <3>1. SignInTypeInv'
        BY SignInTypeStep DEF SignInInv
      <3> QED
        BY <3>1 DEF SignInTypeInv, SignInRequestTypes, SignInHeldAt
    <2> QED
      BY <2>1 DEF SignInHeldAt, SignInSteps, MemberHolding
  <1>2. CASE SignInHistory
    <2>1. mem'[q].member \in Held(q) \cap Held(r)
      BY DEF Held
    <2> QED
      BY <1>1, <1>2, <2>1 DEF SignInHistory
  <1>3. ASSUME NEW s \in Requests, SignInInterrupted(s) PROVE mem'[q].member \in muddled'
    <2>1. SignInMoves(s) /\ pc'[s] = "idle" /\ muddled \subseteq muddled'
      BY <1>3, SignInInterruptMoves DEF SignInInv
    <2>2. q # s /\ r # s
      BY <2>1 DEF MemberHolding
    <2> QED
      BY <2>1, <2>2 DEF SignInMoves, SignInInv, SignInAloneInv, SameRow
  <1> QED
    BY <1>2, <1>3, StepKinds

\* Muddled rows stay so, and a row that a request holds changes only with it or when muddled.
LEMMA MuddledGrows == SignInInv /\ SignInAct => muddled \subseteq muddled'
  <1>1. ASSUME SignInInv, NEW s \in Requests, SignInInterrupted(s) PROVE muddled \subseteq muddled'
    BY <1>1, SignInInterruptMoves DEF SignInInv
  <1> QED
    BY <1>1, StepKinds DEF SignInHistory

LEMMA HeldRowStays ==
    ASSUME SignInInv, NEW q \in Requests, NEW r \in Requests, q # r,
           pc[r] \in MemberHolding, mem[r].member \notin muddled,
           \/ Quiet(q) \/ Enrols(q) \/ StoreToken(q)
           \/ pc[q] \in MemberHolding /\ logins' = Saved(q)
           \/ logins' = logins
    PROVE  logins'[mem[r].member] = logins[mem[r].member]
  <1> DEFINE u == mem[r].member
  <1>1. SignInTypeInv /\ CodeInv /\ u \in Enrolled /\ u \in Members
    BY DEF SignInInv, SignInTypeInv, EnrolledInv, Settling, Enrolled
  <1>2. CASE Quiet(q) \/ StoreToken(q) \/ logins' = logins
    BY <1>1, <1>2, QuietMoves, StoreMoves
  <1>3. CASE Enrols(q)
    BY <1>1, <1>3, EnrolMoves DEF SignInTypeInv, SignInTypeOK
  <1>4. CASE pc[q] \in MemberHolding /\ logins' = Saved(q)
    <2>1. mem[q].member # u
      BY <1>4 DEF SignInInv, SignInAloneInv, SameRow
    <2> QED
      BY <1>1, <1>4, <2>1, SavedIsLocal
  <1> QED
    BY <1>2, <1>3, <1>4

LEMMA FreshStep == SignInInv /\ SignInAct => FreshInv'
  <1> SUFFICES ASSUME SignInInv, SignInAct, NEW r \in Requests,
                      pc'[r] \in MemberHolding, mem'[r].member \notin muddled'
               PROVE  SignInFresh(pc[r], mem[r])'
    BY DEF FreshInv, SignInFresh
  <1>1. SignInTypeInv /\ CodeInv /\ muddled \subseteq muddled'
    BY MuddledGrows DEF SignInInv
  <1>2. ASSUME NEW q \in Requests, q # r, SignInMoves(q),
               \/ Quiet(q) \/ Enrols(q) \/ StoreToken(q)
               \/ pc[q] \in MemberHolding /\ logins' = Saved(q)
               \/ logins' = logins
        PROVE  SignInFresh(pc[r], mem[r])'
    <2>1. pc'[r] = pc[r] /\ mem'[r] = mem[r]
      BY <1>2 DEF SignInMoves
    <2>2. SignInFresh(pc[r], mem[r]) /\ mem[r].member \notin muddled
      BY <1>1, <2>1 DEF SignInInv, FreshInv
    <2>3. logins'[mem[r].member] = logins[mem[r].member]
      BY <1>2, <2>1, <2>2, HeldRowStays
    <2> QED
      BY <2>1, <2>2, <2>3 DEF SignInFresh
  <1>3. ASSUME NEW q \in Requests, Quiet(q) PROVE SignInFresh(pc[r], mem[r])'
    <2>1. CASE q = r
      <3>1. SignInFresh(pc'[r], mem'[r]) /\ logins' = logins
        BY <1>1, <1>3, <2>1, QuietMoves DEF Prepared
      <3> QED
        BY <3>1 DEF SignInFresh
    <2> QED
      BY <1>1, <1>2, <1>3, <2>1, QuietMoves
  <1>4. "idle" \notin MemberHolding /\ "storeToken" \notin MemberHolding
    BY DEF MemberHolding
  <1>5. ASSUME NEW q \in Requests, Enrols(q) \/ Saves(q) \/ StoreToken(q) PROVE SignInFresh(pc[r], mem[r])'
    BY <1>1, <1>2, <1>4, <1>5, EnrolMoves, SavesAnswer, StoreMoves
  <1>6. ASSUME NEW q \in Requests, SignInInterrupted(q) PROVE SignInFresh(pc[r], mem[r])'
    BY <1>1, <1>2, <1>4, <1>6, SignInInterruptMoves
  <1> QED
    BY <1>3, <1>5, <1>6, StepKinds

\* A login passes the second factor with what it saw in force.
LEMMA CodeStep == SignInInv /\ SignInAct => CodeInv'
  <1> SUFFICES ASSUME SignInInv, SignInAct PROVE CodeInv'
    OBVIOUS
  <1>1. SignInTypeInv /\ CodeInv /\ DOMAIN seen = Requests
    BY DEF SignInInv, SignInTypeInv, SignInTypeOK
  <1>2. ASSUME NEW r \in Requests, pc'[r] \in {"loginAgain", "storeToken"}, mem'[r].by = "password"
        PROVE  mem'[r].code \in seen'[r]
    <2>1. ASSUME NEW q \in Requests, q # r, SignInMoves(q) PROVE mem'[r].code \in seen[r]
      BY <1>1, <1>2, <2>1 DEF SignInMoves, CodeInv
    <2>2. ASSUME NEW q \in Requests, Quiet(q), SignInHistory PROVE mem'[r].code \in seen'[r]
      <3>1. seen'[r] = seen[r] \cup {Factor(logins'[mem'[r].member])}
        BY <1>2, <2>2 DEF SignInHistory, SignInSteps
      <3>2. CASE q = r
        <4>1. Prepared(r, pc'[r], mem'[r]) /\ logins' = logins
          BY <1>1, <2>2, <3>2, QuietMoves
        <4>2. mem'[r].code \in seen[r] \cup {Factor(logins[mem'[r].member])}
          BY <1>2, <4>1 DEF Prepared
        <4> QED
          BY <3>1, <4>1, <4>2
      <3> QED
        BY <1>1, <2>1, <2>2, <3>1, <3>2, QuietMoves
    <2>3. ASSUME NEW q \in Requests, Enrols(q) \/ Saves(q) \/ StoreToken(q), SignInHistory
          PROVE  mem'[r].code \in seen'[r]
      <3>1. seen[r] \subseteq seen'[r]
        BY <1>2, <2>3 DEF SignInHistory, SignInSteps
      <3>2. SignInMoves(q) /\ q # r
        BY <1>1, <1>2, <2>3, EnrolMoves, SavesAnswer, StoreMoves
      <3> QED
        BY <2>1, <3>1, <3>2
    <2>4. ASSUME NEW q \in Requests, SignInInterrupted(q) PROVE mem'[r].code \in seen'[r]
      BY <1>1, <1>2, <2>1, <2>4, SignInInterruptMoves
    <2> QED
      BY <2>2, <2>3, <2>4, StepKinds
  <1>3. \A g \in given' : g.code \in g.seen
    <2>1. ASSUME NEW q \in Requests, StoreToken(q) PROVE \A g \in given' : g.code \in g.seen
      <3>1. given' = given \/ (mem[q].code \in seen[q] /\ given' = given \cup {[code |-> mem[q].code, seen |-> seen[q]]})
        BY <1>1, <2>1, StoreMoves DEF StoreToken, At, CodeInv
      <3> QED
        BY <1>1, <3>1 DEF CodeInv
    <2>2. ASSUME NEW q \in Requests, Quiet(q) \/ Enrols(q) \/ Saves(q) \/ SignInInterrupted(q)
          PROVE  given' = given
      BY <1>1, <2>2, QuietMoves, EnrolMoves, SavesAnswer, SignInInterruptMoves
    <2> QED
      BY <1>1, <2>1, <2>2, StepKinds DEF CodeInv
  <1> QED
    BY <1>2, <1>3 DEF CodeInv

\* A save answers what it leaves in the row.
LEMMA SavedRowAnswered ==
    ASSUME SignInInv, NEW q \in Requests, Saves(q), mem[q].member \notin muddled
    PROVE  LET u == mem[q].member IN
           /\ logins'[u].password = last'[u].password
           /\ Factor(logins'[u]) = last'[u].factor
  <1> DEFINE u == mem[q].member
  <1>1. /\ SignInTypeInv /\ pc[q] \in MemberHolding /\ logins' = Saved(q)
        /\ last \in [Members -> [password: Passwords \cup {None}, factor: Codes]]
    BY SavesAnswer DEF SignInInv, SignInTypeInv
  <1>2. /\ u \in Enrolled /\ u \in Members
        /\ logins \in [Members -> Member \cup {None}]
        /\ logins'[u] \in Member
    BY <1>1, SavedIsLocal DEF SignInTypeInv, SignInTypeOK
  <1>3. /\ logins[u] \in Member
        /\ logins[u].password = last[u].password
        /\ Factor(logins[u]) = last[u].factor
    BY <1>2 DEF Enrolled, SignInInv, RowInv
  <1>4. None \notin Second /\ None \notin Member
    BY SignInAssumption DEF SignInAssumption
  <1>5. CASE EnableTwoFactor(q)
    <2> DEFINE second == [secret |-> mem[q].secret, on |-> TRUE]
    <2>1. /\ pc[q] = "saveSecond"
          /\ last' = IF Factor(Saved(q)[u]) # mem[q].secret THEN last
                     ELSE [last EXCEPT ![u].factor = mem[q].secret]
      BY <1>5 DEF EnableTwoFactor, At
    <2>2. mem[q].secret \in Secrets
      BY <1>1, <2>1 DEF SignInTypeInv, SignInRequestTypes, SignInHeldAt
    <2>3. second \in Second
      BY <2>2 DEF Second
    <2>4. Saved(q) = logins \/ Saved(q) = [logins EXCEPT ![u].second = second]
      BY <2>1 DEF Saved, At
    <2>5. CASE Saved(q) = logins
      BY <1>1, <1>2, <1>3, <2>1, <2>5
    <2>6. CASE Saved(q) = [logins EXCEPT ![u].second = second]
      <3>1. logins'[u].second = second /\ logins'[u].password = logins[u].password
        BY <1>1, <1>2, <1>3, <2>6 DEF Member
      <3>2. Factor(logins'[u]) = mem[q].secret
        <4>1. logins'[u] # None /\ second # None
          BY <1>2, <1>4, <2>3
        <4>2. second.on = TRUE /\ second.secret = mem[q].secret
          OBVIOUS
        <4> HIDE DEF second
        <4> QED
          BY <3>1, <4>1, <4>2 DEF Factor, Enabled
      <3> QED
        BY <1>1, <1>2, <1>3, <2>1, <3>1, <3>2
    <2> QED
      BY <2>4, <2>5, <2>6
  <1>6. CASE DisableTwoFactor(q)
    <2> DEFINE second == [secret |-> None, on |-> FALSE]
    <2>1. Saved(q) = [logins EXCEPT ![u].second = second] /\ last' = [last EXCEPT ![u].factor = None]
      BY <1>6 DEF DisableTwoFactor, Saved, At
    <2>2. logins'[u].second = second /\ logins'[u].password = logins[u].password
      BY <1>1, <1>2, <1>3, <2>1 DEF Member
    <2>3. Factor(logins'[u]) = None
      BY <2>2 DEF Factor, Enabled
    <2> QED
      BY <1>1, <1>2, <1>3, <2>1, <2>2, <2>3
  <1>7. CASE UpdatePassword(q)
    <2>1. /\ pc[q] = "saveMember"
          /\ Saved(q) = [logins EXCEPT ![u] = mem[q].row]
          /\ last' = [last EXCEPT ![u].password = mem[q].row.password]
      BY <1>7 DEF UpdatePassword, Saved, At
    <2>2. mem[q].row = [logins[u] EXCEPT !.password = mem[q].row.password]
      BY <1>1, <2>1 DEF SignInInv, FreshInv, SignInFresh
    <2>3. logins'[u] = mem[q].row
      BY <1>1, <1>2, <2>1
    <2>4. mem[q].row.second = logins[u].second
      BY <1>3, <2>2 DEF Member
    <2>5. Factor(logins'[u]) = Factor(logins[u])
      BY <1>2, <1>3, <1>4, <2>3, <2>4 DEF Factor, Enabled
    <2> QED
      BY <1>1, <1>2, <1>3, <2>1, <2>3, <2>5
  <1> QED
    BY <1>5, <1>6, <1>7 DEF Saves

LEMMA RowStep == SignInInv /\ SignInAct => RowInv'
  <1> SUFFICES ASSUME SignInInv, SignInAct, NEW v \in Enrolled', v \notin muddled'
               PROVE  /\ logins'[v].password = last'[v].password
                      /\ Factor(logins'[v]) = last'[v].factor
    BY DEF RowInv, Factor, Enabled
  <1>1. /\ SignInTypeInv /\ CodeInv /\ v \notin muddled /\ v \in Members
        /\ logins \in [Members -> Member \cup {None}]
        /\ last \in [Members -> [password: Passwords \cup {None}, factor: Codes]]
    BY MuddledGrows DEF SignInInv, SignInTypeInv, SignInTypeOK, Enrolled
  <1>2. ASSUME logins'[v] = logins[v], last'[v] = last[v]
        PROVE  /\ logins'[v].password = last'[v].password
               /\ Factor(logins'[v]) = last'[v].factor
    <2>1. v \in Enrolled
      BY <1>1, <1>2 DEF Enrolled
    <2> QED
      BY <1>1, <1>2, <2>1 DEF SignInInv, RowInv
  <1>3. ASSUME NEW q \in Requests, Quiet(q) \/ StoreToken(q)
        PROVE  logins'[v] = logins[v] /\ last'[v] = last[v]
    BY <1>1, <1>3, QuietMoves, StoreMoves
  <1>4. ASSUME NEW q \in Requests, Enrols(q)
        PROVE  /\ logins'[v].password = last'[v].password
               /\ Factor(logins'[v]) = last'[v].factor
    <2>1. CASE logins' = logins /\ last' = last
      BY <1>2, <2>1
    <2>2. ASSUME NEW u \in Members \ Enrolled, NEW p \in Passwords \cup {None},
                 logins' = [logins EXCEPT ![u] = [password |-> p, second |-> None]],
                 last' = [last EXCEPT ![u] = [password |-> p, factor |-> None]]
          PROVE  /\ logins'[v].password = last'[v].password
                 /\ Factor(logins'[v]) = last'[v].factor
      <3>1. CASE u = v
        BY <1>1, <2>2, <3>1 DEF Factor, Enabled
      <3>2. CASE u # v
        BY <1>1, <1>2, <2>2, <3>2
      <3> QED
        BY <3>1, <3>2
    <2> QED
      BY <1>1, <1>4, <2>1, <2>2, EnrolMoves
  <1>5. ASSUME NEW q \in Requests, Saves(q)
        PROVE  /\ logins'[v].password = last'[v].password
               /\ Factor(logins'[v]) = last'[v].factor
    <2>1. CASE mem[q].member = v
      BY <1>1, <1>5, <2>1, SavedRowAnswered
    <2>2. CASE mem[q].member # v
      BY <1>1, <1>2, <1>5, <2>2, SavesAnswer, SavedIsLocal
    <2> QED
      BY <2>1, <2>2
  <1>6. ASSUME NEW q \in Requests, SignInInterrupted(q)
        PROVE  logins'[v] = logins[v] /\ last'[v] = last[v]
    <2>1. CASE logins' = logins /\ last' = last
      BY <2>1
    <2>2. CASE pc[q] \in MemberHolding /\ logins' = Saved(q) /\ muddled' = muddled \cup {mem[q].member}
      BY <1>1, <1>6, <2>2, SignInInterruptMoves, SavedIsLocal
    <2> QED
      BY <1>1, <1>6, <2>1, <2>2, SignInInterruptMoves
  <1> QED
    BY <1>2, <1>3, <1>4, <1>5, <1>6, StepKinds

------------------------------------------------------------------------------
LEMMA SignInFrame ==
    ASSUME SignInInv, PerRequest', UNCHANGED signInVars, Apart(SignInSteps)
    PROVE  SignInInv'
  <1> USE DEF SignInInv, signInVars, PerRequest, Apart, SignInSteps, MemberHolding
  <1>1. SignInTypeInv'
    BY DEF SignInTypeInv, SignInTypeOK, SignInRequestTypes, SignInHeldAt, EnrolledInv, Settling, Enrolled
  <1>2. SignInAloneInv'
    BY DEF SignInAloneInv, SameRow
  <1>3. FreshInv'
    BY DEF FreshInv, SignInFresh
  <1>4. CodeInv'
    BY DEF CodeInv
  <1>5. RowInv'
    BY DEF RowInv, Enrolled, Factor, Enabled
  <1> QED
    BY <1>1, <1>2, <1>3, <1>4, <1>5

LEMMA SignInInvariant == Spec => []SignInInv
  <1>1. Init => Base /\ SignInInv
    BY BaseInit, SignInInitInv DEF Init
  <1>2. SignInInv /\ SignInStep => SignInInv'
    BY SignInTypeStep, SignInAloneStep, FreshStep, CodeStep, RowStep DEF SignInInv, SignInStep, SignInAct
  <1>3. Base /\ SignInInv /\ [Next]_vars => (Base /\ SignInInv)'
    BY <1>2, BaseStep, SignInApart, SignInFrame
  <1> QED
    BY <1>1, <1>3, PTL DEF Spec

\* The users with their second factors, and the histories of the logins, keep their types
\* (entities User and TwoFactorAuth), whatever the requests and the failures.
THEOREM SignInTypesCorrect == Spec => []SignInTypeOK
  <1>1. SignInInv => SignInTypeOK
    BY DEF SignInInv, SignInTypeInv
  <1> QED
    BY <1>1, SignInInvariant, PTL

\* Whatever the number of users, logins and changes in progress: no login gets tokens past
\* a second factor that was in force all the while, and the row holds the password and the
\* second factor last answered, unless two requests held it at once or an answer was lost
\* (AuthController.ts, twoFactorAuthController.ts, UserService.ts).
THEOREM NoWayAround == Spec => []SecondFactorHolds
  <1>1. SignInInv => SecondFactorHolds
    BY DEF SignInInv, CodeInv, RowInv, SecondFactorHolds
  <1> QED
    BY <1>1, SignInInvariant, PTL

------------------------------------------------------------------------------
Named(b) == "name" \in DOMAIN b
Creation == [body: {b \in LinkBodies : Named(b)}, counter: Nat, then: {"saveLink"}, since: Nat, hidden: BOOLEAN]
Retry == [body: {b \in LinkBodies : Named(b)}, counter: Nat, then: {"saveAgain"}, since: Nat, hidden: BOOLEAN]
Renaming == [body: LinkBodies, counter: Nat, then: {"updateLink"}, link: LinkIds]

\* What a request holds at a step.  Between the search and the saving of a slug it becomes
\* visible only if one comes into view, so that a creation that was refused once has seen
\* that or a hidden one.
LinkHeld(step, m) ==
    /\ step = "findSlug" => m \in Creation \cup Retry \cup Renaming /\ Named(m.body)
    /\ step = "saveLink" => m \in Creation
    /\ step = "saveAgain" => m \in Retry
    /\ step = "updateLink" => m \in Renaming

LinkWaits(step, m) ==
    /\ step \in {"findSlug", "saveLink"} /\ m \in Creation => m.since <= shown
    /\ step = "saveLink" => (Visible(Slug(m.body.name, m.counter)) => shown - m.since >= 1)
    /\ step \in {"findSlug", "saveAgain"} /\ m \in Retry => m.hidden \/ shown - m.since >= 1
    /\ step = "saveAgain" => (Visible(Slug(m.body.name, m.counter)) => m.hidden \/ shown - m.since >= 2)

LinkInv ==
    /\ links \in [LinkIds -> Link \cup {None}]
    /\ shown \in Nat
    /\ \A q \in Requests : LinkHeld(pc[q], mem[q]) /\ LinkWaits(pc[q], mem[q])
    /\ LinksAreCreated

LEMMA LinkInitInv == Init => LinkInv
  <1> SUFFICES ASSUME Init PROVE LinkInv
    OBVIOUS
  <1>1. \A q \in Requests : pc[q] = "idle"
    BY InitPerRequest DEF Init
  <1> QED
    BY <1>1 DEF Init, LinkInit, LinkInv, LinkHeld, LinkWaits, LinksAreCreated

\* A slug that becomes visible comes into view.
LinkChange ==
    /\ links' \in [LinkIds -> Link \cup {None}]
    /\ \/ shown' = shown /\ \A s : Visible(s)' => Visible(s)
       \/ shown' = shown + 1

\* What the other requests wait for stays.
LEMMA LinkStays ==
    ASSUME LinkInv, LinkChange, NEW step, NEW m, LinkHeld(step, m), LinkWaits(step, m)
    PROVE  LinkWaits(step, m)'
  <1> PICK s : s = Slug(m.body.name, m.counter)
    OBVIOUS
  <1>1. m \in Creation \cup Retry => m.since \in Nat
    BY DEF Creation, Retry
  <1>2. shown \in Nat /\ shown' \in Nat
    BY DEF LinkInv, LinkChange
  <1>3. (Visible(s)' => Visible(s)) \/ shown' = shown + 1
    BY DEF LinkChange
  <1> QED
    BY <1>1, <1>2, <1>3 DEF LinkHeld, LinkWaits, LinkChange

LEMMA PutLinkInv ==
    ASSUME LinkInv, LinkChange, NEW q \in Requests, NEW step, NEW m, Put(q, step, m),
           LinkHeld(step, m), LinkWaits(step, m)', LinksAreCreated'
    PROVE  LinkInv'
  <1>1. ASSUME NEW r \in Requests PROVE LinkHeld(pc'[r], mem'[r]) /\ LinkWaits(pc[r], mem[r])'
    <2>1. CASE r = q
      BY <2>1 DEF Put
    <2>2. CASE r # q
      <3> PICK st, n : st = pc[r] /\ n = mem[r]
        OBVIOUS
      <3>1. LinkHeld(st, n) /\ LinkWaits(st, n) /\ pc'[r] = st /\ mem'[r] = n
        BY <2>2 DEF LinkInv, Put
      <3>2. LinkWaits(st, n)'
        BY <3>1, LinkStays
      <3> QED
        BY <3>1, <3>2
    <2> QED
      BY <2>1, <2>2
  <1> QED
    BY <1>1 DEF LinkInv, LinkChange

LEMMA SlugIs ==
    ASSUME NEW name \in Names, NEW counter \in Nat
    PROVE  Slug(name, counter) \in Slugs
  <1> PICK stem : stem = Stem[name]
    OBVIOUS
  <1>1. stem \in Slugs
    BY LinkAssumption DEF LinkAssumption
  <1>2. Append(stem, counter) \in Slugs
    BY <1>1 DEF Slugs
  <1> QED
    BY <1>1, <1>2 DEF Slug

\* A body leaves a link a link, and a name gives it its slug.
LEMMA LinkRowIs ==
    ASSUME NEW row \in Link, NEW q, mem[q].body \in LinkBodies, mem[q].counter \in Nat
    PROVE  /\ LinkRow(row, q) \in Link
           /\ Named(mem[q].body) => LinkRow(row, q).slug = SlugOf(q)
  <1> PICK b, assigned : b = mem[q].body /\ assigned = Assigned(row, b)
    OBVIOUS
  <1>1. /\ DOMAIN b \subseteq {"name", "slug", "isDeleted"} /\ Assigned(NewLink, b) \in Link
        /\ Named(b) => b.name \in Names
    BY LinkAssumption DEF LinkAssumption, NewLink, Named
  <1>2. assigned \in Link
    BY <1>1 DEF Assigned, NewLink, Link
  <1> PICK s : s = SlugOf(q)
    OBVIOUS
  <1>3. Named(b) => s \in Slugs
    BY <1>1, SlugIs DEF SlugOf
  <1>4. Named(b) => [assigned EXCEPT !.slug = s] \in Link /\ [assigned EXCEPT !.slug = s].slug = s
    BY <1>2, <1>3 DEF Link
  <1> QED
    BY <1>2, <1>4 DEF LinkRow, Named

\* A row that does not come into view shows no slug that was not in view.
LEMMA LinkWriting ==
    ASSUME LinkInv, NEW k \in LinkIds, NEW row \in Link, links' = [links EXCEPT ![k] = row],
           shown' = shown + ComesIntoView(links[k], row)
    PROVE  LinkChange
  <1>1. links' \in [LinkIds -> Link \cup {None}]
    BY DEF LinkInv
  <1>2. CASE ComesIntoView(links[k], row) = 1
    BY <1>1, <1>2 DEF LinkChange
  <1>3. CASE ComesIntoView(links[k], row) # 1
    <2>1. shown' = shown /\ (links[k] = row \/ row.isDeleted)
      BY <1>3 DEF ComesIntoView, LinkInv
    <2>2. ASSUME NEW s, Visible(s)' PROVE Visible(s)
      <3>1. PICK j \in LinkIds : links'[j] # None /\ links'[j].slug = s /\ ~links'[j].isDeleted
        BY <2>2 DEF Visible, Stored
      <3>2. links'[j] = links[j]
        BY <2>1, <3>1 DEF LinkInv
      <3> QED
        BY <3>1, <3>2 DEF Visible, Stored
    <2> QED
      BY <1>1, <2>1, <2>2 DEF LinkChange
  <1> QED
    BY <1>2, <1>3

LEMMA AnswerLink ==
    ASSUME Base, LinkInv, LinkChange, NEW q \in Requests, Answer(q), LinksAreCreated'
    PROVE  LinkInv'
  <1>1. Put(q, "idle", NoMemory)
    BY AnswerPuts DEF Base
  <1> QED
    BY <1>1, PutLinkInv DEF LinkHeld, LinkWaits

LEMMA LinksKept ==
    ASSUME LinkInv, UNCHANGED linkVars
    PROVE  /\ LinkChange /\ LinksAreCreated' /\ shown' = shown
           /\ \A s : (Visible(s)' <=> Visible(s)) /\ (Hidden(s)' <=> Hidden(s))
  BY DEF LinkInv, LinkChange, LinksAreCreated, linkVars, Visible, Hidden, Stored

LEMMA AskLinkStep ==
    ASSUME Base, LinkInv, NEW q \in Requests, PostLink(q) \/ PutLink(q)
    PROVE  LinkInv'
  <1>0. UNCHANGED linkVars
    BY DEF PostLink, PutLink
  <1>1. CASE PostLink(q)
    <2> PICK n : n = shown
      OBVIOUS
    <2> PICK b \in LinkBodies : Named(b) /\ Receive(q, "links", "findSlug",
          [body |-> b, counter |-> 0, then |-> "saveLink", since |-> n, hidden |-> FALSE])
      BY <1>1 DEF PostLink, Named
    <2> PICK m : m = [body |-> b, counter |-> 0, then |-> "saveLink", since |-> n, hidden |-> FALSE]
      OBVIOUS
    <2>1. m \in Creation /\ m \notin Retry /\ m.since = shown' /\ Named(m.body)
      BY <1>0 DEF LinkInv, Creation, Retry, linkVars
    <2>2. LinkHeld("findSlug", m) /\ LinkWaits("findSlug", m)'
      BY <1>0, <2>1 DEF LinkHeld, LinkWaits, LinkInv, linkVars
    <2> QED
      BY <1>0, <2>2, LinksKept, ReceivePuts, PutLinkInv DEF Base
  <1>2. CASE PutLink(q)
    <2> PICK b \in LinkBodies, k \in LinkIds, step \in {"findSlug", "updateLink"} :
          /\ step = "findSlug" => Named(b)
          /\ Receive(q, "links", step, [body |-> b, counter |-> 0, then |-> "updateLink", link |-> k])
      BY <1>2 DEF PutLink, Named
    <2> PICK m : m = [body |-> b, counter |-> 0, then |-> "updateLink", link |-> k]
      OBVIOUS
    <2>1. m \in Renaming /\ m \notin Retry /\ m \notin Creation /\ m.body = b
      BY DEF Creation, Retry, Renaming
    <2>2. LinkHeld(step, m) /\ LinkWaits(step, m)'
      BY <2>1 DEF LinkHeld, LinkWaits
    <2> QED
      BY <1>0, <2>2, LinksKept, ReceivePuts, PutLinkInv DEF Base
  <1> QED
    BY <1>1, <1>2

LEMMA SearchStep ==
    ASSUME Base, LinkInv, NEW q \in Requests, GenerateUniqueSlug(q)
    PROVE  LinkInv'
  <1> PICK m, found : m = mem[q] /\ found = Visible(Slug(m.body.name, m.counter))
    OBVIOUS
  <1>0. /\ UNCHANGED linkVars /\ m \in Creation \cup Retry \cup Renaming /\ LinkWaits("findSlug", m) /\ Named(m.body)
        /\ \/ found /\ Goto(q, "findSlug", [m EXCEPT !.counter = @ + 1])
           \/ ~found /\ Goto(q, m.then, m)
    BY DEF GenerateUniqueSlug, SlugOf, At, LinkInv, LinkHeld
  <1>1. CASE Goto(q, "findSlug", [m EXCEPT !.counter = @ + 1])
    <2> PICK n : n = [m EXCEPT !.counter = @ + 1]
      OBVIOUS
    <2>1. /\ n \in Creation \cup Retry \cup Renaming /\ n.body = m.body
          /\ n \in Creation => m \in Creation /\ n.since = m.since
          /\ n \in Retry => m \in Retry /\ n.since = m.since /\ n.hidden = m.hidden
      BY <1>0 DEF Creation, Retry, Renaming
    <2>2. LinkHeld("findSlug", n) /\ LinkWaits("findSlug", n)'
      BY <1>0, <2>1 DEF LinkHeld, LinkWaits, linkVars
    <2> QED
      BY <1>0, <1>1, <2>2, LinksKept, GotoPuts, PutLinkInv DEF Base
  <1>2. CASE ~found /\ Goto(q, m.then, m)
    <2> PICK step : step = m.then
      OBVIOUS
    <2>1. /\ m \in Creation => step = "saveLink"
          /\ m \in Retry => step = "saveAgain"
          /\ m \in Renaming => step = "updateLink"
      BY <1>0 DEF Creation, Retry, Renaming
    <2>2. LinkHeld(step, m)
      BY <1>0, <2>1 DEF LinkHeld
    <2>3. LinkWaits(step, m)'
      BY <1>0, <1>2, <2>1, LinksKept DEF LinkWaits
    <2> QED
      BY <1>0, <1>2, <2>2, <2>3, LinksKept, GotoPuts, PutLinkInv DEF Base
  <1> QED
    BY <1>0, <1>1, <1>2

LEMMA InsertLinkStep ==
    ASSUME Base, LinkInv, NEW q \in Requests, InsertLink(q), mem[q].body \in LinkBodies, mem[q].counter \in Nat
    PROVE  LinkInv'
  <1> PICK row : row = LinkRow(NewLink, q)
    OBVIOUS
  <1>1. row \in Link
    <2>1. NewLink \in Link
      BY DEF NewLink, Link, Slugs
    <2> QED
      BY <2>1, LinkRowIs
  <1>2. LinkChange
    <2>1. PICK k \in LinkIds \ Stored : links' = [links EXCEPT ![k] = row]
      BY DEF InsertLink
    <2>2. links[k] = None /\ shown' = shown + ComesIntoView(None, row)
      BY DEF InsertLink, Stored
    <2> QED
      BY <1>1, <2>1, <2>2, LinkWriting
  <1>3. LinksAreCreated'
    BY DEF InsertLink, LinkInv, LinksAreCreated
  <1> QED
    BY <1>2, <1>3, AnswerLink DEF InsertLink

LEMMA CreateLinkStep ==
    ASSUME Base, LinkInv, NEW q \in Requests, CreatePaymentLink(q)
    PROVE  LinkInv'
  <1> PICK m, hidden : m = mem[q] /\ hidden = Hidden(SlugOf(q))
    OBVIOUS
  <1>0. m \in Creation /\ LinkWaits("saveLink", m)
    BY DEF CreatePaymentLink, At, LinkInv, LinkHeld
  <1>1. m.body \in LinkBodies /\ m.counter \in Nat /\ SlugOf(q) = Slug(m.body.name, m.counter)
    BY <1>0 DEF SlugOf, Creation
  <1>2. CASE InsertLink(q)
    BY <1>1, <1>2, InsertLinkStep
  <1>3. CASE SlugTaken(SlugOf(q)) /\ UNCHANGED linkVars
             /\ Goto(q, "findSlug", [m EXCEPT !.counter = 0, !.then = "saveAgain", !.hidden = hidden])
    <2> PICK n : n = [m EXCEPT !.counter = 0, !.then = "saveAgain", !.hidden = hidden]
      OBVIOUS
    <2>1. n \in Retry /\ n \notin Creation /\ Named(n.body) /\ n.hidden = hidden /\ n.since = m.since
      BY <1>0 DEF Creation, Retry, Hidden
    <2>2. hidden \/ shown - m.since >= 1
      BY <1>0, <1>1, <1>3 DEF LinkWaits, SlugTaken
    <2>3. LinkHeld("findSlug", n) /\ LinkWaits("findSlug", n)'
      BY <1>3, <2>1, <2>2 DEF LinkHeld, LinkWaits, linkVars
    <2> QED
      BY <1>3, <2>3, LinksKept, GotoPuts, PutLinkInv DEF Base
  <1> QED
    BY <1>2, <1>3 DEF CreatePaymentLink

LEMMA RetryLinkStep ==
    ASSUME Base, LinkInv, NEW q \in Requests, RetryPaymentLink(q)
    PROVE  LinkInv'
  <1> PICK m : m = mem[q]
    OBVIOUS
  <1>0. m \in Retry /\ LinkWaits("saveAgain", m)
    BY DEF RetryPaymentLink, At, LinkInv, LinkHeld
  <1>1. m.body \in LinkBodies /\ m.counter \in Nat /\ SlugOf(q) = Slug(m.body.name, m.counter)
    BY <1>0 DEF SlugOf, Retry
  <1>2. CASE InsertLink(q)
    BY <1>1, <1>2, InsertLinkStep
  <1>3. CASE RefuseLink(q)
    <2>1. Visible(SlugOf(q)) \/ Hidden(SlugOf(q))
      BY <1>3 DEF RefuseLink, SlugTaken
    <2>2. m.hidden \/ Hidden(SlugOf(q)) \/ shown - m.since >= 2
      BY <1>0, <1>1, <2>1 DEF LinkWaits
    <2>3. LinksAreCreated' /\ links' = links /\ shown' = shown /\ Answer(q)
      BY <1>3, <2>2 DEF RefuseLink, LinksAreCreated, LinkInv
    <2>4. LinkChange
      BY <2>3 DEF LinkChange, LinkInv, Visible, Stored
    <2> QED
      BY <2>3, <2>4, AnswerLink
  <1> QED
    BY <1>2, <1>3 DEF RetryPaymentLink

LEMMA UpdateLinkStep ==
    ASSUME Base, LinkInv, NEW q \in Requests, UpdatePaymentLink(q)
    PROVE  LinkInv'
  <1> PICK k, row : k = mem[q].link /\ row = LinkRow(links[k], q)
    OBVIOUS
  <1>0. mem[q].body \in LinkBodies /\ mem[q].counter \in Nat
    BY DEF UpdatePaymentLink, At, LinkInv, LinkHeld, Renaming
  <1>1. Answer(q) /\ LinksAreCreated'
    BY DEF UpdatePaymentLink, LinkInv, LinksAreCreated
  <1>2. \/ links' = links /\ shown' = shown
        \/ k \in Stored /\ links' = [links EXCEPT ![k] = row] /\ shown' = shown + ComesIntoView(links[k], row)
    BY DEF UpdatePaymentLink, LinkInv
  <1>3. CASE links' = links /\ shown' = shown
    <2>1. LinkChange
      BY <1>3 DEF LinkChange, LinkInv, Visible, Stored
    <2> QED
      BY <1>1, <2>1, AnswerLink
  <1>4. CASE k \in Stored /\ links' = [links EXCEPT ![k] = row] /\ shown' = shown + ComesIntoView(links[k], row)
    <2>1. links[k] \in Link /\ k \in LinkIds
      BY <1>4 DEF Stored, LinkInv
    <2>2. row \in Link
      BY <1>0, <2>1, LinkRowIs
    <2>3. LinkChange
      BY <1>4, <2>1, <2>2, LinkWriting
    <2> QED
      BY <1>1, <2>3, AnswerLink
  <1> QED
    BY <1>2, <1>3, <1>4

LEMMA RemoveLinkStep ==
    ASSUME Base, LinkInv, NEW q \in Requests, DeletePaymentLink(q) \/ SoftDeletePaymentLink(q)
    PROVE  LinkInv'
  <1> PICK st, m : st = pc[q] /\ m = mem[q]
    OBVIOUS
  <1>1. Put(q, st, m) /\ UNCHANGED <<shown, refused>>
    BY ServePuts DEF DeletePaymentLink, SoftDeletePaymentLink, Base
  <1>2. PICK k \in Stored : \/ links' = [links EXCEPT ![k] = None]
                            \/ links' = [links EXCEPT ![k].isDeleted = TRUE]
    BY DEF DeletePaymentLink, SoftDeletePaymentLink
  <1>3. links[k] \in Link /\ k \in LinkIds
    BY DEF Stored, LinkInv
  <1>4. [links[k] EXCEPT !.isDeleted = TRUE] \in Link
    BY <1>3 DEF Link
  <1>5. links' \in [LinkIds -> Link \cup {None}]
    BY <1>2, <1>3, <1>4 DEF LinkInv
  <1>6. ASSUME NEW s, Visible(s)' PROVE Visible(s)
    <2>1. PICK j \in LinkIds : links'[j] # None /\ links'[j].slug = s /\ ~links'[j].isDeleted
      BY <1>6 DEF Visible, Stored
    <2>2. j # k
      BY <1>2, <1>3, <2>1 DEF LinkInv, Link
    <2>3. links'[j] = links[j]
      BY <1>2, <2>2 DEF LinkInv
    <2> QED
      BY <2>1, <2>3 DEF Visible, Stored
  <1>7. LinkChange
    BY <1>1, <1>5, <1>6 DEF LinkChange
  <1>8. LinkHeld(st, m) /\ LinkWaits(st, m)
    BY DEF LinkInv
  <1>9. LinkWaits(st, m)'
    BY <1>7, <1>8, LinkStays
  <1> QED
    BY <1>1, <1>7, <1>8, <1>9, PutLinkInv DEF LinksAreCreated, LinkInv

LEMMA LinkFrame ==
    ASSUME LinkInv, PerRequest', UNCHANGED linkVars, Apart(LinkSteps)
    PROVE  LinkInv'
  <1>1. ASSUME NEW q \in Requests PROVE LinkHeld(pc'[q], mem'[q]) /\ LinkWaits(pc[q], mem[q])'
    <2>1. CASE pc'[q] \in LinkSteps
      BY <2>1, LinksKept DEF LinkInv, Apart, LinkHeld, LinkWaits
    <2>2. CASE pc'[q] \notin LinkSteps
      BY <2>2 DEF LinkHeld, LinkWaits, LinkSteps
    <2> QED
      BY <2>1, <2>2
  <1> QED
    BY <1>1, LinksKept DEF LinkInv, LinkChange

LEMMA LinkNextInv == Base /\ LinkInv /\ [Next]_vars => LinkInv'
  <1> SUFFICES ASSUME Base, LinkInv, [Next]_vars PROVE LinkInv'
    OBVIOUS
  <1>1. CASE LinkStep
    <2>1. PICK q \in Requests :
             \/ PostLink(q) \/ PutLink(q) \/ GenerateUniqueSlug(q)
             \/ CreatePaymentLink(q) \/ RetryPaymentLink(q) \/ UpdatePaymentLink(q)
             \/ DeletePaymentLink(q) \/ SoftDeletePaymentLink(q) \/ LinkInterrupted(q)
      BY <1>1 DEF LinkStep, LinkNext
    <2>2. CASE LinkInterrupted(q)
      BY <2>2, LinksKept, AnswerLink DEF LinkInterrupted, Interrupted
    <2> QED
      BY <2>1, <2>2, AskLinkStep, SearchStep, CreateLinkStep, RetryLinkStep, UpdateLinkStep, RemoveLinkStep
  <1>2. CASE ~LinkStep
    BY <1>2, LinkApart, LinkFrame
  <1> QED
    BY <1>1, <1>2

LEMMA LinkInvariant == Spec => []LinkInv
  BY BaseInit, BaseStep, LinkInitInv, LinkNextInv, PTL DEF Spec

\* A link is refused only for a soft-deleted one that has a slug it tried or for two that came
\* into view meanwhile, whatever slugs names have, however many requests create, update and
\* delete links, and whatever columns they name (PaymentLink.services.ts lines 17 to 98).
THEOREM LinksGetCreated == Spec => []LinksAreCreated
  <1>1. LinkInv => LinksAreCreated
    BY DEF LinkInv
  <1> QED
    BY <1>1, LinkInvariant, PTL

------------------------------------------------------------------------------
TeamAct == TeamNext \/ \E q \in Requests : TeamInterrupted(q)

\* What a request holds at a step.
PutAsk == [role: RoleIds, then: {"findRole"}, body: RoleBodies]
DeleteAsk == [role: RoleIds, then: {"findActiveRole"}]
UserAsk == [role: RoleIds, then: {"findUserRole"}, user: Staff, add: BOOLEAN]
PermissionAsk == [role: RoleIds, then: {"findRolePermission"}, permission: Permissions, add: BOOLEAN]
Making == {"findGranted", "grant"}
Elements(s) == {s[i] : i \in DOMAIN s}
Made == [n: DOMAIN DefaultRoles, role: RoleIds, left: Seq(Permitted)]

TeamHeldAt(step, m) ==
    /\ step = "getRole" => m \in PutAsk \cup DeleteAsk \cup UserAsk \cup PermissionAsk
    /\ step = "findRole" => m \in PutAsk
    /\ step = "saveRoleRow" => m \in [role: RoleIds, row: Role, said: SUBSET DOMAIN NewRole(None, FALSE)]
    /\ step = "findActiveRole" => m \in DeleteAsk
    /\ step \in DeletingSteps => m \in [role: RoleIds, row: {row \in Role : ~row.isActive}]
    /\ step \in {"countRoles", "saveRole"} => m \in [name: RoleNames]
    /\ step \in {"findUserRole", "saveUserRole", "removeUserRole"} => m \in UserAsk
    /\ step \in {"findRolePermission", "saveRolePermission", "removeRolePermission"} => m \in PermissionAsk
    /\ step \in {"findDefault", "saveDefault"} => m \in [n: DOMAIN DefaultRoles]
    /\ step \in Making => m \in Made
    /\ step = "grant" => m.left # <<>>

\* The role a request is about is in the table, and the row it is about to save is the
\* role's but for the activity, unless a body named the role or made it default or not.
RoleSteps == {"getRole", "findRole", "saveRoleRow", "findActiveRole", "findUserRole", "saveUserRole"}
             \cup DeletingSteps \cup Making
Kind == {"name", "isDefault"}
KeptAt(step, m) ==
    \/ step \notin {"saveRoleRow"} \cup DeletingSteps
    \/ m.role \in recast
    \/ step = "saveRoleRow" /\ m.said \cap Kind # {}
    \/ m.row.name = roles[m.role].name /\ m.row.isDefault = roles[m.role].isDefault
TeamKnown ==
    /\ recast \subseteq Created
    /\ \A q \in Requests : pc[q] \in RoleSteps => mem[q].role \in Created
    /\ \A q \in Requests : KeptAt(pc[q], mem[q])

TeamTypeInv ==
    /\ PerRequest
    /\ roles \in [RoleIds -> Role \cup {None}]
    /\ \A q \in Requests : TeamHeldAt(pc[q], mem[q])
    /\ TeamKnown

\* A role that is not contested is not used and deleted at once; one that is about to be
\* deactivated has no users, and one that was deleted is out of use.
DeletionInv ==
    /\ deleted \subseteq Created
    /\ \A q, r \in Requests : pc[q] \in UsingSteps /\ pc[r] \in DeletingSteps /\ mem[q].role = mem[r].role =>
          mem[q].role \in contested
    /\ \A q \in Requests : pc[q] = "saveInactive" =>
          mem[q].role \in contested \/ \A u \in Staff : <<u, mem[q].role>> \notin members
    /\ \A q \in Requests : pc[q] \in UsingSteps => mem[q].role \notin deleted \ contested
    /\ DeletedRoleIsGone

\* Unless two creations overlapped, one is in progress, and there is room for it among the
\* roles no update recast.
Counted == Custom \ recast
CreationInv == doubled \/
    /\ \A q, r \in Requests : pc[q] \in {"saveRole", "saveDefault"} /\ pc[r] \in {"saveRole", "saveDefault"} => q = r
    /\ \A q \in Requests : pc[q] = "saveRole" => Cardinality(Counted) < MaxCustom
    /\ Cardinality(Counted) <= MaxCustom

\* The default roles that no update recast, those in the making too.
Standard == {r \in Created \ recast : roles[r].isDefault}
OneOfName == doubled \/
    /\ \A q \in Requests : pc[q] = "saveDefault" => \A r \in Standard : roles[r].name # DefaultRoles[mem[q].n].name
    /\ \A r, o \in Standard : roles[o].name = roles[r].name => o = r

Whole(r) == \A n \in DOMAIN DefaultRoles : DefaultRoles[n].name = roles[r].name => {r} \X Permits(n) \subseteq grants
Granting == \A q \in Requests : pc[q] \in Making =>
    /\ mem[q].role \in recast \/ roles[mem[q].role].name = DefaultRoles[mem[q].n].name
    /\ mem[q].role \in unfinished \/ {mem[q].role} \X (Permits(mem[q].n) \ Elements(mem[q].left)) \subseteq grants
DefaultInv ==
    /\ OneOfName
    /\ Granting
    /\ \A r \in Standard : r \in unfinished \/ (\E q \in Requests : pc[q] \in Making /\ mem[q].role = r) \/ Whole(r)

TeamInv == TeamTypeInv /\ DeletionInv /\ CreationInv /\ DefaultInv

LEMMA TeamInitInv == Init => TeamInv
  <1> SUFFICES ASSUME Init PROVE TeamInv
    OBVIOUS
  <1>1. PerRequest /\ \A q \in Requests : pc[q] = "idle"
    BY InitPerRequest DEF Init
  <1>2. deleted = {} /\ unfinished = {} /\ recast = {} /\ doubled = FALSE
    BY DEF Init, TeamInit, TeamIdle, TeamStart
  <1>3. roles \in [RoleIds -> Role \cup {None}]
    <2>1. CASE TeamIdle
      BY <2>1 DEF TeamIdle, TeamStart
    <2>2. CASE TeamInit
      <3>1. PICK roster \in Rosters : roles = roster.roles
        BY <2>2 DEF TeamInit, TeamStart
      <3>2. roster.roles \in [RoleIds -> Role \cup {None}]
        BY TeamAssumption, Zenon DEF TeamAssumption
      <3> QED
        BY <3>1, <3>2
    <2> QED
      BY <2>1, <2>2 DEF Init
  <1>4. TeamTypeInv
    BY <1>1, <1>2, <1>3 DEF TeamTypeInv, TeamHeldAt, TeamKnown, KeptAt, UsingSteps, DeletingSteps, Making, RoleSteps
  <1>5. DeletionInv
    BY <1>1, <1>2 DEF DeletionInv, UsingSteps, DeletingSteps, DeletedRoleIsGone
  <1>6. /\ Cardinality(Counted) <= MaxCustom
        /\ \A r, o \in Standard : roles[o].name = roles[r].name => o = r
        /\ \A r \in Standard : Whole(r)
    <2>1. CASE TeamIdle
      <3>1. Created = {}
        BY <2>1 DEF TeamIdle, TeamStart, Created
      <3>2. Counted = {} /\ Standard = {}
        BY <3>1 DEF Counted, Custom, Standard
      <3> QED
        BY <3>2, FS_EmptySet, TeamAssumption DEF TeamAssumption
    <2>2. CASE TeamInit
      <3>1. PICK roster \in Rosters : roles = roster.roles /\ grants = roster.grants
        BY <2>2 DEF TeamInit, TeamStart
      <3>2. Counted = {r \in RoleIds : roles[r] # None} \ Standard
        BY <1>2 DEF Counted, Custom, Created, Standard
      <3>3. Standard = {r \in RoleIds : roles[r] # None /\ roles[r].isDefault}
        BY <1>2 DEF Standard, Created
      <3> DEFINE standard == {r \in RoleIds : roster.roles[r] # None /\ roster.roles[r].isDefault}
      <3>4. /\ Cardinality({r \in RoleIds : roster.roles[r] # None} \ standard) <= MaxCustom
            /\ \A r \in standard : \A o \in standard :
                  roster.roles[o].name = roster.roles[r].name => o = r
            /\ \A r \in standard : \A n \in DOMAIN DefaultRoles :
                  DefaultRoles[n].name = roster.roles[r].name => {r} \X Permits(n) \subseteq roster.grants
        BY <3>1, TeamAssumption, Zenon DEF TeamAssumption
      <3>5. standard = Standard
        BY <3>1, <3>3
      <3> HIDE DEF standard
      <3> QED
        BY <3>1, <3>2, <3>4, <3>5, Zenon DEF Whole
    <2> QED
      BY <2>1, <2>2 DEF Init
  <1>7. CreationInv
    BY <1>1, <1>6 DEF CreationInv
  <1>8. DefaultInv
    BY <1>1, <1>6 DEF DefaultInv, OneOfName, Granting, Making
  <1> QED
    BY <1>4, <1>5, <1>7, <1>8 DEF TeamInv

------------------------------------------------------------------------------
\* Roles are added and keep their names and kinds, unless an update recasts them.
RolesGrow ==
    /\ roles' \in [RoleIds -> Role \cup {None}]
    /\ recast \subseteq recast' /\ recast' \subseteq Created'
    /\ \A r \in Created : r \in Created'
    /\ \A r \in Created \ recast' : roles'[r].name = roles[r].name /\ roles'[r].isDefault = roles[r].isDefault

LEMMA RolesStay == TeamTypeInv /\ roles' = roles /\ recast' = recast => RolesGrow
  BY DEF TeamTypeInv, TeamKnown, RolesGrow, Created

LEMMA PutTeamTypes ==
    ASSUME TeamTypeInv, RolesGrow, NEW q \in Requests, NEW step, NEW m, Put(q, step, m), TeamHeldAt(step, m),
           step \in RoleSteps => m.role \in Created',
           \/ step \notin {"saveRoleRow"} \cup DeletingSteps
           \/ KeptAt(step, m) /\ UNCHANGED <<roles, recast>>
    PROVE  TeamTypeInv'
  <1>1. \A r \in Requests : TeamHeldAt(pc'[r], mem'[r])
    BY DEF TeamTypeInv, Put
  <1>2. TeamKnown'
    <2> SUFFICES ASSUME NEW r \in Requests
                 PROVE  /\ pc'[r] \in RoleSteps => mem'[r].role \in Created'
                        /\ KeptAt(pc[r], mem[r])'
      BY DEF TeamKnown, RolesGrow
    <2>1. CASE r = q
      BY <2>1 DEF Put, KeptAt
    <2>2. CASE r # q
      <3>1. /\ pc'[r] = pc[r] /\ mem'[r] = mem[r] /\ KeptAt(pc[r], mem[r])
            /\ pc[r] \in RoleSteps => mem[r].role \in Created
        BY <2>2 DEF Put, TeamTypeInv, TeamKnown
      <3> QED
        BY <3>1 DEF RolesGrow, KeptAt, RoleSteps
    <2> QED
      BY <2>1, <2>2
  <1> QED
    BY <1>1, <1>2 DEF TeamTypeInv, RolesGrow, Put

LEMMA AnswerTeamTypes ==
    ASSUME TeamTypeInv, RolesGrow, NEW q \in Requests, Answer(q)
    PROVE  TeamTypeInv'
  <1>1. Put(q, "idle", NoMemory)
    BY AnswerPuts DEF TeamTypeInv
  <1> QED
    BY <1>1, PutTeamTypes DEF TeamHeldAt, RoleSteps, DeletingSteps, Making

------------------------------------------------------------------------------
LEMMA GotoTeamTypes ==
    ASSUME TeamTypeInv, RolesGrow, NEW q \in Requests, NEW step, NEW m, Goto(q, step, m), TeamHeldAt(step, m),
           step \in RoleSteps => m.role \in Created', step \notin {"saveRoleRow"} \cup DeletingSteps
    PROVE  TeamTypeInv'
  <1>1. Put(q, step, m)
    BY GotoPuts DEF TeamTypeInv
  <1> QED
    BY <1>1, PutTeamTypes

LEMMA ReceiveTeamTypes ==
    ASSUME TeamTypeInv, UNCHANGED <<roles, recast>>, NEW q \in Requests, NEW c, NEW step, NEW m, Receive(q, c, step, m),
           TeamHeldAt(step, m), step \in RoleSteps => m.role \in Created, step \notin {"saveRoleRow"} \cup DeletingSteps
    PROVE  TeamTypeInv'
  <1>1. Put(q, step, m)
    BY ReceivePuts DEF TeamTypeInv
  <1>2. RolesGrow /\ Created' = Created
    BY RolesStay DEF Created
  <1> QED
    BY <1>1, <1>2, PutTeamTypes

\* Where only a role matters to what is held.
LEMMA AskedOf ==
    ASSUME TeamTypeInv, NEW q \in Requests, pc[q] \in RoleSteps
    PROVE  mem[q].role \in RoleIds /\ mem[q].role \in Created /\ roles[mem[q].role] \in Role
  BY DEF TeamTypeInv, TeamKnown, Created

LEMMA AskTypes ==
    ASSUME TeamTypeInv, NEW q \in Requests, UNCHANGED <<roles, recast>>,
           \/ PostRole(q) \/ PutRole(q) \/ DeleteRoleById(q) \/ PostUserRole(q) \/ DeleteUserRole(q)
           \/ PostPermission(q) \/ DeletePermission(q)
           \/ InitializeDefaultPermissions(q) \/ InitializeDefaultRoles(q)
    PROVE  TeamTypeInv'
  <1> USE DEF Ask, RoleSteps, DeletingSteps, Making
  <1>0. Created \subseteq RoleIds
    BY DEF Created
  <1>1. CASE PostRole(q)
    <2>1. PICK name \in RoleNames : Receive(q, "teams", "countRoles", [name |-> name])
      BY <1>1 DEF PostRole
    <2>2. TeamHeldAt("countRoles", [name |-> name])
      BY DEF TeamHeldAt
    <2> QED
      BY <2>1, <2>2, ReceiveTeamTypes
  <1>2. CASE PutRole(q)
    <2>1. PICK r \in Created, b \in RoleBodies :
             Receive(q, "teams", "getRole", [role |-> r, then |-> "findRole", body |-> b])
      BY <1>2 DEF PutRole
    <2>2. TeamHeldAt("getRole", [role |-> r, then |-> "findRole", body |-> b])
      BY <1>0 DEF TeamHeldAt, PutAsk
    <2> QED
      BY <2>1, <2>2, ReceiveTeamTypes
  <1>3. CASE DeleteRoleById(q)
    <2>1. PICK r \in Created : Receive(q, "teams", "getRole", [role |-> r, then |-> "findActiveRole"])
      BY <1>3 DEF DeleteRoleById
    <2>2. TeamHeldAt("getRole", [role |-> r, then |-> "findActiveRole"])
      BY <1>0 DEF TeamHeldAt, DeleteAsk
    <2> QED
      BY <2>1, <2>2, ReceiveTeamTypes
  <1>4. CASE PostUserRole(q) \/ DeleteUserRole(q)
    <2>1. PICK r \in Created, u \in Staff, add \in BOOLEAN :
             Receive(q, "teams", "getRole", [role |-> r, then |-> "findUserRole", user |-> u, add |-> add])
      BY <1>4 DEF PostUserRole, DeleteUserRole
    <2>2. TeamHeldAt("getRole", [role |-> r, then |-> "findUserRole", user |-> u, add |-> add])
      BY <1>0 DEF TeamHeldAt, UserAsk
    <2> QED
      BY <2>1, <2>2, ReceiveTeamTypes
  <1>5. CASE PostPermission(q) \/ DeletePermission(q)
    <2>1. PICK r \in Created, p \in Permissions, add \in BOOLEAN :
             Receive(q, "teams", "getRole", [role |-> r, then |-> "findRolePermission", permission |-> p, add |-> add])
      BY <1>5 DEF PostPermission, DeletePermission
    <2>2. TeamHeldAt("getRole", [role |-> r, then |-> "findRolePermission", permission |-> p, add |-> add])
      BY <1>0 DEF TeamHeldAt, PermissionAsk
    <2> QED
      BY <2>1, <2>2, ReceiveTeamTypes
  <1>6. CASE InitializeDefaultPermissions(q)
    <2>1. PICK m : Receive(q, "defaults", "findMissing", m)
      BY <1>6 DEF InitializeDefaultPermissions
    <2>2. TeamHeldAt("findMissing", m)
      BY DEF TeamHeldAt
    <2> QED
      BY <2>1, <2>2, ReceiveTeamTypes
  <1>7. CASE InitializeDefaultRoles(q)
    <2>1. TeamHeldAt("findDefault", [n |-> 1])
      BY TeamAssumption DEF TeamAssumption, TeamHeldAt
    <2> QED
      BY <1>7, <2>1, ReceiveTeamTypes DEF InitializeDefaultRoles
  <1> QED
    BY <1>1, <1>2, <1>3, <1>4, <1>5, <1>6, <1>7

LEMMA NoneIsNoRole == None \notin Role
  BY TeamAssumption DEF TeamAssumption

LEMMA NewRoleIs ==
    ASSUME NEW name \in RoleNames, NEW isDefault \in BOOLEAN
    PROVE  /\ NewRole(name, isDefault) \in Role /\ NewRole(name, isDefault) # None
           /\ NewRole(name, isDefault).name = name /\ NewRole(name, isDefault).isDefault = isDefault
  <1> PICK new : new = NewRole(name, isDefault)
    OBVIOUS
  <1>1. new \in Role /\ new.name = name /\ new.isDefault = isDefault
    BY DEF NewRole, Role
  <1> QED
    BY <1>1, NoneIsNoRole

\* A body leaves a role a role, and the columns it does not name as they were.
LEMMA AssignedRole ==
    ASSUME NEW row \in Role, NEW b \in RoleBodies
    PROVE  /\ Assigned(row, b) \in Role
           /\ DOMAIN b \subseteq DOMAIN NewRole(None, FALSE)
           /\ DOMAIN b \cap Kind = {} =>
                 Assigned(row, b).name = row.name /\ Assigned(row, b).isDefault = row.isDefault
  <1> PICK new : new = NewRole(None, FALSE)
    OBVIOUS
  <1>1. /\ DOMAIN new = {"name", "isDefault", "isActive"}
        /\ DOMAIN b \subseteq DOMAIN new /\ Assigned(new, b) \in Role
    BY TeamAssumption DEF TeamAssumption, NewRole
  <1>2. \A c \in DOMAIN b : Assigned(new, b)[c] = b[c]
    BY <1>1 DEF Assigned
  <1>3. /\ Assigned(new, b)["name"] \in RoleNames /\ Assigned(new, b)["isDefault"] \in BOOLEAN
        /\ Assigned(new, b)["isActive"] \in BOOLEAN
    BY <1>1 DEF Role
  <1>4. DOMAIN row = {"name", "isDefault", "isActive"}
        /\ row["name"] \in RoleNames /\ row["isDefault"] \in BOOLEAN /\ row["isActive"] \in BOOLEAN
    BY DEF Role
  <1> PICK after : after = Assigned(row, b)
    OBVIOUS
  <1>5. /\ after = [c \in {"name", "isDefault", "isActive"} |-> after[c]]
        /\ \A c \in {"name", "isDefault", "isActive"} : after[c] = IF c \in DOMAIN b THEN b[c] ELSE row[c]
    BY <1>4 DEF Assigned
  <1>6. after.name \in RoleNames /\ after.isDefault \in BOOLEAN /\ after.isActive \in BOOLEAN
    BY <1>2, <1>3, <1>4, <1>5
  <1>7. after \in Role
    BY <1>5, <1>6 DEF Role
  <1>8. DOMAIN b \cap Kind = {} => after.name = row.name /\ after.isDefault = row.isDefault
    BY <1>5 DEF Kind
  <1> QED
    BY <1>1, <1>7, <1>8

LEMMA GetRoleTypes ==
    ASSUME TeamTypeInv, NEW q \in Requests, UNCHANGED <<roles, recast>>, GetRoleById(q) \/ FindRole(q) \/ FindActiveRole(q)
    PROVE  TeamTypeInv'
  <1>0. RolesGrow /\ Created' = Created
    BY RolesStay DEF Created
  <1>1. CASE Answer(q)
    BY <1>0, <1>1, AnswerTeamTypes
  <1>2. CASE At(q, "getRole") /\ Goto(q, mem[q].then, mem[q])
    <2>1. mem[q].role \in Created /\ mem[q] \in PutAsk \cup DeleteAsk \cup UserAsk \cup PermissionAsk
      BY <1>2 DEF At, TeamTypeInv, TeamHeldAt, TeamKnown, RoleSteps
    <2>2. TeamHeldAt(mem[q].then, mem[q]) /\ mem[q].then \notin {"saveRoleRow"} \cup DeletingSteps
      BY <2>1 DEF TeamHeldAt, PutAsk, DeleteAsk, UserAsk, PermissionAsk, DeletingSteps, Making
    <2> QED
      BY <1>0, <1>2, <2>1, <2>2, GotoTeamTypes
  <1>3. CASE FindRole(q)
    <2> PICK r, b : r = mem[q].role /\ b = mem[q].body
      OBVIOUS
    <2> PICK row : row = Assigned(roles[r], b)
      OBVIOUS
    <2>1. r \in RoleIds /\ r \in Created /\ roles[r] \in Role /\ b \in RoleBodies
      BY <1>3, AskedOf DEF FindRole, At, RoleSteps, TeamTypeInv, TeamHeldAt, PutAsk
    <2>2. /\ row \in Role /\ DOMAIN b \subseteq DOMAIN NewRole(None, FALSE)
          /\ DOMAIN b \cap Kind = {} => row.name = roles[r].name /\ row.isDefault = roles[r].isDefault
      BY <2>1, AssignedRole
    <2> PICK m : m = [role |-> r, row |-> row, said |-> DOMAIN b]
      OBVIOUS
    <2>3. TeamHeldAt("saveRoleRow", m)
      BY <2>1, <2>2 DEF TeamHeldAt, DeletingSteps, Making
    <2>4. KeptAt("saveRoleRow", m)
      BY <2>2 DEF KeptAt
    <2>5. Put(q, "saveRoleRow", m)
      BY <1>3, GotoPuts DEF FindRole, TeamTypeInv
    <2> QED
      BY <1>0, <2>1, <2>3, <2>4, <2>5, PutTeamTypes
  <1>4. CASE /\ At(q, "findActiveRole")
             /\ Goto(q, "countUserRoles", [role |-> mem[q].role, row |-> [roles[mem[q].role] EXCEPT !.isActive = FALSE]])
    <2> PICK r : r = mem[q].role
      OBVIOUS
    <2> PICK row : row = [roles[r] EXCEPT !.isActive = FALSE]
      OBVIOUS
    <2>1. r \in RoleIds /\ r \in Created /\ roles[r] \in Role
      BY <1>4, AskedOf DEF At, RoleSteps
    <2>2. row \in Role /\ ~row.isActive /\ row.name = roles[r].name /\ row.isDefault = roles[r].isDefault
      BY <2>1 DEF Role
    <2> PICK m : m = [role |-> r, row |-> row]
      OBVIOUS
    <2>3. TeamHeldAt("countUserRoles", m)
      BY <2>1, <2>2 DEF TeamHeldAt, DeletingSteps, Making
    <2>4. KeptAt("countUserRoles", m)
      BY <2>2 DEF KeptAt
    <2>5. Put(q, "countUserRoles", m)
      BY <1>4, GotoPuts DEF TeamTypeInv
    <2> QED
      BY <1>0, <2>1, <2>3, <2>4, <2>5, PutTeamTypes
  <1> QED
    BY <1>1, <1>2, <1>3, <1>4 DEF GetRoleById, FindActiveRole

------------------------------------------------------------------------------
LEMMA FindTypes ==
    ASSUME TeamTypeInv, NEW q \in Requests, UNCHANGED <<roles, recast>>,
           \/ CountRoles(q) \/ CountUserRoles(q) \/ FindUserRole(q) \/ FindRolePermission(q)
           \/ AssignPermissionFails(q) \/ FindMissing(q) \/ SavePermission(q)
    PROVE  TeamTypeInv'
  <1>0. RolesGrow /\ Created' = Created
    BY RolesStay DEF Created
  <1>1. CASE Answer(q)
    BY <1>0, <1>1, AnswerTeamTypes
  <1>2. CASE \E m : Goto(q, "findMissing", m) \/ Goto(q, "savePermission", m)
    BY <1>0, <1>2, GotoTeamTypes DEF TeamHeldAt, RoleSteps, DeletingSteps, Making
  <1>6. CASE At(q, "countRoles") /\ Goto(q, "saveRole", mem[q])
    <2>1. TeamHeldAt("saveRole", mem[q])
      BY <1>6 DEF At, TeamTypeInv, TeamHeldAt, DeletingSteps, Making
    <2> QED
      BY <1>0, <1>6, <2>1, GotoTeamTypes DEF RoleSteps, DeletingSteps, Making
  <1>3. CASE At(q, "countUserRoles") /\ Goto(q, "saveInactive", mem[q])
    <2>1. /\ mem[q].role \in Created /\ TeamHeldAt("saveInactive", mem[q])
          /\ KeptAt("saveInactive", mem[q])
      BY <1>3 DEF At, TeamTypeInv, TeamHeldAt, TeamKnown, KeptAt, RoleSteps, DeletingSteps, Making
    <2>2. Put(q, "saveInactive", mem[q])
      BY <1>3, GotoPuts DEF TeamTypeInv
    <2> QED
      BY <1>0, <2>1, <2>2, PutTeamTypes
  <1>4. CASE /\ At(q, "findUserRole")
             /\ Goto(q, "saveUserRole", mem[q]) \/ Goto(q, "removeUserRole", mem[q])
    <2>1. /\ mem[q].role \in Created
          /\ TeamHeldAt("saveUserRole", mem[q]) /\ TeamHeldAt("removeUserRole", mem[q])
      BY <1>4 DEF At, TeamTypeInv, TeamHeldAt, TeamKnown, RoleSteps, DeletingSteps, Making
    <2> QED
      BY <1>0, <1>4, <2>1, GotoTeamTypes DEF DeletingSteps
  <1>5. CASE /\ At(q, "findRolePermission")
             /\ Goto(q, "saveRolePermission", mem[q]) \/ Goto(q, "removeRolePermission", mem[q])
    <2>1. TeamHeldAt("saveRolePermission", mem[q]) /\ TeamHeldAt("removeRolePermission", mem[q])
      BY <1>5 DEF At, TeamTypeInv, TeamHeldAt, DeletingSteps, Making
    <2> QED
      BY <1>0, <1>5, <2>1, GotoTeamTypes DEF RoleSteps, DeletingSteps, Making
  <1> QED
    BY <1>1, <1>2, <1>3, <1>4, <1>5, <1>6
       DEF CountRoles, CountUserRoles, FindUserRole, FindRolePermission, AssignPermissionFails, FindMissing,
           SavePermission

LEMMA FreshAreFree == FreshIds \subseteq RoleIds \ Created
  <1>1. CASE Created = RoleIds
    BY <1>1 DEF FreshIds
  <1>2. CASE Created # RoleIds
    <2>1. \E r \in RoleIds : r \notin Created
      BY <1>2 DEF Created
    <2>2. (CHOOSE r \in RoleIds : r \notin Created) \in RoleIds \ Created
      BY <2>1
    <2> QED
      BY <1>2, <2>2 DEF FreshIds
  <1> QED
    BY <1>1, <1>2

LEMMA SaveTypes ==
    ASSUME TeamTypeInv, NEW q \in Requests,
           \/ CreateRole(q) \/ UpdateRole(q) \/ DeleteRole(q) \/ AssignRoleToUser(q) \/ RemoveUserRole(q)
           \/ AssignPermissionToRole(q) \/ RemovePermissionFromRole(q)
    PROVE  RolesGrow /\ TeamTypeInv'
  <1>1. CASE CreateRole(q)
    <2> PICK row : row = NewRole(mem[q].name, FALSE)
      OBVIOUS
    <2>1. PICK r \in RoleIds \ Created : roles' = [roles EXCEPT ![r] = row]
      BY <1>1, FreshAreFree DEF CreateRole
    <2>2. row \in Role /\ row # None
      BY <1>1, NewRoleIs DEF CreateRole, At, TeamTypeInv, TeamHeldAt
    <2>3. RolesGrow
      BY <1>1, <2>1, <2>2 DEF CreateRole, RolesGrow, TeamTypeInv, TeamKnown, Created
    <2> QED
      BY <1>1, <2>3, AnswerTeamTypes DEF CreateRole
  <1>2. CASE UpdateRole(q)
    <2> PICK r, row : r = mem[q].role /\ row = mem[q].row
      OBVIOUS
    <2>1. r \in RoleIds /\ row \in Role /\ row # None /\ r \in Created
      BY <1>2, NoneIsNoRole DEF UpdateRole, At, TeamTypeInv, TeamHeldAt, TeamKnown, RoleSteps
    <2>4. r \in recast' \/ (row.name = roles[r].name /\ row.isDefault = roles[r].isDefault)
      BY <1>2 DEF UpdateRole, At, TeamTypeInv, TeamKnown, KeptAt, Kind
    <2>2. recast \subseteq recast' /\ recast' \subseteq recast \cup {r} /\ roles' = [roles EXCEPT ![r] = row]
      BY <1>2 DEF UpdateRole
    <2>3. RolesGrow
      BY <2>1, <2>2, <2>4 DEF RolesGrow, TeamTypeInv, TeamKnown, Created
    <2> QED
      BY <1>2, <2>3, AnswerTeamTypes DEF UpdateRole
  <1>3. CASE DeleteRole(q)
    <2> PICK r, row : r = mem[q].role /\ row = mem[q].row
      OBVIOUS
    <2>1. r \in RoleIds /\ r \in Created /\ roles[r] \in Role
      BY <1>3, AskedOf DEF DeleteRole, At, RoleSteps, DeletingSteps
    <2>2. row \in Role /\ row # None
      BY <1>3, NoneIsNoRole DEF DeleteRole, At, TeamTypeInv, TeamHeldAt, DeletingSteps
    <2>5. r \in recast \/ (row.name = roles[r].name /\ row.isDefault = roles[r].isDefault)
      BY <1>3 DEF DeleteRole, At, TeamTypeInv, TeamKnown, KeptAt, DeletingSteps
    <2>3. roles' = [roles EXCEPT ![r] = row] /\ recast' = recast
      BY <1>3 DEF DeleteRole
    <2>4. RolesGrow
      BY <2>1, <2>2, <2>3, <2>5 DEF RolesGrow, TeamTypeInv, TeamKnown, Created
    <2> QED
      BY <1>3, <2>4, AnswerTeamTypes DEF DeleteRole
  <1>4. CASE \/ AssignRoleToUser(q) \/ RemoveUserRole(q)
             \/ AssignPermissionToRole(q) \/ RemovePermissionFromRole(q)
    BY <1>4, RolesStay, AnswerTeamTypes
       DEF AssignRoleToUser, RemoveUserRole, AssignPermissionToRole, RemovePermissionFromRole
  <1> QED
    BY <1>1, <1>2, <1>3, <1>4

LEMMA NextDefaultTypes ==
    ASSUME TeamTypeInv, RolesGrow, NEW q \in Requests, mem[q].n \in DOMAIN DefaultRoles, NextDefault(q)
    PROVE  TeamTypeInv'
  <1>1. CASE Answer(q)
    BY <1>1, AnswerTeamTypes
  <1>2. CASE mem[q].n # Len(DefaultRoles) /\ Goto(q, "findDefault", [n |-> mem[q].n + 1])
    <2> PICK m : m = [n |-> mem[q].n + 1]
      OBVIOUS
    <2>1. mem[q].n + 1 \in DOMAIN DefaultRoles
      BY <1>2, TeamAssumption DEF TeamAssumption
    <2>2. TeamHeldAt("findDefault", m)
      BY <2>1 DEF TeamHeldAt, DeletingSteps, Making
    <2> QED
      BY <1>2, <2>2, GotoTeamTypes DEF RoleSteps, DeletingSteps, Making
  <1> QED
    BY <1>1, <1>2 DEF NextDefault

LEMMA DefaultTypes ==
    ASSUME TeamTypeInv, NEW q \in Requests,
           (FindDefault(q) /\ UNCHANGED <<roles, recast>>) \/ SaveDefault(q) \/ FindGranted(q) \/ Grant(q)
    PROVE  RolesGrow /\ TeamTypeInv'
  <1>1. CASE FindDefault(q) /\ UNCHANGED <<roles, recast>>
    <2>1. RolesGrow /\ mem[q] \in [n: DOMAIN DefaultRoles]
      BY <1>1, RolesStay DEF FindDefault, At, TeamTypeInv, TeamHeldAt
    <2>2. TeamHeldAt("saveDefault", mem[q])
      BY <2>1 DEF TeamHeldAt, DeletingSteps, Making
    <2> QED
      BY <1>1, <2>1, <2>2, NextDefaultTypes, GotoTeamTypes DEF FindDefault, RoleSteps, DeletingSteps, Making
  <1>2. CASE SaveDefault(q)
    <2> PICK n : n = mem[q].n
      OBVIOUS
    <2>1. n \in DOMAIN DefaultRoles
      BY <1>2 DEF SaveDefault, At, TeamTypeInv, TeamHeldAt
    <2>2. PICK r \in RoleIds \ Created :
             /\ roles' = [roles EXCEPT ![r] = NewRole(DefaultRoles[n].name, TRUE)]
             /\ Goto(q, "findGranted", [n |-> n, role |-> r, left |-> DefaultRoles[n].permits])
      BY <1>2, FreshAreFree DEF SaveDefault
    <2> PICK row, m : /\ row = NewRole(DefaultRoles[n].name, TRUE)
                      /\ m = [n |-> n, role |-> r, left |-> DefaultRoles[n].permits]
      OBVIOUS
    <2>3. row \in Role /\ row # None
      BY <2>1, NewRoleIs DEF RoleNames
    <2>4. RolesGrow /\ r \in Created'
      BY <1>2, <2>2, <2>3 DEF SaveDefault, RolesGrow, TeamTypeInv, TeamKnown, Created
    <2>5. m \in Made
      BY <2>1, <2>2, TeamAssumption DEF TeamAssumption, Made
    <2>6. TeamHeldAt("findGranted", m)
      BY <2>5 DEF TeamHeldAt, DeletingSteps, Making
    <2> QED
      BY <2>2, <2>4, <2>6, GotoTeamTypes DEF DeletingSteps
  <1>3. ASSUME pc[q] \in Making PROVE /\ mem[q] \in Made /\ mem[q].role \in Created /\ mem[q].n \in DOMAIN DefaultRoles
                                      /\ mem[q].left \in Seq(Permitted)
    BY <1>3 DEF TeamTypeInv, TeamHeldAt, TeamKnown, RoleSteps, Made
  <1>4. ASSUME pc[q] \in Making, mem[q].left # <<>>, UNCHANGED <<roles, recast>>,
               Goto(q, "findGranted", [mem[q] EXCEPT !.left = Tail(mem[q].left)])
        PROVE  RolesGrow /\ TeamTypeInv'
    <2> PICK m : m = [mem[q] EXCEPT !.left = Tail(mem[q].left)]
      OBVIOUS
    <2>1. Tail(mem[q].left) \in Seq(Permitted)
      BY <1>3, <1>4
    <2>2. m \in Made /\ m.role = mem[q].role
      BY <1>3, <1>4, <2>1 DEF Made
    <2>3. TeamHeldAt("findGranted", m) /\ RolesGrow /\ m.role \in Created'
      BY <1>3, <1>4, <2>2, RolesStay DEF TeamHeldAt, DeletingSteps, Making, Created
    <2>4. Goto(q, "findGranted", m)
      BY <1>4
    <2>5. "findGranted" \notin {"saveRoleRow"} \cup DeletingSteps
      BY DEF DeletingSteps
    <2> QED
      BY <2>3, <2>4, <2>5, GotoTeamTypes
  <1>5. CASE FindGranted(q)
    <2>1. pc[q] \in Making /\ UNCHANGED <<roles, recast>> /\ RolesGrow /\ Created' = Created
      BY <1>5, RolesStay DEF FindGranted, At, Making, Created
    <2>2. CASE NextDefault(q)
      BY <1>3, <2>1, <2>2, NextDefaultTypes
    <2>3. CASE mem[q].left # <<>> /\ Goto(q, "grant", mem[q])
      <3>1. TeamHeldAt("grant", mem[q]) /\ mem[q].role \in Created'
        BY <1>3, <2>1, <2>3 DEF TeamHeldAt, DeletingSteps, Making
      <3> QED
        BY <2>1, <2>3, <3>1, GotoTeamTypes DEF DeletingSteps
    <2> QED
      BY <1>4, <1>5, <2>1, <2>2, <2>3 DEF FindGranted
  <1>6. CASE Grant(q)
    <2>1. pc[q] \in Making /\ UNCHANGED <<roles, recast>> /\ mem[q].left # <<>> /\ RolesGrow
      BY <1>6, RolesStay DEF Grant, At, Making, TeamTypeInv, TeamHeldAt
    <2>2. [mem[q] EXCEPT !.left = Tail(@)] = [mem[q] EXCEPT !.left = Tail(mem[q].left)]
      BY <1>3, <2>1 DEF Made
    <2> QED
      BY <1>4, <1>6, <2>1, <2>2, AnswerTeamTypes DEF Grant
  <1> QED
    BY <1>1, <1>2, <1>5, <1>6

LEMMA TeamTypeStep ==
    ASSUME TeamTypeInv, TeamAct
    PROVE  RolesGrow /\ TeamTypeInv'
  <1>1. ASSUME NEW q \in Requests, TeamReads(q) PROVE RolesGrow /\ TeamTypeInv'
    BY <1>1, RolesStay, AskTypes, GetRoleTypes, FindTypes, DefaultTypes DEF TeamReads, teamTables
  <1>2. ASSUME NEW q \in Requests, TeamInterrupted(q) PROVE RolesGrow /\ TeamTypeInv'
    BY <1>2, RolesStay, AnswerTeamTypes DEF TeamInterrupted, Interrupted
  <1>3. ASSUME NEW q \in Requests, SavePermission(q) PROVE RolesGrow /\ TeamTypeInv'
    BY <1>3, RolesStay, FindTypes DEF SavePermission
  <1> QED
    BY <1>1, <1>2, <1>3, SaveTypes, DefaultTypes DEF TeamAct, TeamNext

------------------------------------------------------------------------------
\* What a step of request q does to the users of the roles and to the deletion of them.
TeamUses(q) ==
    /\ \A r \in Requests \ {q} : pc'[r] = pc[r] /\ mem'[r] = mem[r]
    /\ \A x \in RoleIds, u \in Staff : <<u, x>> \in members' =>
          <<u, x>> \in members \/ (pc[q] = "saveUserRole" /\ x = mem[q].role)
    /\ \A x \in Created : roles'[x].isActive =>
          roles[x].isActive \/ (pc[q] = "saveRoleRow" /\ x = mem[q].role)
    /\ \/ deleted' = deleted
       \/ /\ pc[q] = "saveInactive" /\ deleted' = deleted \cup {mem[q].role}
          /\ pc'[q] = "idle" /\ ~roles'[mem[q].role].isActive
    /\ pc'[q] \in UsingSteps =>
          /\ mem'[q].role = mem[q].role /\ deleted' = deleted
          /\ pc[q] \in UsingSteps \/ IsActive(mem[q].role)
    /\ pc'[q] = "saveInactive" =>
          \A u \in Staff : <<u, mem'[q].role>> \notin members'

\* The histories only grow, and note what overlaps.
TeamNotes ==
    /\ contested \subseteq contested'
    /\ \A q, r \in Requests : pc'[q] \in UsingSteps /\ pc'[r] \in DeletingSteps /\ mem'[q].role = mem'[r].role =>
          mem'[q].role \in contested'
    /\ \/ doubled'
       \/ ~doubled /\ \A q, r \in Requests :
             pc'[q] \in {"saveRole", "saveDefault"} /\ pc'[r] \in {"saveRole", "saveDefault"} => q = r

LEMMA HistoryNotesTeam == TeamHistory => TeamNotes
  <1> SUFFICES ASSUME TeamHistory PROVE TeamNotes
    OBVIOUS
  <1>1. contested \subseteq contested'
    BY DEF TeamHistory
  <1>2. ASSUME NEW q \in Requests, NEW r \in Requests, pc'[q] \in UsingSteps, pc'[r] \in DeletingSteps,
               mem'[q].role = mem'[r].role
        PROVE  mem'[q].role \in contested'
    BY <1>2 DEF TeamHistory
  <1>3. \/ doubled'
        \/ ~doubled /\ \A q, r \in Requests :
              pc'[q] \in {"saveRole", "saveDefault"} /\ pc'[r] \in {"saveRole", "saveDefault"} => q = r
    BY DEF TeamHistory, Overlapping
  <1> QED
    BY <1>1, <1>2, <1>3 DEF TeamNotes

LEMMA DeletionStep ==
    ASSUME TeamTypeInv, RolesGrow, DeletionInv, TeamNotes, NEW q \in Requests, TeamUses(q)
    PROVE  DeletionInv'
  <1>1. deleted' \subseteq Created'
    <2>1. pc[q] = "saveInactive" => mem[q].role \in Created
      BY AskedOf DEF RoleSteps, DeletingSteps
    <2> QED
      BY <2>1 DEF TeamUses, DeletionInv, RolesGrow
  <1>2. ASSUME NEW r \in Requests, pc'[r] = "saveInactive", mem'[r].role \notin contested'
        PROVE  \A u \in Staff : <<u, mem'[r].role>> \notin members'
    <2>1. CASE r = q
      BY <1>2, <2>1 DEF TeamUses
    <2>2. CASE r # q
      <3> PICK x : x = mem[r].role
        OBVIOUS
      <3>1. /\ pc[r] = "saveInactive" /\ mem'[r].role = x /\ x \in RoleIds /\ x \notin contested
            /\ \A u \in Staff : <<u, x>> \notin members
        BY <1>2, <2>2, AskedOf DEF TeamUses, DeletionInv, TeamNotes, RoleSteps, DeletingSteps
      <3>2. ~(pc[q] = "saveUserRole" /\ x = mem[q].role)
        BY <3>1 DEF DeletionInv, UsingSteps, DeletingSteps
      <3> QED
        BY <3>1, <3>2 DEF TeamUses
    <2> QED
      BY <2>1, <2>2
  <1>3. ASSUME NEW r \in Requests, pc'[r] \in UsingSteps, mem'[r].role \in deleted' \ contested' PROVE FALSE
    <2>1. CASE r = q
      <3>1. mem[q].role \in deleted \ contested
        BY <1>3, <2>1 DEF TeamUses, TeamNotes
      <3> QED
        BY <1>3, <2>1, <3>1 DEF TeamUses, DeletionInv, DeletedRoleIsGone, IsActive
    <2>2. CASE r # q
      <3>1. pc[r] \in UsingSteps /\ mem'[r].role = mem[r].role /\ mem[r].role \notin contested
        BY <1>3, <2>2 DEF TeamUses, TeamNotes
      <3>2. mem[r].role \notin deleted
        BY <3>1 DEF DeletionInv
      <3>3. pc[q] = "saveInactive" /\ mem[q].role = mem[r].role
        BY <1>3, <3>1, <3>2 DEF TeamUses
      <3> QED
        BY <3>1, <3>3 DEF DeletionInv, DeletingSteps
    <2> QED
      BY <2>1, <2>2
  <1>4. ASSUME NEW x \in deleted' \ contested'
        PROVE  ~roles'[x].isActive /\ \A u \in Staff : <<u, x>> \notin members'
    <2>1. x \notin contested
      BY DEF TeamNotes
    <2>2. CASE x \in deleted
      <3>1. x \in Created /\ x \in RoleIds
        BY <2>2 DEF DeletionInv, Created
      <3>2. ~(pc[q] \in UsingSteps /\ x = mem[q].role)
        BY <2>1, <2>2 DEF DeletionInv
      <3> QED
        BY <2>1, <2>2, <3>1, <3>2 DEF TeamUses, DeletionInv, DeletedRoleIsGone, UsingSteps
    <2>3. CASE x \notin deleted
      <3>1. pc[q] = "saveInactive" /\ x = mem[q].role /\ ~roles'[x].isActive
        BY <2>3 DEF TeamUses
      <3>2. x \in RoleIds /\ \A u \in Staff : <<u, x>> \notin members
        BY <2>1, <3>1, AskedOf DEF DeletionInv, RoleSteps, DeletingSteps
      <3> QED
        BY <3>1, <3>2 DEF TeamUses
    <2> QED
      BY <2>2, <2>3
  <1> QED
    BY <1>1, <1>2, <1>3, <1>4 DEF DeletionInv, DeletedRoleIsGone, TeamNotes

------------------------------------------------------------------------------
LEMMA GotoMoves ==
    ASSUME PerRequest, NEW q \in Requests, NEW step, NEW m, Goto(q, step, m)
    PROVE  /\ pc'[q] = step /\ mem'[q] = m
           /\ \A r \in Requests \ {q} : pc'[r] = pc[r] /\ mem'[r] = mem[r]
  BY GotoPuts DEF Put

LEMMA AnswerMoves ==
    ASSUME PerRequest, NEW q \in Requests, Answer(q)
    PROVE  pc'[q] = "idle" /\ \A r \in Requests \ {q} : pc'[r] = pc[r] /\ mem'[r] = mem[r]
  BY GotoMoves DEF Answer

LEMMA ReceiveMoves ==
    ASSUME PerRequest, NEW q \in Requests, NEW c, NEW step, NEW m, Receive(q, c, step, m)
    PROVE  pc'[q] = step /\ \A r \in Requests \ {q} : pc'[r] = pc[r] /\ mem'[r] = mem[r]
  BY ReceivePuts DEF Put

\* A step that is about no deletion and no user of a role.
LEMMA OtherUses ==
    ASSUME NEW q \in Requests, pc'[q] \notin UsingSteps \cup {"saveInactive"},
           \A r \in Requests \ {q} : pc'[r] = pc[r] /\ mem'[r] = mem[r],
           UNCHANGED <<members, deleted>>, \A x \in Created : roles'[x] = roles[x]
    PROVE  TeamUses(q)
  BY DEF TeamUses

LEMMA ReadUses ==
    ASSUME TeamTypeInv, NEW q \in Requests, TeamReads(q)
    PROVE  TeamUses(q)
  <1> USE DEF TeamReads, teamTables
  <1>1. CASE \/ PostRole(q) \/ PutRole(q) \/ DeleteRoleById(q) \/ PostUserRole(q) \/ DeleteUserRole(q)
             \/ PostPermission(q) \/ DeletePermission(q)
             \/ InitializeDefaultPermissions(q) \/ InitializeDefaultRoles(q)
    <2>1. PICK c, step, m : Receive(q, c, step, m) /\ step \in {"countRoles", "getRole", "findMissing", "findDefault"}
      BY <1>1 DEF PostRole, PutRole, DeleteRoleById, PostUserRole, DeleteUserRole, PostPermission, DeletePermission,
                  InitializeDefaultPermissions, InitializeDefaultRoles, Ask
    <2>2. pc'[q] \notin UsingSteps \cup {"saveInactive"} /\ \A r \in Requests \ {q} : pc'[r] = pc[r] /\ mem'[r] = mem[r]
      BY <2>1, ReceiveMoves DEF TeamTypeInv, UsingSteps
    <2> QED
      BY <2>2, OtherUses
  <1>2. CASE Answer(q)
    BY <1>2, AnswerMoves, OtherUses DEF TeamTypeInv, UsingSteps
  <1>3. CASE \E step, m : /\ Goto(q, step, m)
                          /\ step \in {"saveRole", "countUserRoles", "removeUserRole", "saveRolePermission",
                                       "removeRolePermission", "findMissing", "savePermission", "findDefault",
                                       "saveDefault"}
    BY <1>3, GotoMoves, OtherUses DEF TeamTypeInv, UsingSteps
  <1>4. CASE At(q, "getRole") /\ IsActive(mem[q].role) /\ Goto(q, mem[q].then, mem[q])
    <2>1. /\ mem'[q] = mem[q] /\ \A r \in Requests \ {q} : pc'[r] = pc[r] /\ mem'[r] = mem[r]
          /\ pc'[q] \in {"findRole", "findActiveRole", "findUserRole", "findRolePermission"}
      <3>1. mem[q].then \in {"findRole", "findActiveRole", "findUserRole", "findRolePermission"}
        BY <1>4 DEF At, TeamTypeInv, TeamHeldAt, PutAsk, DeleteAsk, UserAsk, PermissionAsk
      <3> QED
        BY <1>4, <3>1, GotoMoves DEF TeamTypeInv
    <2> QED
      BY <1>4, <2>1 DEF TeamUses, UsingSteps
  <1>5. CASE FindRole(q)
    <2>1. PICK m : Goto(q, "saveRoleRow", m) /\ m.role = mem[q].role
      BY <1>5 DEF FindRole
    <2>2. /\ pc'[q] = "saveRoleRow" /\ mem'[q].role = mem[q].role
          /\ \A r \in Requests \ {q} : pc'[r] = pc[r] /\ mem'[r] = mem[r]
      BY <2>1, GotoMoves DEF TeamTypeInv
    <2> QED
      BY <1>5, <2>2 DEF TeamUses, UsingSteps, FindRole, At
  <1>6. CASE FindUserRole(q) /\ Goto(q, "saveUserRole", mem[q])
    BY <1>6, GotoMoves DEF TeamTypeInv, TeamUses, UsingSteps, FindUserRole, At
  <1>7. CASE CountUserRoles(q) /\ Goto(q, "saveInactive", mem[q]) /\ \A u \in Staff : <<u, mem[q].role>> \notin members
    BY <1>7, GotoMoves DEF TeamTypeInv, TeamUses, UsingSteps, CountUserRoles, At
  <1>8. CASE CountRoles(q) \/ FindActiveRole(q) \/ FindRolePermission(q) \/ AssignPermissionFails(q)
    BY <1>2, <1>3, <1>8 DEF CountRoles, FindActiveRole, FindRolePermission, AssignPermissionFails
  <1>9. CASE FindMissing(q) \/ FindDefault(q)
    BY <1>2, <1>3, <1>9 DEF FindMissing, FindDefault, NextDefault
  <1>10. CASE GetRoleById(q) \/ CountUserRoles(q) \/ FindUserRole(q)
    BY <1>2, <1>3, <1>4, <1>6, <1>7, <1>10 DEF GetRoleById, CountUserRoles, FindUserRole
  <1> QED
    BY <1>1, <1>5, <1>8, <1>9, <1>10

------------------------------------------------------------------------------
LEMMA WriteUses ==
    ASSUME TeamTypeInv, NEW q \in Requests,
           \/ CreateRole(q) \/ UpdateRole(q) \/ DeleteRole(q) \/ AssignRoleToUser(q) \/ RemoveUserRole(q)
           \/ AssignPermissionToRole(q) \/ RemovePermissionFromRole(q)
    PROVE  TeamUses(q)
  <1>0. Answer(q) => pc'[q] \notin UsingSteps \cup {"saveInactive"} /\ pc'[q] = "idle"
                     /\ \A r \in Requests \ {q} : pc'[r] = pc[r] /\ mem'[r] = mem[r]
    BY AnswerMoves DEF TeamTypeInv, UsingSteps
  <1>1. CASE CreateRole(q)
    <2>1. PICK r \in RoleIds \ Created : roles' = [roles EXCEPT ![r] = NewRole(mem[q].name, FALSE)]
      BY <1>1, FreshAreFree DEF CreateRole
    <2>2. \A x \in Created : roles'[x] = roles[x]
      BY <2>1 DEF TeamTypeInv, Created
    <2> QED
      BY <1>0, <1>1, <2>2, OtherUses DEF CreateRole
  <1>2. CASE UpdateRole(q)
    <2>1. \A x \in Created : x # mem[q].role => roles'[x] = roles[x]
      BY <1>2 DEF UpdateRole, TeamTypeInv, Created
    <2> QED
      BY <1>0, <1>2, <2>1 DEF UpdateRole, TeamUses, At
  <1>3. CASE DeleteRole(q)
    <2>1. mem[q].role \in RoleIds /\ ~mem[q].row.isActive
      BY <1>3 DEF DeleteRole, At, TeamTypeInv, TeamHeldAt, DeletingSteps
    <2>2. ~roles'[mem[q].role].isActive /\ \A x \in Created : x # mem[q].role => roles'[x] = roles[x]
      BY <1>3, <2>1 DEF DeleteRole, TeamTypeInv, Created, Role
    <2> QED
      BY <1>0, <1>3, <2>2 DEF DeleteRole, TeamUses, At
  <1>4. CASE AssignRoleToUser(q)
    <2>1. /\ members' = members \cup {<<mem[q].user, mem[q].role>>} /\ roles' = roles /\ deleted' = deleted
          /\ pc[q] = "saveUserRole"
      BY <1>4 DEF AssignRoleToUser, At
    <2> QED
      BY <1>0, <1>4, <2>1 DEF AssignRoleToUser, TeamUses
  <1>5. CASE RemoveUserRole(q)
    <2>1. members' \subseteq members /\ roles' = roles /\ deleted' = deleted
      BY <1>5 DEF RemoveUserRole
    <2> QED
      BY <1>0, <1>5, <2>1 DEF RemoveUserRole, TeamUses
  <1>6. CASE AssignPermissionToRole(q) \/ RemovePermissionFromRole(q)
    BY <1>0, <1>6, OtherUses DEF AssignPermissionToRole, RemovePermissionFromRole
  <1> QED
    BY <1>1, <1>2, <1>3, <1>4, <1>5, <1>6

LEMMA DefaultUses ==
    ASSUME TeamTypeInv, NEW q \in Requests, SavePermission(q) \/ SaveDefault(q) \/ FindGranted(q) \/ Grant(q)
    PROVE  TeamUses(q)
  <1>1. CASE SaveDefault(q)
    <2> PICK row : row = NewRole(DefaultRoles[mem[q].n].name, TRUE)
      OBVIOUS
    <2>1. PICK r \in RoleIds \ Created : roles' = [roles EXCEPT ![r] = row] /\ \E m : Goto(q, "findGranted", m)
      BY <1>1, FreshAreFree DEF SaveDefault
    <2>2. \A x \in Created : roles'[x] = roles[x]
      BY <2>1 DEF TeamTypeInv, Created
    <2>3. pc'[q] = "findGranted" /\ \A r2 \in Requests \ {q} : pc'[r2] = pc[r2] /\ mem'[r2] = mem[r2]
      BY <2>1, GotoMoves DEF TeamTypeInv
    <2> QED
      BY <1>1, <2>2, <2>3, OtherUses DEF SaveDefault, UsingSteps
  <1>2. CASE SavePermission(q) \/ FindGranted(q) \/ Grant(q)
    <2>1. \/ Answer(q)
          \/ \E step, m : Goto(q, step, m) /\ step \in {"findMissing", "findDefault", "findGranted", "grant"}
      BY <1>2 DEF SavePermission, FindGranted, Grant, NextDefault
    <2>2. UNCHANGED <<roles, members, deleted>>
      BY <1>2 DEF SavePermission, FindGranted, Grant
    <2>3. pc'[q] \notin UsingSteps \cup {"saveInactive"} /\ \A r \in Requests \ {q} : pc'[r] = pc[r] /\ mem'[r] = mem[r]
      BY <2>1, AnswerMoves, GotoMoves DEF TeamTypeInv, UsingSteps
    <2> QED
      BY <2>2, <2>3, OtherUses
  <1> QED
    BY <1>1, <1>2

LEMMA InterruptedUses ==
    ASSUME TeamTypeInv, NEW q \in Requests, TeamInterrupted(q)
    PROVE  TeamUses(q)
  BY AnswerMoves, OtherUses DEF TeamInterrupted, Interrupted, TeamTypeInv, UsingSteps

\* A step of the component is one of a request, and the histories note what it is, unless
\* the request is cut off and leaves its step.
LEMMA TeamStepIs ==
    ASSUME TeamTypeInv, DeletionInv, CreationInv, TeamAct
    PROVE  /\ TeamNotes
           /\ \E q \in Requests :
                 /\ TeamUses(q)
                 /\ \/ TeamReads(q)
                    \/ CreateRole(q) \/ UpdateRole(q) \/ DeleteRole(q)
                    \/ AssignRoleToUser(q) \/ RemoveUserRole(q)
                    \/ AssignPermissionToRole(q) \/ RemovePermissionFromRole(q)
                    \/ SavePermission(q) \/ SaveDefault(q) \/ FindGranted(q) \/ Grant(q)
                    \/ TeamInterrupted(q)
  <1>1. CASE TeamNext
    BY <1>1, HistoryNotesTeam, ReadUses, WriteUses, DefaultUses DEF TeamNext
  <1>2. ASSUME NEW q \in Requests, TeamInterrupted(q) PROVE TeamNotes /\ TeamUses(q)
    <2>1. TeamUses(q)
      BY <1>2, InterruptedUses
    <2>2. pc'[q] = "idle" /\ UNCHANGED <<contested, doubled>>
      BY <1>2, AnswerMoves DEF TeamInterrupted, Interrupted, TeamTypeInv
    <2>3. \A r, p \in Requests : pc'[r] \in UsingSteps /\ pc'[p] \in DeletingSteps /\ mem'[r].role = mem'[p].role =>
             mem'[r].role \in contested'
      BY <2>1, <2>2 DEF TeamUses, DeletionInv, UsingSteps, DeletingSteps
    <2>4. doubled' \/ (~doubled /\ \A r, p \in Requests :
             pc'[r] \in {"saveRole", "saveDefault"} /\ pc'[p] \in {"saveRole", "saveDefault"} => r = p)
      BY <2>1, <2>2 DEF TeamUses, CreationInv
    <2> QED
      BY <2>1, <2>2, <2>3, <2>4 DEF TeamNotes
  <1> QED
    BY <1>1, <1>2 DEF TeamAct

------------------------------------------------------------------------------
\* What a step of request q does to the number of custom roles.
TeamMakes(q) ==
    /\ \/ Counted' \subseteq Counted
       \/ /\ pc[q] = "saveRole" /\ pc'[q] = "idle"
          /\ \E r \in RoleIds : Counted' \subseteq Counted \cup {r}
    /\ pc'[q] = "saveRole" => Counted' \subseteq Counted /\ Cardinality(Counted) < MaxCustom

LEMMA FewerCounted ==
    ASSUME TeamTypeInv, NEW S, IsFiniteSet(S), Counted' \subseteq S
    PROVE  Cardinality(Counted') \in Nat /\ Cardinality(S) \in Nat /\ Cardinality(Counted') <= Cardinality(S)
  BY FS_Subset, FS_CardinalityType

LEMMA CountedIsFinite == IsFiniteSet(Counted)
  <1>1. Counted \in SUBSET RoleIds
    BY DEF Counted, Custom, Created
  <1> QED
    BY <1>1, FS_Subset, TeamAssumption DEF TeamAssumption

LEMMA CreationStep ==
    ASSUME TeamTypeInv, CreationInv, TeamNotes, NEW q \in Requests, TeamUses(q), TeamMakes(q)
    PROVE  CreationInv'
  <1>1. CASE doubled'
    BY <1>1 DEF CreationInv
  <1>2. CASE ~doubled'
    <2>0. /\ \A p, r \in Requests :
                pc[p] \in {"saveRole", "saveDefault"} /\ pc[r] \in {"saveRole", "saveDefault"} => p = r
          /\ \A r \in Requests : pc[r] = "saveRole" => Cardinality(Counted) < MaxCustom
          /\ Cardinality(Counted) <= MaxCustom
          /\ \A p, r \in Requests :
                pc'[p] \in {"saveRole", "saveDefault"} /\ pc'[r] \in {"saveRole", "saveDefault"} => p = r
      BY <1>2 DEF CreationInv, TeamNotes
    <2>1. CASE Counted' \subseteq Counted
      <3>1. \A r \in Requests : pc'[r] = "saveRole" => Cardinality(Counted) < MaxCustom
        BY <2>0 DEF TeamUses, TeamMakes
      <3>2. /\ Cardinality(Counted') \in Nat /\ Cardinality(Counted) \in Nat
            /\ Cardinality(Counted') <= Cardinality(Counted)
        BY <2>1, CountedIsFinite, FewerCounted
      <3> QED
        BY <2>0, <3>1, <3>2, TeamAssumption DEF CreationInv, TeamAssumption
    <2>2. CASE pc[q] = "saveRole" /\ pc'[q] = "idle" /\ \E r \in RoleIds : Counted' \subseteq Counted \cup {r}
      <3>1. PICK r \in RoleIds : Counted' \subseteq Counted \cup {r}
        BY <2>2
      <3>2. IsFiniteSet(Counted) /\ Cardinality(Counted) \in Nat
        BY CountedIsFinite, FS_CardinalityType
      <3>3. Cardinality(Counted') <= Cardinality(Counted) + 1 /\ Cardinality(Counted') \in Nat
        <4> PICK S : S = Counted \cup {r}
          OBVIOUS
        <4>1. IsFiniteSet(S) /\ Cardinality(S) \in Nat /\ Cardinality(S) <= Cardinality(Counted) + 1
          <5>1. IsFiniteSet(S) /\ (Cardinality(S) = Cardinality(Counted) \/ Cardinality(S) = Cardinality(Counted) + 1)
            BY <3>2, FS_AddElement
          <5> QED
            BY <3>2, <5>1, FS_CardinalityType
        <4>2. Cardinality(Counted') \in Nat /\ Cardinality(Counted') <= Cardinality(S)
          BY <3>1, <4>1, FewerCounted
        <4> QED
          BY <3>2, <4>1, <4>2
      <3>4. Cardinality(Counted') <= MaxCustom
        BY <2>0, <2>2, <3>2, <3>3, TeamAssumption DEF TeamAssumption
      <3>5. \A p \in Requests : pc'[p] # "saveRole"
        BY <2>0, <2>2 DEF TeamUses
      <3> QED
        BY <2>0, <3>4, <3>5 DEF CreationInv
    <2> QED
      BY <2>1, <2>2 DEF TeamMakes
  <1> QED
    BY <1>1, <1>2

------------------------------------------------------------------------------
\* What a step of request q does to the default roles and what they permit.
TeamGrants(q) ==
    /\ unfinished \subseteq unfinished'
    /\ \A x \in RoleIds \ unfinished' : \A p : <<x, p>> \in grants => <<x, p>> \in grants'
    /\ \/ Standard' \subseteq Standard
       \/ /\ pc[q] = "saveDefault" /\ pc'[q] = "findGranted"
          /\ mem'[q].role \notin Created /\ Standard' \subseteq Standard \cup {mem'[q].role}
          /\ roles'[mem'[q].role].name = DefaultRoles[mem[q].n].name
    /\ pc'[q] = "saveDefault" =>
          Standard' \subseteq Standard /\ \A x \in Standard : roles[x].name # DefaultRoles[mem'[q].n].name
    /\ pc'[q] \in Making =>
          /\ mem'[q].role \in recast' \/ roles'[mem'[q].role].name = DefaultRoles[mem'[q].n].name
          /\ \/ mem'[q].role \in unfinished'
             \/ {mem'[q].role} \X (Permits(mem'[q].n) \ Elements(mem'[q].left)) \subseteq grants'
    /\ pc[q] \in Making =>
          \/ pc'[q] \in Making /\ mem'[q].role = mem[q].role
          \/ mem[q].role \in unfinished'
          \/ Elements(mem[q].left) = {}

LEMMA OneOfNameStep ==
    ASSUME TeamTypeInv, RolesGrow, CreationInv, OneOfName, TeamNotes, NEW q \in Requests, TeamUses(q), TeamGrants(q)
    PROVE  OneOfName'
  <1>0. CASE doubled'
    BY <1>0 DEF OneOfName
  <1>1. CASE ~doubled'
    <2>0. /\ ~doubled /\ Standard \subseteq Created
          /\ \A p, r \in Requests :
                pc[p] \in {"saveRole", "saveDefault"} /\ pc[r] \in {"saveRole", "saveDefault"} => p = r
          /\ \A r \in Requests : pc[r] = "saveDefault" => \A x \in Standard : roles[x].name # DefaultRoles[mem[r].n].name
          /\ \A x, o \in Standard : roles[o].name = roles[x].name => o = x
      BY <1>1 DEF TeamNotes, OneOfName, CreationInv, Standard
    <2>1. \A x \in Standard' : x \in Created => roles'[x].name = roles[x].name
      BY DEF RolesGrow, Standard
    <2>2. CASE Standard' \subseteq Standard
      <3>1. ASSUME NEW r \in Requests, pc'[r] = "saveDefault", NEW x \in Standard'
            PROVE  roles'[x].name # DefaultRoles[mem'[r].n].name
        BY <2>0, <2>1, <3>1 DEF TeamUses, TeamGrants
      <3> QED
        BY <2>0, <2>1, <2>2, <3>1 DEF OneOfName
    <2>3. CASE /\ pc[q] = "saveDefault" /\ pc'[q] = "findGranted"
               /\ mem'[q].role \notin Created /\ Standard' \subseteq Standard \cup {mem'[q].role}
               /\ roles'[mem'[q].role].name = DefaultRoles[mem[q].n].name
      <3>1. \A r \in Requests : pc'[r] # "saveDefault"
        BY <2>0, <2>3 DEF TeamUses
      <3>2. \A x, o \in Standard' : roles'[o].name = roles'[x].name => o = x
        BY <2>0, <2>1, <2>3
      <3> QED
        BY <3>1, <3>2 DEF OneOfName
    <2> QED
      BY <2>2, <2>3 DEF TeamGrants
  <1> QED
    BY <1>0, <1>1

LEMMA GrantingStep ==
    ASSUME TeamTypeInv, RolesGrow, Granting, NEW q \in Requests, TeamUses(q), TeamGrants(q)
    PROVE  Granting'
  <1> SUFFICES ASSUME NEW r \in Requests, pc'[r] \in Making
               PROVE  /\ mem'[r].role \in recast' \/ roles'[mem'[r].role].name = DefaultRoles[mem'[r].n].name
                      /\ \/ mem'[r].role \in unfinished'
                         \/ {mem'[r].role} \X (Permits(mem'[r].n) \ Elements(mem'[r].left)) \subseteq grants'
    BY DEF Granting
  <1>1. CASE r = q
    BY <1>1 DEF TeamGrants
  <1>2. CASE r # q
    <2> PICK x, S : x = mem[r].role /\ S = Permits(mem[r].n) \ Elements(mem[r].left)
      OBVIOUS
    <2>1. /\ pc[r] \in Making /\ mem'[r] = mem[r] /\ x \in Created /\ x \in RoleIds
          /\ x \in recast \/ roles[x].name = DefaultRoles[mem[r].n].name
          /\ x \in unfinished \/ {x} \X S \subseteq grants
      BY <1>2, AskedOf DEF TeamUses, Granting, RoleSteps
    <2>2. x \in unfinished' \/ {x} \X S \subseteq grants'
      BY <2>1 DEF TeamGrants
    <2> QED
      BY <2>1, <2>2 DEF RolesGrow
  <1> QED
    BY <1>1, <1>2

LEMMA DefaultStep ==
    ASSUME TeamTypeInv, RolesGrow, CreationInv, DefaultInv, TeamNotes, NEW q \in Requests, TeamUses(q), TeamGrants(q)
    PROVE  DefaultInv'
  <1>1. OneOfName' /\ Granting'
    BY OneOfNameStep, GrantingStep DEF DefaultInv
  <1>2. ASSUME NEW x \in Standard', x \notin unfinished', ~\E r \in Requests : pc'[r] \in Making /\ mem'[r].role = x
        PROVE  Whole(x)'
    <2>1. x \in Standard /\ x \in Created /\ x \in RoleIds /\ x \notin unfinished /\ x \notin recast'
      BY <1>2 DEF TeamGrants, Standard, Created, Making
    <2>2. \A n \in DOMAIN DefaultRoles : {x} \X Permits(n) \subseteq grants => {x} \X Permits(n) \subseteq grants'
      BY <1>2, <2>1 DEF TeamGrants
    <2>3. roles'[x].name = roles[x].name
      BY <2>1 DEF RolesGrow
    <2>4. CASE Whole(x)
      BY <2>2, <2>3, <2>4 DEF Whole
    <2>5. CASE \E r \in Requests : pc[r] \in Making /\ mem[r].role = x
      <3>1. PICK r \in Requests : pc[r] \in Making /\ mem[r].role = x
        BY <2>5
      <3>2. r = q
        BY <1>2, <3>1 DEF TeamUses
      <3>3. Elements(mem[q].left) = {}
        BY <1>2, <3>1, <3>2 DEF TeamGrants
      <3> PICK n : n = mem[q].n
        OBVIOUS
      <3>4. n \in DOMAIN DefaultRoles /\ roles[x].name = DefaultRoles[n].name /\ {x} \X Permits(n) \subseteq grants
        <4>1. n \in DOMAIN DefaultRoles
          BY <3>1, <3>2 DEF TeamTypeInv, TeamHeldAt, Made
        <4>2. Permits(n) \ Elements(mem[q].left) = Permits(n)
          BY <3>3
        <4> QED
          BY <2>1, <3>1, <3>2, <4>1, <4>2 DEF DefaultInv, Granting, RolesGrow
      <3>5. \A k \in DOMAIN DefaultRoles : DefaultRoles[k].name = roles[x].name => k = n
        BY <3>4, TeamAssumption, Zenon DEF TeamAssumption
      <3> QED
        BY <2>2, <2>3, <3>4, <3>5 DEF Whole
    <2> QED
      BY <2>1, <2>4, <2>5 DEF DefaultInv
  <1> QED
    BY <1>1, <1>2 DEF DefaultInv

------------------------------------------------------------------------------
LEMMA NoneMade ==
    ASSUME RolesGrow, Created' = Created
    PROVE  Counted' \subseteq Counted /\ Standard' \subseteq Standard
  BY DEF RolesGrow, Counted, Custom, Standard

\* A step that is about no default role in the making.
LEMMA OtherGrants ==
    ASSUME NEW q \in Requests, pc[q] \notin Making, pc'[q] \notin Making \cup {"saveDefault"}, Standard' \subseteq Standard,
           unfinished' = unfinished, grants \subseteq grants'
    PROVE  TeamGrants(q)
  BY DEF TeamGrants

LEMMA ReadMakes ==
    ASSUME TeamTypeInv, RolesGrow, NEW q \in Requests, TeamReads(q)
    PROVE  TeamMakes(q) /\ TeamGrants(q)
  <1> USE DEF TeamReads, teamTables
  <1>0. Created' = Created /\ Counted' \subseteq Counted /\ Standard' \subseteq Standard
    BY NoneMade DEF Created
  <1>1. CASE \/ PostRole(q) \/ PutRole(q) \/ DeleteRoleById(q) \/ PostUserRole(q) \/ DeleteUserRole(q)
             \/ PostPermission(q) \/ DeletePermission(q)
             \/ InitializeDefaultPermissions(q) \/ InitializeDefaultRoles(q)
    <2>1. PICK c, step, m : Receive(q, c, step, m) /\ step \in {"countRoles", "getRole", "findMissing", "findDefault"}
      BY <1>1 DEF PostRole, PutRole, DeleteRoleById, PostUserRole, DeleteUserRole, PostPermission, DeletePermission,
                  InitializeDefaultPermissions, InitializeDefaultRoles, Ask
    <2>2. pc[q] \notin Making /\ pc'[q] \notin Making \cup {"saveDefault", "saveRole"}
      BY <2>1, ReceiveMoves DEF TeamTypeInv, Making, Receive, At
    <2> QED
      BY <1>0, <2>2, OtherGrants DEF TeamMakes
  <1>2. CASE pc[q] \notin Making /\ Answer(q)
    <2>1. pc'[q] = "idle"
      BY <1>2, AnswerMoves DEF TeamTypeInv
    <2> QED
      BY <1>0, <1>2, <2>1, OtherGrants DEF TeamMakes, Making
  <1>3. CASE /\ pc[q] \notin Making
             /\ \E step, m : Goto(q, step, m) /\ step \notin Making \cup {"saveDefault", "saveRole"}
    <2>1. pc'[q] \notin Making \cup {"saveDefault", "saveRole"}
      BY <1>3, GotoMoves DEF TeamTypeInv
    <2> QED
      BY <1>0, <1>3, <2>1, OtherGrants DEF TeamMakes
  <1>4. CASE CountRoles(q)
    <2>1. pc[q] \notin Making
      BY <1>4 DEF CountRoles, At, Making
    <2>2. CASE Cardinality(Counted) < MaxCustom /\ Goto(q, "saveRole", mem[q])
      <3>1. pc'[q] = "saveRole"
        BY <2>2, GotoMoves DEF TeamTypeInv
      <3> QED
        BY <1>0, <2>1, <2>2, <3>1, OtherGrants DEF TeamMakes, Making
    <2> QED
      <3>1. Cardinality(Custom) < MaxCustom => Cardinality(Counted) < MaxCustom
        <4>1. Custom \in SUBSET RoleIds /\ Counted \subseteq Custom
          BY DEF Counted, Custom, Created
        <4>2. IsFiniteSet(Custom)
          BY <4>1, FS_Subset, TeamAssumption DEF TeamAssumption
        <4>3. /\ Cardinality(Custom) \in Nat /\ Cardinality(Counted) \in Nat
              /\ Cardinality(Counted) <= Cardinality(Custom)
          BY <4>1, <4>2, FS_Subset, FS_CardinalityType
        <4> QED
          BY <4>3, TeamAssumption DEF TeamAssumption
      <3> QED
        BY <1>2, <1>4, <2>1, <2>2, <3>1 DEF CountRoles
  <1>5. CASE FindDefault(q)
    <2>1. pc[q] \notin Making
      BY <1>5 DEF FindDefault, At, Making
    <2>2. CASE /\ ~\E r \in Created : roles[r].isDefault /\ roles[r].name = DefaultRoles[mem[q].n].name
               /\ Goto(q, "saveDefault", mem[q])
      <3>1. pc'[q] = "saveDefault" /\ mem'[q] = mem[q]
        BY <2>2, GotoMoves DEF TeamTypeInv
      <3> QED
        BY <1>0, <2>1, <2>2, <3>1 DEF TeamMakes, TeamGrants, Making, Standard
    <2>3. CASE NextDefault(q)
      BY <1>2, <1>3, <2>1, <2>3 DEF NextDefault, Making
    <2> QED
      BY <1>5, <2>2, <2>3 DEF FindDefault
  <1>6. CASE GetRoleById(q)
    <2>1. mem[q].then \in {"findRole", "findActiveRole", "findUserRole", "findRolePermission"} /\ pc[q] \notin Making
      BY <1>6 DEF GetRoleById, At, TeamTypeInv, TeamHeldAt, PutAsk, DeleteAsk, UserAsk, PermissionAsk, Making
    <2> QED
      BY <1>2, <1>3, <1>6, <2>1 DEF GetRoleById, Making
  <1>7. CASE \/ FindRole(q) \/ FindActiveRole(q) \/ CountUserRoles(q) \/ FindUserRole(q) \/ FindRolePermission(q)
             \/ AssignPermissionFails(q) \/ FindMissing(q)
    <2>1. pc[q] \notin Making
      BY <1>7 DEF FindRole, FindActiveRole, CountUserRoles, FindUserRole, FindRolePermission, AssignPermissionFails,
                  FindMissing, At, Making
    <2>2. \/ Answer(q)
          \/ \E step, m : Goto(q, step, m) /\ step \notin Making \cup {"saveDefault", "saveRole"}
      BY <1>7 DEF FindRole, FindActiveRole, CountUserRoles, FindUserRole, FindRolePermission, AssignPermissionFails,
                  FindMissing, Making
    <2> QED
      BY <1>2, <1>3, <2>1, <2>2
  <1> QED
    BY <1>1, <1>4, <1>5, <1>6, <1>7

------------------------------------------------------------------------------
LEMMA WriteMakes ==
    ASSUME TeamTypeInv, RolesGrow, NEW q \in Requests,
           \/ CreateRole(q) \/ UpdateRole(q) \/ DeleteRole(q) \/ AssignRoleToUser(q) \/ RemoveUserRole(q)
           \/ AssignPermissionToRole(q) \/ RemovePermissionFromRole(q)
    PROVE  TeamMakes(q) /\ TeamGrants(q)
  <1>0. Answer(q) => pc'[q] = "idle"
    BY AnswerMoves DEF TeamTypeInv
  <1>1. CASE CreateRole(q)
    <2> PICK row : row = NewRole(mem[q].name, FALSE)
      OBVIOUS
    <2>1. PICK r \in RoleIds \ Created : roles' = [roles EXCEPT ![r] = row]
      BY <1>1, FreshAreFree DEF CreateRole
    <2>2. row # None /\ ~row.isDefault
      BY <1>1, NewRoleIs DEF CreateRole, At, TeamTypeInv, TeamHeldAt
    <2>3. Created' = Created \cup {r}
      BY <2>1, <2>2 DEF TeamTypeInv, Created
    <2>4. Counted' \subseteq Counted \cup {r} /\ Standard' \subseteq Standard
      BY <1>1, <2>1, <2>2, <2>3 DEF CreateRole, TeamTypeInv, Counted, Custom, Standard, Created
    <2>5. pc[q] = "saveRole" /\ pc'[q] = "idle" /\ UNCHANGED <<grants, unfinished>>
      BY <1>0, <1>1 DEF CreateRole, At
    <2> QED
      BY <2>4, <2>5, OtherGrants DEF TeamMakes, Making
  <1>2. CASE UpdateRole(q) \/ DeleteRole(q)
    <2>1. Created' = Created
      <3>1. CASE UpdateRole(q)
        <4>1. mem[q].role \in Created /\ mem[q].row \in Role
          BY <3>1, AskedOf DEF UpdateRole, At, RoleSteps, TeamTypeInv, TeamHeldAt
        <4>2. mem[q].row # None
          BY <4>1, NoneIsNoRole
        <4> QED
          BY <3>1, <4>1, <4>2 DEF UpdateRole, TeamTypeInv, Created
      <3>2. CASE DeleteRole(q)
        <4>1. mem[q].role \in Created /\ mem[q].row \in Role
          BY <3>2, AskedOf DEF DeleteRole, At, RoleSteps, DeletingSteps, TeamTypeInv, TeamHeldAt
        <4>2. mem[q].row # None
          BY <4>1, NoneIsNoRole
        <4> QED
          BY <3>2, <4>1, <4>2 DEF DeleteRole, TeamTypeInv, Created
      <3> QED
        BY <1>2, <3>1, <3>2
    <2>2. pc[q] \in {"saveRoleRow", "saveInactive"} /\ pc'[q] = "idle" /\ UNCHANGED <<grants, unfinished>>
      BY <1>0, <1>2 DEF UpdateRole, DeleteRole, At
    <2> QED
      BY <2>1, <2>2, NoneMade, OtherGrants DEF TeamMakes, Making
  <1>3. CASE AssignRoleToUser(q) \/ RemoveUserRole(q) \/ AssignPermissionToRole(q)
    <2>1. Created' = Created /\ grants \subseteq grants' /\ unfinished' = unfinished
      BY <1>3 DEF AssignRoleToUser, RemoveUserRole, AssignPermissionToRole, Created
    <2>2. pc[q] \in {"saveUserRole", "removeUserRole", "saveRolePermission"} /\ pc'[q] = "idle"
      BY <1>0, <1>3 DEF AssignRoleToUser, RemoveUserRole, AssignPermissionToRole, At
    <2> QED
      BY <2>1, <2>2, NoneMade, OtherGrants DEF TeamMakes, Making
  <1>4. CASE RemovePermissionFromRole(q)
    <2> PICK r, p : r = mem[q].role /\ p = mem[q].permission
      OBVIOUS
    <2>1. /\ Created' = Created /\ pc[q] = "removeRolePermission" /\ pc'[q] = "idle"
          /\ grants' = grants \ {<<r, p>>} /\ unfinished' = unfinished \cup {r}
      BY <1>0, <1>4 DEF RemovePermissionFromRole, Created, At
    <2>2. \A x \in RoleIds \ unfinished' : \A o : <<x, o>> \in grants => <<x, o>> \in grants'
      BY <2>1
    <2> QED
      BY <2>1, <2>2, NoneMade DEF TeamMakes, TeamGrants, Making
  <1> QED
    BY <1>1, <1>2, <1>3, <1>4

------------------------------------------------------------------------------
LEMMA NextDefaultMakes ==
    ASSUME TeamTypeInv, RolesGrow, NEW q \in Requests, NextDefault(q), Created' = Created,
           UNCHANGED <<grants, unfinished>>, pc[q] \in Making, mem[q].left = <<>>
    PROVE  TeamMakes(q) /\ TeamGrants(q)
  <1>1. pc'[q] \in {"idle", "findDefault"}
    BY AnswerMoves, GotoMoves DEF TeamTypeInv, NextDefault
  <1>2. Elements(mem[q].left) = {}
    BY DEF Elements
  <1> QED
    BY <1>1, <1>2, NoneMade DEF TeamMakes, TeamGrants, Making

LEMMA ElementsOfTail ==
    ASSUME NEW S, NEW s \in Seq(S), s # <<>>
    PROVE  Elements(s) \subseteq {Head(s)} \cup Elements(Tail(s))
  <1> SUFFICES ASSUME NEW i \in 1 .. Len(s), i # 1 PROVE s[i] \in Elements(Tail(s))
    BY DEF Elements
  <1>1. i - 1 \in DOMAIN Tail(s) /\ s[i] = Tail(s)[i - 1]
    OBVIOUS
  <1> QED
    BY <1>1 DEF Elements

LEMMA PermitsOf ==
    ASSUME NEW n \in DOMAIN DefaultRoles
    PROVE  Elements(DefaultRoles[n].permits) = Permits(n) /\ DefaultRoles[n].permits \in Seq(Permitted)
  BY TeamAssumption DEF TeamAssumption, Elements, Permits

LEMMA SaveDefaultMakes ==
    ASSUME TeamTypeInv, RolesGrow, NEW q \in Requests, SaveDefault(q)
    PROVE  TeamMakes(q) /\ TeamGrants(q)
  <1> PICK n, row : n = mem[q].n /\ row = NewRole(DefaultRoles[n].name, TRUE)
    OBVIOUS
  <1>1. PICK r \in RoleIds \ Created :
           roles' = [roles EXCEPT ![r] = row] /\ Goto(q, "findGranted", [n |-> n, role |-> r, left |-> DefaultRoles[n].permits])
    BY FreshAreFree DEF SaveDefault
  <1>2. n \in DOMAIN DefaultRoles /\ pc[q] = "saveDefault"
    BY DEF SaveDefault, At, TeamTypeInv, TeamHeldAt
  <1>3. row # None /\ row.name = DefaultRoles[n].name /\ row.isDefault
    BY <1>2, NewRoleIs DEF RoleNames
  <1>4. Created' = Created \cup {r}
    BY <1>1, <1>3 DEF TeamTypeInv, Created
  <1>5. Counted' \subseteq Counted /\ Standard' \subseteq Standard \cup {r} /\ roles'[r].name = DefaultRoles[n].name
    BY <1>1, <1>3, <1>4 DEF SaveDefault, TeamTypeInv, Counted, Custom, Standard, Created
  <1>6. pc'[q] = "findGranted" /\ mem'[q].role = r /\ mem'[q].n = n /\ mem'[q].left = DefaultRoles[n].permits
    BY <1>1, GotoMoves DEF TeamTypeInv
  <1>7. {r} \X (Permits(n) \ Elements(DefaultRoles[n].permits)) \subseteq grants'
    BY <1>2, PermitsOf
  <1>8. UNCHANGED <<grants, unfinished>>
    BY DEF SaveDefault
  <1>9. TeamGrants(q)
    BY <1>1, <1>2, <1>5, <1>6, <1>7, <1>8 DEF TeamGrants, Making
  <1> QED
    BY <1>5, <1>6, <1>9 DEF TeamMakes

LEMMA LeftIsMade ==
    ASSUME NEW m \in Made, m.left # <<>>
    PROVE  /\ [m EXCEPT !.left = Tail(m.left)].role = m.role
           /\ [m EXCEPT !.left = Tail(m.left)].n = m.n
           /\ Elements(m.left) \subseteq {Head(m.left)} \cup Elements([m EXCEPT !.left = Tail(m.left)].left)
  <1> PICK left : left = Tail(m.left)
    OBVIOUS
  <1>1. /\ [m EXCEPT !.left = left].role = m.role /\ [m EXCEPT !.left = left].n = m.n
        /\ [m EXCEPT !.left = left].left = left
    BY DEF Made
  <1>2. Elements(m.left) \subseteq {Head(m.left)} \cup Elements(left)
    BY ElementsOfTail DEF Made
  <1> QED
    BY <1>1, <1>2

LEMMA FindGrantedMakes ==
    ASSUME TeamTypeInv, RolesGrow, Granting, NEW q \in Requests, FindGranted(q)
    PROVE  TeamMakes(q) /\ TeamGrants(q)
  <1> PICK m, r, n : m = mem[q] /\ r = mem[q].role /\ n = mem[q].n
    OBVIOUS
  <1>0. /\ pc[q] = "findGranted" /\ pc[q] \in Making /\ UNCHANGED <<roles, grants, recast>> /\ Created' = Created /\ m \in Made
        /\ r \in RoleIds /\ (r \in recast \/ roles[r].name = DefaultRoles[n].name)
        /\ r \in unfinished \/ {r} \X (Permits(n) \ Elements(m.left)) \subseteq grants
    BY DEF FindGranted, At, TeamTypeInv, TeamHeldAt, Made, Making, Created, Granting
  <1>1. CASE m.left = <<>> /\ NextDefault(q) /\ UNCHANGED unfinished
    BY <1>0, <1>1, NextDefaultMakes
  <1>2. CASE /\ m.left # <<>> /\ unfinished' = unfinished \cup {r}
             /\ Goto(q, "findGranted", [m EXCEPT !.left = Tail(m.left)])
    <2>1. pc'[q] = "findGranted" /\ mem'[q] = [m EXCEPT !.left = Tail(m.left)]
      BY <1>2, GotoMoves DEF TeamTypeInv
    <2>2. mem'[q].role = r /\ mem'[q].n = n
      BY <1>0, <1>2, <2>1, LeftIsMade
    <2> QED
      BY <1>0, <1>2, <2>1, <2>2, NoneMade DEF TeamMakes, TeamGrants, Making
  <1>3. CASE Goto(q, "grant", m) /\ UNCHANGED unfinished
    <2>1. pc'[q] = "grant" /\ mem'[q] = m
      BY <1>3, GotoMoves DEF TeamTypeInv
    <2> QED
      BY <1>0, <1>3, <2>1, NoneMade DEF TeamMakes, TeamGrants, Making
  <1> QED
    BY <1>1, <1>2, <1>3 DEF FindGranted

LEMMA GrantMakes ==
    ASSUME TeamTypeInv, RolesGrow, Granting, NEW q \in Requests, Grant(q)
    PROVE  TeamMakes(q) /\ TeamGrants(q)
  <1> PICK m, r, n, p : m = mem[q] /\ r = mem[q].role /\ n = mem[q].n /\ p = Head(mem[q].left)
    OBVIOUS
  <1>0. /\ pc[q] = "grant" /\ pc[q] \in Making /\ UNCHANGED <<roles, recast>> /\ Created' = Created /\ m \in Made /\ m.left # <<>>
        /\ r \in RoleIds /\ (r \in recast \/ roles[r].name = DefaultRoles[n].name)
        /\ r \in unfinished \/ {r} \X (Permits(n) \ Elements(m.left)) \subseteq grants
        /\ grants' = grants \cup {<<r, p>>}
    BY DEF Grant, At, TeamTypeInv, TeamHeldAt, Made, Making, Created, Granting
  <1>1. CASE unfinished' = unfinished \cup {r} /\ Answer(q)
    <2>1. pc'[q] = "idle"
      BY <1>1, AnswerMoves DEF TeamTypeInv
    <2> QED
      BY <1>0, <1>1, <2>1, NoneMade DEF TeamMakes, TeamGrants, Making
  <1>2. CASE UNCHANGED unfinished /\ Goto(q, "findGranted", [m EXCEPT !.left = Tail(m.left)])
    <2>1. pc'[q] = "findGranted" /\ mem'[q] = [m EXCEPT !.left = Tail(m.left)]
      BY <1>2, GotoMoves DEF TeamTypeInv
    <2>2. /\ mem'[q].role = r /\ mem'[q].n = n
          /\ Elements(m.left) \subseteq {p} \cup Elements(mem'[q].left)
      BY <1>0, <2>1, LeftIsMade
    <2>3. r \in unfinished' \/ {r} \X (Permits(n) \ Elements(mem'[q].left)) \subseteq grants'
      BY <1>0, <1>2, <2>2
    <2> QED
      BY <1>0, <1>2, <2>1, <2>2, <2>3, NoneMade DEF TeamMakes, TeamGrants, Making
  <1> QED
    BY <1>1, <1>2 DEF Grant

LEMMA CutMakes ==
    ASSUME TeamTypeInv, RolesGrow, NEW q \in Requests, SavePermission(q) \/ TeamInterrupted(q)
    PROVE  TeamMakes(q) /\ TeamGrants(q)
  <1>0. Created' = Created /\ grants' = grants
    BY DEF SavePermission, TeamInterrupted, Created
  <1>1. CASE SavePermission(q)
    <2>1. pc[q] \notin Making /\ unfinished' = unfinished /\ pc'[q] \in {"idle", "findMissing"}
      BY <1>1, AnswerMoves, GotoMoves DEF SavePermission, At, Making, TeamTypeInv
    <2> QED
      BY <1>0, <2>1, NoneMade, OtherGrants DEF TeamMakes, Making
  <1>2. CASE TeamInterrupted(q)
    <2>1. /\ pc'[q] = "idle" /\ unfinished \subseteq unfinished'
          /\ pc[q] \in Making => mem[q].role \in unfinished'
      BY <1>2, AnswerMoves DEF TeamInterrupted, Interrupted, Making, TeamTypeInv
    <2> QED
      BY <1>0, <2>1, NoneMade DEF TeamMakes, TeamGrants, Making
  <1> QED
    BY <1>1, <1>2

------------------------------------------------------------------------------
LEMMA TeamStepInv == TeamInv /\ TeamAct => TeamInv'
  <1> SUFFICES ASSUME TeamInv, TeamAct PROVE TeamInv'
    OBVIOUS
  <1>1. TeamTypeInv /\ DeletionInv /\ CreationInv /\ DefaultInv /\ OneOfName /\ Granting
    BY DEF TeamInv, DefaultInv
  <1>2. RolesGrow /\ TeamTypeInv'
    BY <1>1, TeamTypeStep
  <1>3. TeamNotes
    BY <1>1, TeamStepIs
  <1>4. PICK q \in Requests :
           /\ TeamUses(q)
           /\ \/ TeamReads(q)
              \/ CreateRole(q) \/ UpdateRole(q) \/ DeleteRole(q)
              \/ AssignRoleToUser(q) \/ RemoveUserRole(q)
              \/ AssignPermissionToRole(q) \/ RemovePermissionFromRole(q)
              \/ SavePermission(q) \/ SaveDefault(q) \/ FindGranted(q) \/ Grant(q)
              \/ TeamInterrupted(q)
    BY <1>1, TeamStepIs
  <1>5. TeamMakes(q) /\ TeamGrants(q)
    BY <1>1, <1>2, <1>4, ReadMakes, WriteMakes, SaveDefaultMakes, FindGrantedMakes, GrantMakes, CutMakes
  <1>6. DeletionInv'
    BY <1>1, <1>2, <1>3, <1>4, DeletionStep
  <1>7. CreationInv'
    BY <1>1, <1>3, <1>4, <1>5, CreationStep
  <1>8. DefaultInv'
    BY <1>1, <1>2, <1>3, <1>4, <1>5, DefaultStep
  <1> QED
    BY <1>2, <1>6, <1>7, <1>8 DEF TeamInv

------------------------------------------------------------------------------
LEMMA TeamFrame ==
    ASSUME TeamInv, PerRequest', UNCHANGED teamVars, Apart(TeamSteps)
    PROVE  TeamInv'
  <1>0. /\ UNCHANGED <<roles, members, grants, catalog, deleted, contested, recast, doubled, unfinished>>
        /\ Created' = Created
    BY DEF teamVars, Created
  <1>1. Counted' = Counted /\ Standard' = Standard
    BY <1>0 DEF Counted, Custom, Standard
  <1>2. \A q \in Requests : pc'[q] \in TeamSteps => pc'[q] = pc[q] /\ mem'[q] = mem[q]
    BY DEF Apart
  <1>3. \A q \in Requests : pc[q] \in TeamSteps => pc'[q] = pc[q] /\ mem'[q] = mem[q]
    BY DEF Apart
  <1>4. /\ RoleSteps \cup Making \cup UsingSteps \cup DeletingSteps \subseteq TeamSteps
        /\ {"saveRole", "saveDefault"} \subseteq TeamSteps
    BY DEF TeamSteps, UsingSteps, DeletingSteps, RoleSteps, Making
  <1>5. TeamTypeInv'
    <2>1. \A q \in Requests : TeamHeldAt(pc'[q], mem'[q])
      <3> SUFFICES ASSUME NEW q \in Requests PROVE TeamHeldAt(pc'[q], mem'[q])
        OBVIOUS
      <3>1. CASE pc'[q] \in TeamSteps
        BY <1>2, <3>1 DEF TeamInv, TeamTypeInv
      <3>2. CASE pc'[q] \notin TeamSteps
        BY <3>2 DEF TeamHeldAt, TeamSteps, UsingSteps, DeletingSteps, Making
      <3> QED
        BY <3>1, <3>2
    <2>2. TeamKnown'
      <3>1. \A q \in Requests : pc'[q] \in RoleSteps => mem'[q].role \in Created'
        BY <1>0, <1>2, <1>4 DEF TeamInv, TeamTypeInv, TeamKnown
      <3>2. ASSUME NEW q \in Requests PROVE KeptAt(pc[q], mem[q])'
        <4>1. CASE pc'[q] \in TeamSteps
          BY <1>0, <1>2, <4>1 DEF TeamInv, TeamTypeInv, TeamKnown, KeptAt
        <4>2. CASE pc'[q] \notin TeamSteps
          BY <1>4, <4>2 DEF KeptAt, UsingSteps
        <4> QED
          BY <4>1, <4>2
      <3> QED
        BY <1>0, <3>1, <3>2 DEF TeamInv, TeamTypeInv, TeamKnown
    <2> QED
      BY <1>0, <2>1, <2>2 DEF TeamInv, TeamTypeInv
  <1>6. DeletionInv'
    BY <1>0, <1>2, <1>4 DEF TeamInv, DeletionInv, DeletedRoleIsGone, DeletingSteps
  <1>7. CreationInv'
    BY <1>0, <1>1, <1>2, <1>4 DEF TeamInv, CreationInv
  <1>8. DefaultInv'
    <2>1. OneOfName'
      BY <1>0, <1>1, <1>2, <1>4 DEF TeamInv, DefaultInv, OneOfName
    <2>2. Granting'
      BY <1>0, <1>2, <1>4 DEF TeamInv, DefaultInv, Granting
    <2>3. \A r \in Standard : \/ r \in unfinished'
                              \/ \E q \in Requests : pc'[q] \in Making /\ mem'[q].role = r
                              \/ Whole(r)'
      BY <1>0, <1>3, <1>4 DEF TeamInv, DefaultInv, Whole
    <2> QED
      BY <1>1, <2>1, <2>2, <2>3 DEF DefaultInv
  <1> QED
    BY <1>5, <1>6, <1>7, <1>8 DEF TeamInv

LEMMA TeamNextInv == Base /\ TeamInv /\ [Next]_vars => TeamInv'
  <1> SUFFICES ASSUME Base, TeamInv, [Next]_vars PROVE TeamInv'
    OBVIOUS
  <1>1. CASE TeamStep
    BY <1>1, TeamStepInv DEF TeamStep, TeamAct
  <1>2. CASE ~TeamStep
    BY <1>2, TeamApart, TeamFrame
  <1> QED
    BY <1>1, <1>2

LEMMA TeamInvariant == Spec => []TeamInv
  BY BaseInit, BaseStep, TeamInitInv, TeamNextInv, PTL DEF Spec

\* A deleted role stays deleted and permits nobody anything, a merchant has no more custom
\* roles than the bound, and a default role is the only one of its name and permits what it
\* is for, whatever the requests do at once and whatever columns updates name, but for what
\* contested, recast, doubled and unfinished note (RBACService.ts lines 47 to 484).
THEOREM RolesHold == Spec => []RolesKeepTheirRules
  <1>1. TeamInv => RolesKeepTheirRules
    <2>1. TeamInv => DefaultRolesAreWhole
      BY DEF TeamInv, DefaultInv, DefaultRolesAreWhole, OneOfName, Standard, Whole, Making
    <2> QED
      BY <2>1 DEF TeamInv, DeletionInv, CreationInv, Counted, RolesKeepTheirRules, FewCustomRoles
  <1> QED
    BY <1>1, TeamInvariant, PTL

------------------------------------------------------------------------------
TransferAct == TransferNext \/ \E q \in Requests : TransferInterrupted(q)

\* What a request holds at a step.
PaySteps == {"loadAccount", "submitPayment"} \cup SavingSteps
TransferRow == [status: {"pending", "success", "failed"}, hash: Hashes \cup {None}]
Pending == [status |-> "pending", hash |-> None]

TransferHeld(step, m) ==
    /\ step \in {"findSender", "savePending"} \cup PaySteps => m.user \in Holders
    /\ step \in SavingSteps => m.hash \in {m.sent, None} /\ m.sent \in Sent \cup {None}
    /\ step = "saveSuccess" => m.hash = m.sent /\ m.sent # None
    /\ step \in SyncSteps => m.left \subseteq Sent
    /\ step = "insertTransfer" => m.hash \in m.left

TransferTypeInv ==
    /\ PerRequest
    /\ transfers \in Seq(TransferRow)
    /\ ledger \in [Hashes -> Holders \cup {None}]
    /\ recordOf \in [Hashes -> Nat \cup {None}]
    /\ \A q \in Requests : TransferHeld(pc[q], mem[q])

\* The transactions request q is recording.
Recorded(q) ==
    IF pc[q] \in SyncSteps THEN mem[q].left
    ELSE IF pc[q] \in SavingSteps THEN {mem[q].sent} \ {None} ELSE {}

\* A payment has a row of its own, which is pending until its outcome is saved; the row of
\* a transaction is there, and is the one its payment is about to save.
OutcomeInv ==
    /\ \A q \in Requests : pc[q] \in PaySteps =>
          mem[q].row \in DOMAIN transfers /\ transfers[mem[q].row] = Pending
    /\ \A q, r \in Requests : pc[q] \in PaySteps /\ pc[r] \in PaySteps /\ mem[q].row = mem[r].row => q = r
    /\ \A q \in Requests : pc[q] \in SavingSteps /\ mem[q].sent # None => recordOf[mem[q].sent] = mem[q].row
    /\ \A i \in DOMAIN transfers : /\ transfers[i].hash # None => transfers[i].hash \in Sent
                                   /\ transfers[i].status = "success" => transfers[i].hash # None

\* A transaction two requests record at once, or whose payment failed, is blurred, and so is
\* one a synchronisation finds without a row.
BlurInv ==
    /\ \A q, r \in Requests : q # r => Recorded(q) \cap Recorded(r) \subseteq blurred
    /\ \A q \in Requests : pc[q] = "saveFailed" => {mem[q].sent} \ {None} \subseteq blurred
    /\ \A q \in Requests : pc[q] = "insertTransfer" => mem[q].hash \in blurred

\* A transaction that is not blurred has no row while its payment is being saved, and its own
\* row afterwards.
SavedBy(q, h) == pc[q] \in SavingSteps /\ mem[q].sent = h
LedgerInv ==
    \A h \in Sent \ blurred :
       /\ (\E q \in Requests : SavedBy(q, h)) => RowsOf(h) = {}
       /\ \/ \E q \in Requests : SavedBy(q, h)
          \/ RowsOf(h) = {recordOf[h]} /\ transfers[recordOf[h]].status = "success"

TransferInv == TransferTypeInv /\ OutcomeInv /\ BlurInv /\ LedgerInv

LEMMA TransferInitInv == Init => TransferInv
  <1> SUFFICES ASSUME Init PROVE TransferInv
    OBVIOUS
  <1>1. PerRequest /\ \A q \in Requests : pc[q] = "idle"
    BY InitPerRequest DEF Init
  <1>2. /\ transfers = <<>> /\ blurred = {}
        /\ ledger = [h \in Hashes |-> None] /\ recordOf = [h \in Hashes |-> None]
    BY DEF Init, TransferInit, TransferIdle
  <1>3. Sent = {}
    BY <1>2 DEF Sent
  <1>4. TransferTypeInv
    BY <1>1, <1>2 DEF TransferTypeInv, TransferHeld, PaySteps, SavingSteps, SyncSteps
  <1>5. OutcomeInv /\ BlurInv /\ LedgerInv
    BY <1>1, <1>2, <1>3 DEF OutcomeInv, BlurInv, LedgerInv, Recorded, PaySteps, SavingSteps, SyncSteps
  <1> QED
    BY <1>4, <1>5 DEF TransferInv

------------------------------------------------------------------------------
\* The history notes what two requests record and what failed.
TransferNotes ==
    /\ blurred \subseteq blurred'
    /\ \A q, r \in Requests : q # r => (Recorded(q) \cap Recorded(r))' \subseteq blurred'
    /\ \A q \in Requests : pc'[q] = "saveFailed" => {mem'[q].sent} \ {None} \subseteq blurred'

LEMMA HistoryNotesTransfers == TransferHistory => TransferNotes
  <1> SUFFICES ASSUME TransferHistory PROVE TransferNotes
    OBVIOUS
  <1>1. blurred \subseteq blurred'
    BY DEF TransferHistory
  <1>2. ASSUME NEW q \in Requests, NEW r \in Requests, q # r PROVE (Recorded(q) \cap Recorded(r))' \subseteq blurred'
    <2>1. Recorded(q)' = Recording(q) /\ Recorded(r)' = Recording(r)
      BY DEF Recorded, Recording
    <2>2. Recording(q) \cap Recording(r) \subseteq InBoth(Recording)
      BY <1>2 DEF InBoth
    <2> QED
      BY <2>1, <2>2 DEF TransferHistory
  <1>3. ASSUME NEW q \in Requests, pc'[q] = "saveFailed" PROVE {mem'[q].sent} \ {None} \subseteq blurred'
    <2>1. Recording(q) = {mem'[q].sent} \ {None}
      BY <1>3 DEF Recording, SyncSteps, SavingSteps
    <2> QED
      BY <1>3, <2>1 DEF TransferHistory
  <1> QED
    BY <1>1, <1>2, <1>3 DEF TransferNotes

\* The tables stay, and so does what a request is recording, unless it is blurred.
LEMMA QuietTransfer ==
    ASSUME TransferInv, UNCHANGED <<transfers, ledger, recordOf>>, TransferNotes,
           NEW q \in Requests, NEW step, NEW m, Put(q, step, m), TransferHeld(step, m),
           step \in PaySteps => pc[q] \in PaySteps /\ m.row = mem[q].row,
           step \in SavingSteps /\ m.sent # None => SavedBy(q, m.sent),
           \A h \in Sent : SavedBy(q, h) => h \in blurred' \/ (step \in SavingSteps /\ m.sent = h),
           step = "insertTransfer" => m.hash \in blurred'
    PROVE  TransferInv'
  <1>0. Sent' = Sent /\ \A h : RowsOf(h)' = RowsOf(h)
    BY DEF Sent, RowsOf
  <1>1. pc'[q] = step /\ mem'[q] = m /\ \A r \in Requests \ {q} : pc'[r] = pc[r] /\ mem'[r] = mem[r]
    BY DEF Put
  <1>2. TransferTypeInv'
    <2>1. \A s, k : TransferHeld(s, k)' <=> TransferHeld(s, k)
      BY <1>0 DEF TransferHeld
    <2>2. \A r \in Requests : TransferHeld(pc'[r], mem'[r])
      BY <1>1 DEF TransferInv, TransferTypeInv
    <2> QED
      BY <2>1, <2>2 DEF TransferInv, TransferTypeInv, Put
  <1>3. OutcomeInv'
    <2>1. \A r \in Requests : pc'[r] \in PaySteps => pc[r] \in PaySteps /\ mem'[r].row = mem[r].row
      BY <1>1
    <2>2. \A r \in Requests : pc'[r] \in SavingSteps /\ mem'[r].sent # None =>
             pc[r] \in SavingSteps /\ mem[r].sent = mem'[r].sent
      BY <1>1 DEF SavedBy
    <2>3. SavingSteps \subseteq PaySteps
      BY DEF PaySteps
    <2> QED
      BY <1>0, <2>1, <2>2, <2>3 DEF TransferInv, OutcomeInv
  <1>4. BlurInv'
    BY <1>1 DEF TransferInv, BlurInv, TransferNotes
  <1>5. LedgerInv'
    <2> SUFFICES ASSUME NEW h \in Sent, h \notin blurred'
                 PROVE  /\ (\E r \in Requests : SavedBy(r, h)') => RowsOf(h) = {}
                        /\ \/ \E r \in Requests : SavedBy(r, h)'
                           \/ RowsOf(h) = {recordOf[h]} /\ transfers[recordOf[h]].status = "success"
      BY <1>0 DEF LedgerInv
    <2>1. h \notin blurred
      BY DEF TransferNotes
    <2>2. h # None
      BY TransferAssumption DEF Sent
    <2>3. \A r \in Requests : SavedBy(r, h)' <=> SavedBy(r, h)
      BY <1>1, <2>2 DEF SavedBy
    <2> QED
      BY <2>1, <2>3 DEF TransferInv, LedgerInv
  <1> QED
    BY <1>2, <1>3, <1>4, <1>5 DEF TransferInv

------------------------------------------------------------------------------
LEMMA RowAdded ==
    ASSUME TransferTypeInv, NEW row \in TransferRow, transfers' = Append(transfers, row)
    PROVE  /\ transfers' \in Seq(TransferRow)
           /\ DOMAIN transfers' = DOMAIN transfers \cup {Len(transfers) + 1}
           /\ Len(transfers) + 1 \notin DOMAIN transfers
           /\ \A i \in DOMAIN transfers : transfers'[i] = transfers[i]
           /\ transfers'[Len(transfers) + 1] = row
           /\ \A h : h # row.hash => RowsOf(h)' = RowsOf(h)
  <1>1. /\ transfers' \in Seq(TransferRow)
        /\ DOMAIN transfers' = DOMAIN transfers \cup {Len(transfers) + 1}
        /\ Len(transfers) + 1 \notin DOMAIN transfers
        /\ \A i \in DOMAIN transfers : transfers'[i] = transfers[i]
        /\ transfers'[Len(transfers) + 1] = row
    BY DEF TransferTypeInv
  <1> QED
    BY <1>1 DEF RowsOf

LEMMA RowSet ==
    ASSUME TransferTypeInv, NEW row \in TransferRow, NEW i \in DOMAIN transfers, transfers[i] = Pending,
           transfers' = [transfers EXCEPT ![i] = row]
    PROVE  /\ transfers' \in Seq(TransferRow)
           /\ DOMAIN transfers' = DOMAIN transfers
           /\ \A j \in DOMAIN transfers : transfers'[j] = IF j = i THEN row ELSE transfers[j]
           /\ \A h : h # None /\ h # row.hash => RowsOf(h)' = RowsOf(h)
           /\ row.hash # None => RowsOf(row.hash)' = RowsOf(row.hash) \cup {i}
  <1>1. /\ transfers' \in Seq(TransferRow)
        /\ DOMAIN transfers' = DOMAIN transfers
        /\ \A j \in DOMAIN transfers : transfers'[j] = IF j = i THEN row ELSE transfers[j]
    BY DEF TransferTypeInv
  <1>2. \A j : j \in DOMAIN transfers' <=> j \in DOMAIN transfers
    BY <1>1
  <1>3. \A h : h # None /\ h # row.hash => RowsOf(h)' = RowsOf(h)
    BY <1>1, <1>2 DEF RowsOf, Pending
  <1>4. row.hash # None => RowsOf(row.hash)' = RowsOf(row.hash) \cup {i}
    BY <1>1, <1>2 DEF RowsOf
  <1> QED
    BY <1>1, <1>3, <1>4

\* A row is added that is pending or of a blurred transaction.
LEMMA AddRow ==
    ASSUME TransferInv, UNCHANGED <<ledger, recordOf>>, TransferNotes, NEW row \in TransferRow,
           transfers' = Append(transfers, row), row.hash \in (Sent \cap blurred) \cup {None},
           row.status = "success" => row.hash # None,
           NEW q \in Requests, NEW step, NEW m, Put(q, step, m), TransferHeld(step, m),
           pc[q] \notin SavingSteps, step \notin SavingSteps, step # "insertTransfer",
           step \in PaySteps => m.row = Len(transfers) + 1 /\ row = Pending
    PROVE  TransferInv'
  <1> PICK n : n = Len(transfers) + 1
    OBVIOUS
  <1>0. /\ TransferTypeInv /\ OutcomeInv /\ BlurInv /\ LedgerInv
        /\ Sent' = Sent
    BY DEF TransferInv, Sent
  <1>1. pc'[q] = step /\ mem'[q] = m /\ \A r \in Requests \ {q} : pc'[r] = pc[r] /\ mem'[r] = mem[r]
    BY DEF Put
  <1>2. /\ transfers' \in Seq(TransferRow)
        /\ DOMAIN transfers' = DOMAIN transfers \cup {n}
        /\ n \notin DOMAIN transfers
        /\ \A i \in DOMAIN transfers : transfers'[i] = transfers[i]
        /\ transfers'[n] = row
        /\ \A h : h # row.hash => RowsOf(h)' = RowsOf(h)
    BY <1>0, RowAdded
  <1>3. TransferTypeInv'
    <2>1. \A s, k : TransferHeld(s, k)' <=> TransferHeld(s, k)
      BY <1>0 DEF TransferHeld
    <2>2. \A r \in Requests : TransferHeld(pc'[r], mem'[r])
      BY <1>0, <1>1 DEF TransferTypeInv
    <2> QED
      BY <1>0, <1>2, <2>1, <2>2 DEF TransferTypeInv, Put
  <1>4. OutcomeInv'
    <2>1. \A r \in Requests : pc'[r] \in PaySteps =>
             \/ pc[r] \in PaySteps /\ mem'[r].row = mem[r].row /\ r # q
             \/ r = q /\ mem'[r].row = n /\ row = Pending
      BY <1>1
    <2>2. \A r \in Requests : pc'[r] \in SavingSteps => pc[r] \in SavingSteps /\ mem'[r] = mem[r]
      BY <1>1
    <2> QED
      BY <1>0, <1>2, <2>1, <2>2 DEF OutcomeInv
  <1>5. BlurInv'
    BY <1>0, <1>1 DEF BlurInv, TransferNotes
  <1>6. LedgerInv'
    <2> SUFFICES ASSUME NEW h \in Sent, h \notin blurred'
                 PROVE  /\ (\E r \in Requests : SavedBy(r, h)') => RowsOf(h)' = {}
                        /\ \/ \E r \in Requests : SavedBy(r, h)'
                           \/ RowsOf(h)' = {recordOf[h]} /\ transfers'[recordOf[h]].status = "success"
      BY <1>0 DEF LedgerInv
    <2>1. h \notin blurred /\ h # None
      BY TransferAssumption DEF TransferNotes, Sent
    <2>2. \A r \in Requests : SavedBy(r, h)' <=> SavedBy(r, h)
      BY <1>1 DEF SavedBy
    <2>3. RowsOf(h)' = RowsOf(h)
      BY <1>2, <2>1
    <2>4. RowsOf(h) = {recordOf[h]} => transfers'[recordOf[h]] = transfers[recordOf[h]]
      BY <1>2 DEF RowsOf
    <2> QED
      BY <1>0, <2>1, <2>2, <2>3, <2>4 DEF LedgerInv
  <1> QED
    BY <1>3, <1>4, <1>5, <1>6 DEF TransferInv

\* The outcome of a payment is saved.
LEMMA SetOutcome ==
    ASSUME TransferInv, UNCHANGED <<ledger, recordOf>>, TransferNotes, NEW q \in Requests, Answer(q),
           NEW st, transfers' = Outcome(q, st),
           \/ pc[q] = "saveSuccess" /\ st = "success"
           \/ pc[q] = "saveFailed" /\ st = "failed"
    PROVE  TransferInv'
  <1> PICK i, h, row : i = mem[q].row /\ h = mem[q].sent /\ row = [status |-> st, hash |-> mem[q].hash]
    OBVIOUS
  <1>0. /\ TransferTypeInv /\ OutcomeInv /\ BlurInv /\ LedgerInv
        /\ Sent' = Sent /\ Sent \subseteq Hashes /\ None \notin Hashes
    BY TransferAssumption DEF TransferInv, Sent
  <1>1. /\ pc'[q] = "idle" /\ \A r \in Requests \ {q} : pc'[r] = pc[r] /\ mem'[r] = mem[r]
        /\ PerRequest'
    BY <1>0, AnswerPuts DEF TransferTypeInv, Put
  <1>2. /\ i \in DOMAIN transfers /\ transfers[i] = Pending /\ row \in TransferRow
        /\ h \in Sent \cup {None} /\ row.hash \in {h, None} /\ (h # None => recordOf[h] = i)
        /\ pc[q] = "saveSuccess" => row.hash = h /\ h # None
        /\ pc[q] = "saveFailed" /\ h # None => h \in blurred
    BY <1>0 DEF OutcomeInv, TransferTypeInv, TransferHeld, PaySteps, SavingSteps, TransferRow, BlurInv
  <1>3. /\ transfers' \in Seq(TransferRow)
        /\ DOMAIN transfers' = DOMAIN transfers
        /\ \A j \in DOMAIN transfers : transfers'[j] = IF j = i THEN row ELSE transfers[j]
        /\ \A g : g # None /\ g # row.hash => RowsOf(g)' = RowsOf(g)
        /\ row.hash # None => RowsOf(row.hash)' = RowsOf(row.hash) \cup {i}
    <2>1. transfers' = [transfers EXCEPT ![i] = row]
      BY DEF Outcome
    <2> QED
      BY <1>0, <1>2, <2>1, RowSet
  <1>4. TransferTypeInv'
    <2>1. \A s, k : TransferHeld(s, k)' <=> TransferHeld(s, k)
      BY <1>0 DEF TransferHeld
    <2>2. TransferHeld("idle", mem'[q])
      BY DEF TransferHeld, PaySteps, SavingSteps, SyncSteps
    <2>3. \A r \in Requests : TransferHeld(pc'[r], mem'[r])
      BY <1>0, <1>1, <2>2 DEF TransferTypeInv
    <2> QED
      BY <1>0, <1>1, <1>3, <2>1, <2>3 DEF TransferTypeInv
  <1>5. OutcomeInv'
    <2>1. \A r \in Requests : pc'[r] \in PaySteps =>
             pc[r] \in PaySteps /\ mem'[r] = mem[r] /\ r # q /\ mem[r].row # i
      BY <1>0, <1>1 DEF PaySteps, SavingSteps, OutcomeInv
    <2>2. SavingSteps \subseteq PaySteps
      BY DEF PaySteps
    <2> QED
      BY <1>0, <1>1, <1>2, <1>3, <2>1, <2>2 DEF OutcomeInv, SavingSteps
  <1>6. BlurInv'
    BY <1>0, <1>1 DEF BlurInv, TransferNotes
  <1>7. LedgerInv'
    <2> SUFFICES ASSUME NEW g \in Sent, g \notin blurred'
                 PROVE  /\ (\E r \in Requests : SavedBy(r, g)') => RowsOf(g)' = {}
                        /\ \/ \E r \in Requests : SavedBy(r, g)'
                           \/ RowsOf(g)' = {recordOf[g]} /\ transfers'[recordOf[g]].status = "success"
      BY <1>0 DEF LedgerInv
    <2>1. g \notin blurred /\ g # None
      BY <1>0 DEF TransferNotes
    <2>2. CASE g # h
      <3>1. \A r \in Requests : SavedBy(r, g)' <=> SavedBy(r, g)
        BY <1>1, <2>2 DEF SavedBy, SavingSteps
      <3>2. RowsOf(g)' = RowsOf(g)
        BY <1>2, <1>3, <2>1, <2>2
      <3>3. RowsOf(g) = {recordOf[g]} => transfers'[recordOf[g]] = transfers[recordOf[g]]
        BY <1>2, <1>3, <2>1 DEF RowsOf, Pending
      <3> QED
        BY <1>0, <2>1, <3>1, <3>2, <3>3 DEF LedgerInv
    <2>3. CASE g = h
      <3>1. pc[q] = "saveSuccess" /\ row.hash = h /\ st = "success"
        BY <1>2, <2>1, <2>3
      <3>2. RowsOf(h) = {}
        BY <1>0, <2>1, <2>3, <3>1 DEF LedgerInv, SavedBy, SavingSteps
      <3>3. ~\E r \in Requests : SavedBy(r, g)'
        <4> SUFFICES ASSUME NEW r \in Requests, SavedBy(r, g)' PROVE FALSE
          OBVIOUS
        <4>1. r # q /\ SavedBy(r, g)
          BY <1>1 DEF SavedBy, SavingSteps
        <4>2. g \in Recorded(r) /\ g \in Recorded(q)
          BY <2>1, <2>3, <3>1, <4>1 DEF SavedBy, Recorded, SavingSteps, SyncSteps
        <4> QED
          BY <1>0, <2>1, <4>1, <4>2 DEF BlurInv
      <3> QED
        BY <1>2, <1>3, <2>1, <2>3, <3>1, <3>2, <3>3
    <2> QED
      BY <2>2, <2>3
  <1> QED
    BY <1>4, <1>5, <1>6, <1>7 DEF TransferInv

------------------------------------------------------------------------------
\* The network executes the transaction of a payment.
LEMMA ExecutePayment ==
    ASSUME TransferInv, TransferNotes, NEW q \in Requests, pc[q] = "submitPayment", NEW h \in Hashes \ Sent,
           transfers' = transfers,
           ledger' = [ledger EXCEPT ![h] = mem[q].user], recordOf' = [recordOf EXCEPT ![h] = mem[q].row],
           NEW step, NEW m, Put(q, step, m), m.user = mem[q].user, m.row = mem[q].row, m.sent = h,
           \/ step = "saveSuccess" /\ m.hash = h
           \/ step = "saveFailed" /\ m.hash = None
    PROVE  TransferInv'
  <1> PICK i, u : i = mem[q].row /\ u = mem[q].user
    OBVIOUS
  <1>0. /\ TransferTypeInv /\ OutcomeInv /\ BlurInv /\ LedgerInv
        /\ Sent \subseteq Hashes /\ None \notin Hashes
    BY TransferAssumption DEF TransferInv, Sent
  <1>1. pc'[q] = step /\ mem'[q] = m /\ \A r \in Requests \ {q} : pc'[r] = pc[r] /\ mem'[r] = mem[r]
    BY DEF Put
  <1>2. u \in Holders /\ u # None /\ i \in DOMAIN transfers /\ i \in Nat /\ transfers[i] = Pending
    BY <1>0, TransferAssumption DEF TransferTypeInv, TransferHeld, OutcomeInv, PaySteps
  <1>3. /\ Sent' = Sent \cup {h} /\ ledger' \in [Hashes -> Holders \cup {None}]
        /\ recordOf' \in [Hashes -> Nat \cup {None}]
        /\ recordOf'[h] = i /\ \A g \in Sent : recordOf'[g] = recordOf[g]
    BY <1>0, <1>2 DEF TransferTypeInv, Sent
  <1>4. \A g : RowsOf(g)' = RowsOf(g)
    BY DEF RowsOf
  <1>5. RowsOf(h) = {}
    BY <1>0 DEF RowsOf, OutcomeInv
  <1>6. TransferTypeInv'
    <2>1. \A r \in Requests \ {q} : TransferHeld(pc[r], mem[r])'
      <3> SUFFICES ASSUME NEW r \in Requests \ {q} PROVE TransferHeld(pc[r], mem[r])'
        OBVIOUS
      <3>1. TransferHeld(pc[r], mem[r]) /\ pc'[r] = pc[r] /\ mem'[r] = mem[r]
        BY <1>0, <1>1 DEF TransferTypeInv
      <3> QED
        BY <1>3, <3>1 DEF TransferHeld
    <2>2. TransferHeld(step, m)'
      <3>1. m.user \in Holders /\ m.sent \in Sent' /\ m.sent # None /\ m.hash \in {m.sent, None}
        BY <1>0, <1>2, <1>3
      <3>2. step \notin SyncSteps
        BY DEF SyncSteps
      <3> QED
        BY <3>1, <3>2 DEF TransferHeld, SyncSteps
    <2>3. \A r \in Requests : TransferHeld(pc[r], mem[r])'
      BY <1>1, <2>1, <2>2
    <2> QED
      BY <1>0, <1>3, <2>3 DEF TransferTypeInv, Put
  <1>7. OutcomeInv'
    <2>1. \A r \in Requests : pc'[r] \in PaySteps => pc[r] \in PaySteps /\ mem'[r].row = mem[r].row
      BY <1>1 DEF PaySteps
    <2>2. \A r \in Requests : pc'[r] \in SavingSteps /\ mem'[r].sent # None => recordOf'[mem'[r].sent] = mem'[r].row
      <3> SUFFICES ASSUME NEW r \in Requests, pc'[r] \in SavingSteps, mem'[r].sent # None
                   PROVE  recordOf'[mem'[r].sent] = mem'[r].row
        OBVIOUS
      <3>1. CASE r = q
        BY <1>1, <1>3, <3>1
      <3>2. CASE r # q
        <4>1. mem[r].sent \in Sent /\ pc[r] \in SavingSteps /\ mem'[r] = mem[r]
          BY <1>0, <1>1, <3>2 DEF TransferTypeInv, TransferHeld
        <4> QED
          BY <1>0, <1>3, <4>1 DEF OutcomeInv
      <3> QED
        BY <3>1, <3>2
    <2> QED
      BY <1>0, <1>3, <2>1, <2>2 DEF OutcomeInv
  <1>8. BlurInv'
    BY <1>0, <1>1 DEF BlurInv, TransferNotes
  <1>9. LedgerInv'
    <2> SUFFICES ASSUME NEW g \in Sent \cup {h}, g \notin blurred'
                 PROVE  /\ (\E r \in Requests : SavedBy(r, g)') => RowsOf(g) = {}
                        /\ \/ \E r \in Requests : SavedBy(r, g)'
                           \/ RowsOf(g) = {recordOf'[g]} /\ transfers[recordOf'[g]].status = "success"
      BY <1>3, <1>4 DEF LedgerInv
    <2>1. CASE g = h
      <3>1. SavedBy(q, h)'
        BY <1>1 DEF SavedBy, SavingSteps
      <3> QED
        BY <1>5, <2>1, <3>1
    <2>2. CASE g # h
      <3>1. \A r \in Requests : SavedBy(r, g)' <=> SavedBy(r, g)
        BY <1>1, <2>2 DEF SavedBy, SavingSteps
      <3>2. g \in Sent \ blurred
        BY <2>2 DEF TransferNotes
      <3> QED
        BY <1>0, <1>3, <3>1, <3>2 DEF LedgerInv
    <2> QED
      BY <2>1, <2>2
  <1> QED
    BY <1>6, <1>7, <1>8, <1>9 DEF TransferInv

------------------------------------------------------------------------------
\* A request answers: what it was saving is blurred if it was interrupted.
LEMMA QuietAnswer ==
    ASSUME TransferInv, UNCHANGED <<transfers, ledger, recordOf>>, TransferNotes, NEW q \in Requests, Answer(q),
           pc[q] \in SavingSteps => {mem[q].sent} \ {None} \subseteq blurred'
    PROVE  TransferInv'
  <1>1. Put(q, "idle", NoMemory)
    BY AnswerPuts DEF TransferInv, TransferTypeInv
  <1>2. TransferHeld("idle", NoMemory)
    BY DEF TransferHeld, PaySteps, SavingSteps, SyncSteps
  <1>3. \A h \in Sent : SavedBy(q, h) => h \in blurred'
    BY TransferAssumption DEF SavedBy, Sent
  <1> QED
    BY <1>1, <1>2, <1>3, QuietTransfer DEF PaySteps, SavingSteps

\* A request goes on, or begins, with no outcome in hand.
LEMMA QuietGoto ==
    ASSUME TransferInv, UNCHANGED <<transfers, ledger, recordOf>>, TransferNotes, NEW q \in Requests,
           NEW step, NEW m, (\E c : Receive(q, c, step, m)) \/ Goto(q, step, m), TransferHeld(step, m),
           pc[q] \notin SavingSteps, step \in SavingSteps => m.sent = None,
           step \in PaySteps => pc[q] \in PaySteps /\ m.row = mem[q].row,
           step = "insertTransfer" => m.hash \in blurred'
    PROVE  TransferInv'
  <1>1. Put(q, step, m)
    BY GotoPuts, ReceivePuts DEF TransferInv, TransferTypeInv
  <1> QED
    BY <1>1, QuietTransfer DEF SavedBy

LEMMA PurseSteps ==
    ASSUME TransferInv, UNCHANGED <<transfers, ledger, recordOf>>, TransferNotes, NEW q \in Requests,
           \/ GetWallet(q) \/ FindPurse(q) \/ CreateWallet(q) \/ PostActivate(q) \/ PostVerify(q) \/ PutSettings(q)
           \/ SavePurse(q) \/ PostPayment(q) \/ PostSync(q) \/ FindSender(q)
    PROVE  TransferInv'
  <1> USE DEF SavingSteps, SyncSteps, PaySteps, At, TransferHeld
  <1>1. CASE \/ GetWallet(q) \/ PostActivate(q) \/ PostVerify(q) \/ PutSettings(q) \/ PostSync(q)
    <2>1. PICK step, m : Receive(q, "transfers", step, m) /\ step \in {"findPurse", "savePurse", "fetchLedger"}
      BY <1>1 DEF GetWallet, PostActivate, PostVerify, PutSettings, PostSync
    <2> QED
      BY <2>1, QuietGoto DEF Receive
  <1>2. CASE PostPayment(q)
    <2>1. PICK u \in Holders : Receive(q, "transfers", "findSender", [user |-> u])
      BY <1>2 DEF PostPayment, Opened
    <2> PICK m : m = [user |-> u]
      OBVIOUS
    <2>2. m.user \in Holders /\ Receive(q, "transfers", "findSender", m) /\ pc[q] = "idle"
      BY <2>1 DEF Receive
    <2> QED
      BY <2>2, QuietGoto
  <1>3. CASE FindPurse(q) \/ CreateWallet(q) \/ SavePurse(q)
    BY <1>3, QuietGoto, QuietAnswer DEF FindPurse, CreateWallet, SavePurse
  <1>4. CASE FindSender(q)
    <2>1. mem[q].user \in Holders
      BY <1>4 DEF FindSender, TransferInv, TransferTypeInv
    <2> QED
      BY <1>4, <2>1, QuietGoto, QuietAnswer DEF FindSender
  <1> QED
    BY <1>1, <1>2, <1>3, <1>4

LEMMA PaymentSteps ==
    ASSUME TransferInv, TransferNotes, NEW q \in Requests,
           \/ (LoadAccount(q) \/ SaveSuccessFails(q)) /\ UNCHANGED <<transfers, ledger, recordOf>>
           \/ (SavePending(q) \/ SaveSuccess(q) \/ SaveFailed(q)) /\ UNCHANGED <<ledger, recordOf>>
           \/ SubmitPayment(q) /\ UNCHANGED transfers
    PROVE  TransferInv'
  <1> USE DEF At
  <1>0. /\ pc[q] \in {"savePending", "loadAccount", "submitPayment"} => mem[q].user \in Holders
        /\ TransferTypeInv /\ PerRequest
    BY DEF TransferInv, TransferTypeInv, TransferHeld, PaySteps, SavingSteps
  <1>1. ASSUME Fails(q, None), pc[q] \in {"loadAccount", "submitPayment"}, UNCHANGED <<transfers, ledger, recordOf>>
        PROVE  TransferInv'
    BY <1>0, <1>1, QuietGoto DEF Fails, TransferHeld, PaySteps, SavingSteps, SyncSteps
  <1>2. CASE LoadAccount(q) /\ UNCHANGED <<transfers, ledger, recordOf>>
    BY <1>0, <1>1, <1>2, QuietGoto DEF LoadAccount, TransferHeld, PaySteps, SavingSteps, SyncSteps
  <1>3. CASE SaveSuccessFails(q) /\ UNCHANGED <<transfers, ledger, recordOf>>
    <2>1. Put(q, "saveFailed", mem[q]) /\ pc[q] = "saveSuccess"
      BY <1>0, <1>3, GotoPuts DEF SaveSuccessFails
    <2>2. TransferHeld("saveFailed", mem[q])
      BY <1>0, <2>1 DEF TransferTypeInv, TransferHeld, PaySteps, SavingSteps, SyncSteps
    <2> QED
      BY <1>3, <2>1, <2>2, QuietTransfer DEF SavedBy, PaySteps, SavingSteps
  <1>4. CASE SavePending(q) /\ UNCHANGED <<ledger, recordOf>>
    <2> PICK m : m = [user |-> mem[q].user, row |-> Len(transfers) + 1]
      OBVIOUS
    <2>1. Put(q, "loadAccount", m) /\ pc[q] = "savePending"
      BY <1>0, <1>4, GotoPuts DEF SavePending
    <2>2. TransferHeld("loadAccount", m) /\ Pending \in TransferRow
      BY <1>0, <2>1 DEF TransferHeld, PaySteps, SavingSteps, SyncSteps, Pending, TransferRow
    <2>3. transfers' = Append(transfers, Pending) /\ Pending.hash = None /\ Pending.status = "pending"
      BY <1>4 DEF SavePending, Pending
    <2> QED
      BY <1>4, <2>1, <2>2, <2>3, AddRow DEF SavingSteps
  <1>5. CASE SaveSuccess(q) /\ UNCHANGED <<ledger, recordOf>>
    BY <1>5, SetOutcome DEF SaveSuccess
  <1>6. CASE SaveFailed(q) /\ UNCHANGED <<ledger, recordOf>>
    BY <1>6, SetOutcome DEF SaveFailed
  <1>7. CASE SubmitPayment(q) /\ UNCHANGED transfers
    <2>1. CASE Fails(q, None) /\ UNCHANGED <<ledger, recordOf>>
      BY <1>1, <1>7, <2>1 DEF SubmitPayment
    <2>2. ASSUME NEW h \in Hashes \ Sent, ledger' = [ledger EXCEPT ![h] = mem[q].user],
                 recordOf' = [recordOf EXCEPT ![h] = mem[q].row],
                 \/ Goto(q, "saveSuccess", [user |-> mem[q].user, row |-> mem[q].row, hash |-> h, sent |-> h])
                 \/ Fails(q, h)
          PROVE  TransferInv'
      <3> PICK m : m \in {[user |-> mem[q].user, row |-> mem[q].row, hash |-> h, sent |-> h],
                          [user |-> mem[q].user, row |-> mem[q].row, hash |-> None, sent |-> h]}
                   /\ \/ m.hash = h /\ Put(q, "saveSuccess", m)
                      \/ m.hash = None /\ Put(q, "saveFailed", m)
        BY <1>0, <2>2, GotoPuts DEF Fails
      <3>1. m.user = mem[q].user /\ m.row = mem[q].row /\ m.sent = h
        OBVIOUS
      <3>2. pc[q] = "submitPayment"
        BY <1>7 DEF SubmitPayment
      <3> QED
        BY <1>7, <2>2, <3>1, <3>2, ExecutePayment
    <2> QED
      BY <1>7, <2>1, <2>2 DEF SubmitPayment
  <1> QED
    BY <1>2, <1>3, <1>4, <1>5, <1>6, <1>7

------------------------------------------------------------------------------
\* A synchronisation adds a transaction no row has: one that is in other hands too, or was lost.
LEMMA SynchronisationSteps ==
    ASSUME TransferInv, TransferNotes, NEW q \in Requests,
           \/ (FetchLedger(q) \/ FindTransfer(q)) /\ UNCHANGED <<transfers, ledger, recordOf>>
           \/ InsertTransfer(q) /\ UNCHANGED <<ledger, recordOf>>
    PROVE  TransferInv'
  <1>0. TransferTypeInv /\ OutcomeInv /\ BlurInv /\ LedgerInv /\ PerRequest
    BY DEF TransferInv, TransferTypeInv
  <1>1. ASSUME NEW left, left \subseteq Sent, pc[q] \notin SavingSteps, Continue(q, left),
               UNCHANGED <<transfers, ledger, recordOf>>
        PROVE  TransferInv'
    <2> PICK m : m = [user |-> mem[q].user, left |-> left]
      OBVIOUS
    <2>1. TransferHeld("findTransfer", m)
      BY <1>1 DEF TransferHeld, PaySteps, SavingSteps, SyncSteps
    <2>2. CASE Goto(q, "findTransfer", m)
      BY <1>1, <2>1, <2>2, QuietGoto DEF PaySteps, SavingSteps
    <2> QED
      BY <1>1, <2>2, QuietAnswer DEF Continue
  <1>2. CASE FetchLedger(q) /\ UNCHANGED <<transfers, ledger, recordOf>>
    BY <1>1, <1>2 DEF FetchLedger, At, SavingSteps
  <1>3. CASE FindTransfer(q) /\ UNCHANGED <<transfers, ledger, recordOf>>
    <2>0. pc[q] = "findTransfer" /\ mem[q].left \subseteq Sent /\ pc[q] \notin SavingSteps
      BY <1>0, <1>3 DEF FindTransfer, At, TransferTypeInv, TransferHeld, SyncSteps, SavingSteps
    <2>1. PICK h \in mem[q].left :
             \/ Continue(q, mem[q].left \ {h})
             \/ /\ RowsOf(h) = {}
                /\ Goto(q, "insertTransfer", [user |-> mem[q].user, left |-> mem[q].left, hash |-> h])
      BY <1>3 DEF FindTransfer
    <2>2. CASE Continue(q, mem[q].left \ {h})
      BY <1>1, <1>3, <2>0, <2>2
    <2>3. CASE /\ RowsOf(h) = {}
               /\ Goto(q, "insertTransfer", [user |-> mem[q].user, left |-> mem[q].left, hash |-> h])
      <3> PICK m : m = [user |-> mem[q].user, left |-> mem[q].left, hash |-> h]
        OBVIOUS
      <3>1. TransferHeld("insertTransfer", m)
        BY <2>0 DEF TransferHeld, PaySteps, SavingSteps, SyncSteps
      <3>2. h \in blurred
        <4> SUFFICES ASSUME h \notin blurred PROVE FALSE
          OBVIOUS
        <4>1. PICK r \in Requests : SavedBy(r, h)
          BY <1>0, <2>0, <2>3 DEF LedgerInv
        <4>2. h \in Recorded(r) /\ h \in Recorded(q) /\ r # q
          BY <2>0, <4>1, TransferAssumption DEF SavedBy, Recorded, SavingSteps, SyncSteps, Sent
        <4> QED
          BY <1>0, <4>2 DEF BlurInv
      <3>3. m.hash \in blurred'
        BY <3>2 DEF TransferNotes
      <3> QED
        BY <1>3, <2>0, <2>3, <3>1, <3>3, QuietGoto DEF PaySteps, SavingSteps
    <2> QED
      BY <2>1, <2>2, <2>3
  <1>4. CASE InsertTransfer(q) /\ UNCHANGED <<ledger, recordOf>>
    <2> PICK h, row, left : h = mem[q].hash /\ row = [status |-> "success", hash |-> h] /\ left = mem[q].left \ {h}
      OBVIOUS
    <2>0. /\ pc[q] = "insertTransfer" /\ left \subseteq Sent /\ pc[q] \notin SavingSteps
          /\ h \in Sent \cap blurred /\ row \in TransferRow /\ h # None
      BY <1>0, <1>4, TransferAssumption
         DEF InsertTransfer, At, TransferTypeInv, TransferHeld, SyncSteps, SavingSteps, BlurInv, TransferRow, Sent
    <2>1. transfers' = Append(transfers, row) /\ row.hash = h /\ Continue(q, left)
      BY <1>4 DEF InsertTransfer
    <2>2. CASE Answer(q)
      <3>1. Put(q, "idle", NoMemory) /\ TransferHeld("idle", NoMemory)
        BY <1>0, <2>2, AnswerPuts DEF TransferHeld, PaySteps, SavingSteps, SyncSteps
      <3> QED
        BY <1>4, <2>0, <2>1, <3>1, AddRow DEF PaySteps, SavingSteps
    <2>3. CASE Goto(q, "findTransfer", [user |-> mem[q].user, left |-> left])
      <3> PICK m : m = [user |-> mem[q].user, left |-> left]
        OBVIOUS
      <3>1. Put(q, "findTransfer", m)
        BY <1>0, <2>3, GotoPuts
      <3>2. TransferHeld("findTransfer", m)
        BY <2>0 DEF TransferHeld, PaySteps, SavingSteps, SyncSteps
      <3> QED
        BY <1>4, <2>0, <2>1, <3>1, <3>2, AddRow DEF PaySteps, SavingSteps
    <2> QED
      BY <2>1, <2>2, <2>3 DEF Continue
  <1> QED
    BY <1>2, <1>3, <1>4

LEMMA TransferStepInv == TransferInv /\ TransferAct => TransferInv'
  <1> SUFFICES ASSUME TransferInv, TransferAct PROVE TransferInv'
    OBVIOUS
  <1>1. CASE TransferNext
    <2>1. PICK q \in Requests : TransferReads(q) \/ TransferWrites(q)
      BY <1>1 DEF TransferNext
    <2>2. TransferNotes
      BY <1>1, HistoryNotesTransfers DEF TransferNext
    <2>3. CASE TransferReads(q)
      <3>1. UNCHANGED <<transfers, ledger, recordOf>>
        BY <2>3 DEF TransferReads, transferTables
      <3> QED
        BY <2>2, <2>3, <3>1, PurseSteps, PaymentSteps, SynchronisationSteps DEF TransferReads
    <2>4. CASE TransferWrites(q)
      BY <2>2, <2>4, PurseSteps, PaymentSteps, SynchronisationSteps DEF TransferWrites
    <2> QED
      BY <2>1, <2>3, <2>4
  <1>2. ASSUME NEW q \in Requests, TransferInterrupted(q) PROVE TransferInv'
    <2>1. /\ Answer(q) /\ UNCHANGED <<transfers, ledger, recordOf>> /\ blurred \subseteq blurred'
          /\ pc[q] \in SavingSteps => {mem[q].sent} \ {None} \subseteq blurred'
      BY <1>2 DEF TransferInterrupted, Interrupted, transferTables
    <2>2. pc'[q] = "idle" /\ \A r \in Requests \ {q} : pc'[r] = pc[r] /\ mem'[r] = mem[r]
      BY <2>1, AnswerPuts DEF TransferInv, TransferTypeInv, Put
    <2>3. TransferNotes
      <3>1. Recorded(q)' = {} /\ \A r \in Requests \ {q} : Recorded(r)' = Recorded(r)
        BY <2>2 DEF Recorded, SyncSteps, SavingSteps
      <3> QED
        BY <2>1, <2>2, <3>1 DEF TransferNotes, TransferInv, BlurInv
    <2> QED
      BY <2>1, <2>3, QuietAnswer
  <1> QED
    BY <1>1, <1>2 DEF TransferAct

LEMMA TransferFrame ==
    ASSUME TransferInv, PerRequest', UNCHANGED transferVars, Apart(TransferSteps)
    PROVE  TransferInv'
  <1>0. /\ UNCHANGED <<transfers, ledger, recordOf, blurred>> /\ Sent' = Sent
        /\ \A h : RowsOf(h)' = RowsOf(h)
        /\ TransferTypeInv /\ OutcomeInv /\ BlurInv /\ LedgerInv
    BY DEF transferVars, Sent, RowsOf, TransferInv
  <1>1. \A q \in Requests : pc'[q] \in TransferSteps \/ pc[q] \in TransferSteps => pc'[q] = pc[q] /\ mem'[q] = mem[q]
    BY DEF Apart
  <1>2. PaySteps \cup SavingSteps \cup SyncSteps \cup {"findSender", "savePending"} \subseteq TransferSteps
    BY DEF TransferSteps, PaySteps, SavingSteps, SyncSteps
  <1>3. TransferTypeInv'
    <2>1. \A s, k : TransferHeld(s, k)' <=> TransferHeld(s, k)
      BY <1>0 DEF TransferHeld
    <2>2. ASSUME NEW q \in Requests PROVE TransferHeld(pc'[q], mem'[q])
      <3>1. CASE pc'[q] \in TransferSteps
        BY <1>0, <1>1, <3>1 DEF TransferTypeInv
      <3>2. CASE pc'[q] \notin TransferSteps
        BY <3>2 DEF TransferHeld, TransferSteps, PaySteps, SavingSteps, SyncSteps
      <3> QED
        BY <3>1, <3>2
    <2> QED
      BY <1>0, <2>1, <2>2 DEF TransferTypeInv
  <1>4. OutcomeInv'
    BY <1>0, <1>1, <1>2 DEF OutcomeInv
  <1>5. \A q \in Requests : Recorded(q)' = Recorded(q) /\ \A h : SavedBy(q, h)' <=> SavedBy(q, h)
    BY <1>1, <1>2 DEF Recorded, SavedBy
  <1>6. BlurInv'
    <2>1. \A q \in Requests : pc'[q] \in {"saveFailed", "insertTransfer"} => pc'[q] = pc[q] /\ mem'[q] = mem[q]
      BY <1>1, <1>2 DEF SavingSteps, SyncSteps
    <2> QED
      BY <1>0, <1>5, <2>1 DEF BlurInv
  <1>7. LedgerInv'
    BY <1>0, <1>5 DEF LedgerInv
  <1> QED
    BY <1>3, <1>4, <1>6, <1>7 DEF TransferInv

LEMMA TransferNextInv == Base /\ TransferInv /\ [Next]_vars => TransferInv'
  <1> SUFFICES ASSUME Base, TransferInv, [Next]_vars PROVE TransferInv'
    OBVIOUS
  <1>1. CASE TransferStep
    BY <1>1, TransferStepInv DEF TransferStep, TransferAct
  <1>2. CASE ~TransferStep
    BY <1>2, TransferApart, TransferFrame
  <1> QED
    BY <1>1, <1>2

LEMMA TransferInvariant == Spec => []TransferInv
  BY BaseInit, BaseStep, TransferInitInv, TransferNextInv, PTL DEF Spec

\* The rows of the payments and the network agree on every transaction, however payments,
\* synchronisations and failures mix, but for those of which an answer or a save was lost or
\* which two requests recorded at once (WalletService.ts lines 231 to 282 and 370 to 412).
THEOREM RowsTellTheLedger == Spec => []RowsMatchLedger
  <1>1. TransferInv => RowsMatchLedger
    <2> SUFFICES ASSUME TransferInv PROVE RowsMatchLedger
      OBVIOUS
    <2>1. \A h \in Sent \ blurred : RowsOf(h) = {recordOf[h]} => recordOf[h] \in DOMAIN transfers
      BY DEF RowsOf
    <2> QED
      BY <2>1 DEF TransferInv, OutcomeInv, LedgerInv, SavedBy, RowsMatchLedger
  <1> QED
    BY <1>1, TransferInvariant, PTL
===============================================================================
