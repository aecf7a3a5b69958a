--------------------------- MODULE BackOfficeProofs ---------------------------
(***************************************************************************)
(* Theorems about BackOffice, for any number of requests and of calls,     *)
(* any tables and bounds, and all failures.  A step is one of a component  *)
(* and within the steps of that component (StepWithin), so that only its   *)
(* own actions disturb the invariant of a component.                       *)
(***************************************************************************)
EXTENDS BackOffice, HandlersProofs, FiniteSetTheorems, WellFoundedInduction

LEMMA ReferralWithin ==
    PerRequest /\ (ReferralNext \/ \E q \in Requests : ReferralInterrupted(q)) => Within(ReferralSteps)
  <1> SUFFICES ASSUME PerRequest, NEW q \in Requests, ReferralReads(q) \/ ReferralWrites(q) \/ ReferralInterrupted(q)
               PROVE  Within(ReferralSteps)
    BY DEF ReferralNext
  <1>1. CASE ReferralReads(q)
    BY <1>1, ReceiveWithin, GotoWithin, AnswerWithin
       DEF ReferralReads, PostReferral, GenerateReferralCode, PostSignup, FindReferral, FindReferee,
           FindActiveProgram, PutRewardPayment, FindReward, PostProgram, PutProgram,
           GetProgramToActivate, DeactivateProgram, At, ReferralSteps, SignupSteps, ProgramSteps
  <1>2. CASE ReferralWrites(q)
    BY <1>2, ReceiveWithin, GotoWithin, AnswerWithin
       DEF ReferralWrites, CreateReferral, SaveReferral, SaveRewards, SaveReward, SaveProgram, CreateProgram,
           DeactivateOthers, UpdateProgram, ActivateProgram, SaveActiveProgram, SaveInactiveProgram,
           At, ReferralSteps, SignupSteps, ProgramSteps
  <1>3. CASE ReferralInterrupted(q)
    BY <1>3, InterruptedWithin DEF ReferralInterrupted
  <1> QED
    BY <1>1, <1>2, <1>3

LEMMA NoticeWithin ==
    PerRequest /\ (NoticeNext \/ \E q \in Requests : NoticeInterrupted(q)) => Within(NoticeSteps)
  <1> SUFFICES ASSUME PerRequest, NEW q \in Requests,
                      \/ NotificationEvent(q) \/ CreateNotification(q)
                      \/ MarkAsRead(q) \/ SaveRead(q) \/ MarkAllAsRead(q)
                      \/ DeleteNotification(q) \/ DeleteExpiredNotifications(q)
                      \/ NoticeInterrupted(q)
               PROVE  Within(NoticeSteps)
    BY DEF NoticeNext
  <1> QED
    BY ReceiveWithin, AnswerWithin, ServeWithin, InterruptedWithin
       DEF NotificationEvent, CreateNotification, MarkAsRead, SaveRead, MarkAllAsRead, DeleteNotification,
           DeleteExpiredNotifications, NoticeInterrupted, At, NoticeSteps

LEMMA FlagWithin ==
    PerRequest /\ (FlagNext \/ \E q \in Requests : FlagInterrupted(q)) => Within(FlagSteps)
  <1> SUFFICES ASSUME PerRequest, NEW q \in Requests,
                      \/ FeatureFlagGate(q) \/ SetFeatureFlag(q) \/ SaveFlag(q) \/ CreateAuditLog(q)
                      \/ FlagInterrupted(q)
               PROVE  Within(FlagSteps)
    BY DEF FlagNext
  <1> QED
    BY ReceiveWithin, GotoWithin, AnswerWithin, ServeWithin, InterruptedWithin
       DEF FeatureFlagGate, SetFeatureFlag, SaveFlag, CreateAuditLog, FlagInterrupted, At, FlagSteps

LEMMA ReportWithin ==
    PerRequest /\ ReportNext => Within(ReportSteps)
  <1> SUFFICES ASSUME PerRequest, NEW q \in Requests,
                      \/ GetSalesSummary(q) \/ QueryFigure(q) \/ QueryFails(q)
                      \/ UpdatePaymentStatus(q) \/ LinkIsDeleted(q)
               PROVE  Within(ReportSteps)
    BY DEF ReportNext
  <1> QED
    BY ReceiveWithin, GotoWithin, AnswerWithin, ServeWithin
       DEF GetSalesSummary, QueryFigure, QueryFails, UpdatePaymentStatus, LinkIsDeleted, At, ReportSteps

\* The step a request goes on to once it has the settings.
ThenHeld(step, m) ==
    step \in {"readSettings", "insertSettings"} => m.then \in {"applyRules", "saveSettings"}
FraudThen == \A q \in Requests : ThenHeld(pc[q], mem[q])

LEMMA FraudWithin ==
    PerRequest /\ FraudThen /\ (FraudNext \/ \E q \in Requests : FraudInterrupted(q)) => Within(FraudSteps)
  <1> SUFFICES ASSUME PerRequest, FraudThen, NEW q \in Requests,
                      \/ PostCheck(q) \/ ReadSettings(q) \/ InsertSettings(q) \/ ApplyRules(q)
                      \/ CreateFraudAlert(q) \/ CheckRateLimitingPatterns(q) \/ RateAgain(q) \/ BanPayer(q)
                      \/ BanAddress(q) \/ PutSettings(q) \/ UpdateMerchantConfig(q) \/ PatchReview(q)
                      \/ ReviewFraudAlert(q) \/ GetFraudStats(q) \/ FraudInterrupted(q)
               PROVE  Within(FraudSteps)
    BY DEF FraudNext
  <1> QED
    BY ReceiveWithin, GotoWithin, AnswerWithin, ServeWithin, InterruptedWithin
       DEF PostCheck, ReadSettings, InsertSettings, ApplyRules, CreateFraudAlert,
           CheckRateLimitingPatterns, RateAgain, BanPayer, BanAddress, PutSettings,
           UpdateMerchantConfig, PatchReview, ReviewFraudAlert, GetFraudStats, FraudInterrupted,
           FraudThen, ThenHeld, At, FraudSteps, CheckSteps

LEMMA LimitWithin ==
    PerRequest /\ (LimitNext \/ \E q \in Requests : LimitInterrupted(q)) => Within(LimitSteps)
  <1> SUFFICES ASSUME PerRequest, NEW q \in Requests, LimitCalls(q) \/ LimitAwaits(q) \/ LimitInterrupted(q)
               PROVE  Within(LimitSteps)
    BY DEF LimitNext
  <1>1. CASE LimitCalls(q)
    BY <1>1, ReceiveWithin
       DEF LimitCalls, GetConfigForUser, GetEffectiveLimits, InitializeDefaultConfigs, PutConfig,
           BulkUpdateConfigs, DeleteConfig, AdjustLimits, LimitSteps, FillSteps, SaveSteps
  <1>2. CASE FindRole(q) \/ FindMerchantType(q) \/ InsertDefault(q) \/ CreateConfig(q)
    BY <1>2, GotoWithin, AnswerWithin, ServeWithin
       DEF FindRole, FindMerchantType, InsertDefault, CreateConfig, NextRole,
           At, LimitSteps, FillSteps, SaveSteps
  <1>3. CASE FindConfig(q) \/ SaveConfig(q) \/ UpdateFails(q)
    BY <1>3, GotoWithin, AnswerWithin
       DEF FindConfig, SaveConfig, UpdateFails, NextUpdate, At, LimitSteps, FillSteps, SaveSteps
  <1>4. CASE FindAnyConfig(q) \/ ReadConfigAgain(q) \/ SaveAdjusted(q)
    BY <1>4, GotoWithin, AnswerWithin
       DEF FindAnyConfig, ReadConfigAgain, SaveAdjusted, NextEndpoint, At, LimitSteps, FillSteps, SaveSteps
  <1>5. CASE LimitInterrupted(q)
    BY <1>5, InterruptedWithin DEF LimitInterrupted
  <1> QED
    BY <1>1, <1>2, <1>3, <1>4, <1>5 DEF LimitAwaits

LEMMA SettingWithin ==
    PerRequest /\ (SettingNext \/ \E q \in Requests : SettingInterrupted(q)) => Within(SettingSteps)
  <1> SUFFICES ASSUME PerRequest, NEW q \in Requests, SettingCall(q) \/ EntryFails(q) \/ SettingInterrupted(q)
               PROVE  Within(SettingSteps)
    BY DEF SettingNext
  <1>0. ASSUME pc[q] \in SettingSteps, Proceed(q) PROVE Within(SettingSteps)
    BY <1>0, GotoWithin, AnswerWithin DEF Proceed, SettingSteps, SavingSteps
  <1>1. CASE PutSetting(q) \/ ReadSetting(q) \/ PostImport(q) \/ RunScript(q) \/ DeleteSetting(q)
    BY <1>1, ReceiveWithin
       DEF PutSetting, ReadSetting, PostImport, RunScript, DeleteSetting, SettingSteps, SavingSteps
  <1>2. CASE CheckStart(q) \/ GetSetting(q) \/ FillSetting(q) \/ FindSetting(q)
    BY <1>0, <1>2, GotoWithin, AnswerWithin
       DEF CheckStart, GetSetting, FillSetting, FindSetting, Existing, At, SettingSteps, SavingSteps
  <1>3. CASE SaveSetting(q) \/ LogSetting(q) \/ RefuseSetting(q)
    BY <1>0, <1>3, GotoWithin, AnswerWithin
       DEF SaveSetting, LogSetting, RefuseSetting, Throws, At, SettingSteps, SavingSteps
  <1>4. CASE FindToRemoveSetting(q) \/ RemoveSetting(q) \/ LogRemovalOfSetting(q) \/ ExportSettings(q)
    BY <1>4, GotoWithin, AnswerWithin, ServeWithin
       DEF FindToRemoveSetting, RemoveSetting, LogRemovalOfSetting, ExportSettings, At, SettingSteps,
           SavingSteps
  <1>5. CASE EntryFails(q)
    BY <1>0, <1>5 DEF EntryFails, SettingSteps, SavingSteps
  <1>6. CASE SettingInterrupted(q)
    BY <1>6, InterruptedWithin DEF SettingInterrupted
  <1> QED
    BY <1>1, <1>2, <1>3, <1>4, <1>5, <1>6 DEF SettingCall

LEMMA MonitorWithin ==
    ASSUME PerRequest, MonitorStep
    PROVE  Within(MonitorSteps)
  <1>1. ASSUME Restart PROVE Within(MonitorSteps)
    BY <1>1 DEF MonitorStep, Restart, PerRequest, Within
  <1>2. ASSUME NEW q \in Requests,
               \/ ObserveRequest(q) \/ MaybeAlert(q)
               \/ GetSummary(q) \/ CollectSystemResources(q) \/ CompareCpu(q) \/ CompareMemory(q)
        PROVE  Within(MonitorSteps)
    BY <1>2, ReceiveWithin, GotoWithin, AnswerWithin
       DEF ObserveRequest, MaybeAlert, GetSummary, CollectSystemResources, CompareCpu, CompareMemory,
           At, MonitorSteps, ProbeSteps
  <1>3. ASSUME NEW q \in Requests,
               \/ CheckDatabase(q) \/ CompareDatabase(q) \/ CheckRedis(q) \/ CheckStellar(q)
        PROVE  Within(MonitorSteps)
    BY <1>3, GotoWithin, AnswerWithin
       DEF CheckDatabase, CompareDatabase, CheckRedis, CheckStellar, Fails, Finds,
           At, MonitorSteps, ProbeSteps
  <1>4. ASSUME Pass PROVE Within(MonitorSteps)
    BY <1>4, StayWithin DEF Pass
  <1> QED
    BY <1>1, <1>2, <1>3, <1>4 DEF MonitorStep, MonitorNext, MonitorInterrupted, ThresholdUnreadable

LEMMA UsageWithin ==
    PerRequest /\ (UsageNext \/ \E q \in Requests : UsageInterrupted(q)) => Within(UsageSteps)
  <1>1. ASSUME PerRequest, NEW q \in Requests,
               \/ LogRefusal(q) \/ SaveHistory(q)
               \/ GetMetrics(q) \/ GetMerchantMetrics(q) \/ CountHistory(q)
               \/ GetTopThrottledIPs(q) \/ TopThrottledFails(q)
               \/ GetRealTimeStatus(q) \/ BurstKeys(q) \/ StatusFails(q) \/ UsageInterrupted(q)
        PROVE  Within(UsageSteps)
    BY <1>1, ReceiveWithin, GotoWithin, AnswerWithin, InterruptedWithin
       DEF LogRefusal, SaveHistory, GetMetrics, GetMerchantMetrics, CountHistory, GetTopThrottledIPs,
           TopThrottledFails, Send, GetRealTimeStatus, BurstKeys, StatusFails, UsageInterrupted, At, UsageSteps
  <1>2. ASSUME PerRequest, ServerRestarts PROVE Within(UsageSteps)
    BY <1>2, StayWithin DEF ServerRestarts
  <1> QED
    BY <1>1, <1>2 DEF UsageNext

------------------------------------------------------------------------------
Base == PerRequest /\ FraudThen

LEMMA BaseInit == Init => Base
  BY InitPerRequest DEF Init, Base, FraudThen, ThenHeld

\* A step of the office is one of a component, within the steps of it.
LEMMA StepWithin ==
    ASSUME Base, [Next]_vars
    PROVE  \/ ReferralStep /\ Within(ReferralSteps)
           \/ NoticeStep /\ Within(NoticeSteps)
           \/ FlagStep /\ Within(FlagSteps)
           \/ ReportStep /\ Within(ReportSteps)
           \/ FraudStep /\ Within(FraudSteps)
           \/ LimitStep /\ Within(LimitSteps)
           \/ SettingStep /\ Within(SettingSteps)
           \/ MonitorStep /\ Within(MonitorSteps)
           \/ UsageStep /\ Within(UsageSteps)
           \/ UNCHANGED vars /\ Within({})
  <1>1. CASE ReferralStep
    BY <1>1, ReferralWithin DEF ReferralStep, Base
  <1>2. CASE NoticeStep
    BY <1>2, NoticeWithin DEF NoticeStep, Base
  <1>3. CASE FlagStep
    BY <1>3, FlagWithin DEF FlagStep, Base
  <1>4. CASE ReportStep
    BY <1>4, ReportWithin DEF ReportStep, Base
  <1>5. CASE FraudStep
    BY <1>5, FraudWithin DEF FraudStep, Base
  <1>6. CASE LimitStep
    BY <1>6, LimitWithin DEF LimitStep, Base
  <1>7. CASE SettingStep
    BY <1>7, SettingWithin DEF SettingStep, Base
  <1>8. CASE MonitorStep
    BY <1>8, MonitorWithin DEF Base
  <1>9. CASE UsageStep
    BY <1>9, UsageWithin DEF UsageStep, Base
  <1>10. CASE UNCHANGED vars
    <2>1. UNCHANGED handlerVars
      BY <1>10 DEF vars
    <2> QED
      BY <1>10, <2>1, StayWithin DEF Base
  <1> QED
    BY <1>1, <1>2, <1>3, <1>4, <1>5, <1>6, <1>7, <1>8, <1>9, <1>10 DEF Next

\* No step belongs to two components.
LEMMA StepsDisjoint ==
    /\ "idle" \notin ReferralSteps \cup NoticeSteps \cup FlagSteps \cup ReportSteps \cup FraudSteps
                        \cup LimitSteps \cup SettingSteps \cup MonitorSteps \cup UsageSteps
    /\ ReferralSteps \cap NoticeSteps = {}
    /\ (ReferralSteps \cup NoticeSteps) \cap FlagSteps = {}
    /\ (ReferralSteps \cup NoticeSteps \cup FlagSteps) \cap ReportSteps = {}
    /\ (ReferralSteps \cup NoticeSteps \cup FlagSteps \cup ReportSteps) \cap FraudSteps = {}
    /\ (ReferralSteps \cup NoticeSteps \cup FlagSteps \cup ReportSteps \cup FraudSteps) \cap LimitSteps = {}
    /\ (ReferralSteps \cup NoticeSteps \cup FlagSteps \cup ReportSteps \cup FraudSteps \cup LimitSteps) \cap SettingSteps = {}
    /\ (ReferralSteps \cup NoticeSteps \cup FlagSteps \cup ReportSteps \cup FraudSteps
          \cup LimitSteps \cup SettingSteps) \cap MonitorSteps = {}
    /\ (ReferralSteps \cup NoticeSteps \cup FlagSteps \cup ReportSteps \cup FraudSteps
          \cup LimitSteps \cup SettingSteps \cup MonitorSteps) \cap UsageSteps = {}
  BY DEF ReferralSteps, SignupSteps, ProgramSteps, NoticeSteps, FlagSteps, ReportSteps, FraudSteps, CheckSteps,
         LimitSteps, FillSteps, SaveSteps, SettingSteps, SavingSteps, MonitorSteps, ProbeSteps, UsageSteps

\* A step of the office is one of a component's own, or leaves its tables and its requests alone.
LEMMA StepApart ==
    ASSUME Base, [Next]_vars
    PROVE  /\ PerRequest'
           /\ ReferralStep \/ (UNCHANGED referralVars /\ Apart(ReferralSteps))
           /\ NoticeStep \/ (UNCHANGED noticeVars /\ Apart(NoticeSteps))
           /\ FlagStep \/ (UNCHANGED flagVars /\ Apart(FlagSteps))
           /\ ReportStep \/ (UNCHANGED reportVars /\ Apart(ReportSteps))
           /\ FraudStep \/ (UNCHANGED fraudVars /\ Apart(FraudSteps))
           /\ LimitStep \/ (UNCHANGED limitVars /\ Apart(LimitSteps))
           /\ SettingStep \/ (UNCHANGED settingVars /\ Apart(SettingSteps))
           /\ MonitorStep \/ (UNCHANGED monitorVars /\ Apart(MonitorSteps))
           /\ UsageStep \/ (UNCHANGED usageVars /\ Apart(UsageSteps))
  <1>1. CASE ReferralStep /\ Within(ReferralSteps)
    <2>1. \A T : ReferralSteps \cap T = {} /\ "idle" \notin T => Apart(T)
      BY <1>1, WithinApart
    <2> QED
      BY <1>1, <2>1, StepsDisjoint, WithinPerRequest DEF ReferralStep
  <1>2. CASE NoticeStep /\ Within(NoticeSteps)
    <2>1. \A T : NoticeSteps \cap T = {} /\ "idle" \notin T => Apart(T)
      BY <1>2, WithinApart
    <2> QED
      BY <1>2, <2>1, StepsDisjoint, WithinPerRequest DEF NoticeStep
  <1>3. CASE FlagStep /\ Within(FlagSteps)
    <2>1. \A T : FlagSteps \cap T = {} /\ "idle" \notin T => Apart(T)
      BY <1>3, WithinApart
    <2> QED
      BY <1>3, <2>1, StepsDisjoint, WithinPerRequest DEF FlagStep
  <1>4. CASE ReportStep /\ Within(ReportSteps)
    <2>1. \A T : ReportSteps \cap T = {} /\ "idle" \notin T => Apart(T)
      BY <1>4, WithinApart
    <2> QED
      BY <1>4, <2>1, StepsDisjoint, WithinPerRequest DEF ReportStep
  <1>5. CASE FraudStep /\ Within(FraudSteps)
    <2>1. \A T : FraudSteps \cap T = {} /\ "idle" \notin T => Apart(T)
      BY <1>5, WithinApart
    <2> QED
      BY <1>5, <2>1, StepsDisjoint, WithinPerRequest DEF FraudStep
  <1>6. CASE LimitStep /\ Within(LimitSteps)
    <2>1. \A T : LimitSteps \cap T = {} /\ "idle" \notin T => Apart(T)
      BY <1>6, WithinApart
    <2> QED
      BY <1>6, <2>1, StepsDisjoint, WithinPerRequest DEF LimitStep
  <1>7. CASE SettingStep /\ Within(SettingSteps)
    <2>1. \A T : SettingSteps \cap T = {} /\ "idle" \notin T => Apart(T)
      BY <1>7, WithinApart
    <2> QED
      BY <1>7, <2>1, StepsDisjoint, WithinPerRequest DEF SettingStep
  <1>8. CASE MonitorStep /\ Within(MonitorSteps)
    <2>1. \A T : MonitorSteps \cap T = {} /\ "idle" \notin T => Apart(T)
      BY <1>8, WithinApart
    <2> QED
      BY <1>8, <2>1, StepsDisjoint, WithinPerRequest DEF MonitorStep
  <1>9. CASE UsageStep /\ Within(UsageSteps)
    <2>1. \A T : UsageSteps \cap T = {} /\ "idle" \notin T => Apart(T)
      BY <1>9, WithinApart
    <2> QED
      BY <1>9, <2>1, StepsDisjoint, WithinPerRequest DEF UsageStep
  <1>10. CASE UNCHANGED vars /\ Within({})
    <2>1. \A T : "idle" \notin T => Apart(T)
      BY <1>10, WithinApart
    <2> QED
      BY <1>10, <2>1, StepsDisjoint, WithinPerRequest DEF vars
  <1> QED
    BY <1>1, <1>2, <1>3, <1>4, <1>5, <1>6, <1>7, <1>8, <1>9, <1>10, StepWithin

LEMMA ReferralApart == Base /\ [Next]_vars => PerRequest' /\ (ReferralStep \/ (UNCHANGED referralVars /\ Apart(ReferralSteps)))
  BY StepApart

LEMMA NoticeApart == Base /\ [Next]_vars => PerRequest' /\ (NoticeStep \/ (UNCHANGED noticeVars /\ Apart(NoticeSteps)))
  BY StepApart

LEMMA FlagApart == Base /\ [Next]_vars => PerRequest' /\ (FlagStep \/ (UNCHANGED flagVars /\ Apart(FlagSteps)))
  BY StepApart

LEMMA ReportApart == Base /\ [Next]_vars => PerRequest' /\ (ReportStep \/ (UNCHANGED reportVars /\ Apart(ReportSteps)))
  BY StepApart

LEMMA FraudApart == Base /\ [Next]_vars => PerRequest' /\ (FraudStep \/ (UNCHANGED fraudVars /\ Apart(FraudSteps)))
  BY StepApart

LEMMA LimitApart == Base /\ [Next]_vars => PerRequest' /\ (LimitStep \/ (UNCHANGED limitVars /\ Apart(LimitSteps)))
  BY StepApart

LEMMA SettingApart == Base /\ [Next]_vars => PerRequest' /\ (SettingStep \/ (UNCHANGED settingVars /\ Apart(SettingSteps)))
  BY StepApart

LEMMA MonitorApart == Base /\ [Next]_vars => PerRequest' /\ (MonitorStep \/ (UNCHANGED monitorVars /\ Apart(MonitorSteps)))
  BY StepApart

LEMMA UsageApart == Base /\ [Next]_vars => PerRequest' /\ (UsageStep \/ (UNCHANGED usageVars /\ Apart(UsageSteps)))
  BY StepApart

------------------------------------------------------------------------------
LEMMA PutThen ==
    ASSUME FraudThen, NEW q \in Requests, NEW step, NEW m, Put(q, step, m), ThenHeld(step, m)
    PROVE  FraudThen'
  BY DEF FraudThen, Put

LEMMA ReceiveThen ==
    ASSUME Base, NEW q \in Requests, NEW c, NEW step, NEW m, Receive(q, c, step, m), ThenHeld(step, m)
    PROVE  Base'
  <1>1. Put(q, step, m)
    BY ReceivePuts DEF Base
  <1> QED
    BY <1>1, PutThen DEF Base, Put

LEMMA GotoThen ==
    ASSUME Base, NEW q \in Requests, NEW step, NEW m, Goto(q, step, m), ThenHeld(step, m)
    PROVE  Base'
  <1>1. Put(q, step, m)
    BY GotoPuts DEF Base
  <1> QED
    BY <1>1, PutThen DEF Base, Put

LEMMA AnswerThen ==
    ASSUME Base, NEW q \in Requests, Answer(q)
    PROVE  Base'
  BY GotoThen DEF Answer, ThenHeld

LEMMA BaseStep == Base /\ [Next]_vars => Base'
  <1> SUFFICES ASSUME Base, [Next]_vars PROVE Base'
    OBVIOUS
  <1>1. CASE FraudStep
    <2> SUFFICES ASSUME NEW q \in Requests,
                        \/ PostCheck(q) \/ ReadSettings(q) \/ InsertSettings(q) \/ ApplyRules(q)
                        \/ CreateFraudAlert(q) \/ CheckRateLimitingPatterns(q) \/ RateAgain(q)
                        \/ BanPayer(q) \/ BanAddress(q) \/ PutSettings(q) \/ UpdateMerchantConfig(q)
                        \/ PatchReview(q) \/ ReviewFraudAlert(q) \/ GetFraudStats(q) \/ FraudInterrupted(q)
                 PROVE  Base'
      BY <1>1 DEF FraudStep, FraudNext
    <2>1. CASE PostCheck(q) \/ PutSettings(q)
      BY <2>1, ReceiveThen DEF PostCheck, PutSettings, ThenHeld
    <2>2. CASE ReadSettings(q) \/ InsertSettings(q)
      BY <2>2, GotoThen, AnswerThen DEF ReadSettings, InsertSettings, At, Base, FraudThen, ThenHeld
    <2>3. CASE ApplyRules(q) \/ CreateFraudAlert(q) \/ CheckRateLimitingPatterns(q) \/ RateAgain(q)
               \/ BanPayer(q) \/ BanAddress(q)
      BY <2>3, GotoThen, AnswerThen
         DEF ApplyRules, CreateFraudAlert, CheckRateLimitingPatterns, RateAgain, BanPayer, BanAddress, ThenHeld
    <2>4. CASE UpdateMerchantConfig(q) \/ ReviewFraudAlert(q) \/ FraudInterrupted(q)
      BY <2>4, AnswerThen DEF UpdateMerchantConfig, ReviewFraudAlert, FraudInterrupted, Interrupted
    <2>5. CASE PatchReview(q)
      BY <2>5, ReceiveThen DEF PatchReview, ThenHeld
    <2>6. CASE GetFraudStats(q)
      <3>1. UNCHANGED <<pc, mem>>
        BY <2>6, ServePuts DEF GetFraudStats, Base
      <3> QED
        BY <3>1 DEF Base, PerRequest, FraudThen, ThenHeld
    <2> QED
      BY <2>1, <2>2, <2>3, <2>4, <2>5, <2>6
  <1>2. CASE ~FraudStep
    <2>1. PerRequest' /\ Apart(FraudSteps)
      BY <1>2, FraudApart
    <2> QED
      BY <2>1 DEF Base, FraudThen, ThenHeld, Apart, FraudSteps, CheckSteps
  <1> QED
    BY <1>1, <1>2

------------------------------------------------------------------------------
\* A row is unread, read or archived, and shows so.
Shows(n, row) ==
    /\ row \in Notice
    /\ row.status = "read" => row.isRead
    /\ row.status = "unread" => ~row.isRead
    /\ row.status = "archived" => <<n, row.recipient>> \in deletedBy
    /\ n \in everRead => row.isRead

NoticeHeld(step, m) ==
    /\ step = "createNotification" => m \in [recipient: Recipients \cup {None}]
    /\ step = "saveRead" => m \in [notice: issued, row: Notice]

NoticeInv ==
    /\ notices \in [NoticeIds -> Notice \cup {None}]
    /\ issued \subseteq NoticeIds
    /\ everRead \subseteq issued
    /\ \A n \in Present : n \in issued /\ Shows(n, notices[n])
    /\ \A q \in Requests : NoticeHeld(pc[q], mem[q])

LEMMA NoticeInitInv == Init => NoticeInv
  BY InitPerRequest DEF Init, NoticeInit, NoticeInv, NoticeHeld, Present

LEMMA ReadShows ==
    ASSUME NEW row \in Notice
    PROVE  /\ Read(row) \in Notice
           /\ Read(row).isRead /\ Read(row).status = "read"
  BY DEF Notice, Read

LEMMA NoticeStepInv ==
    ASSUME Base, NoticeInv, NoticeStep
    PROVE  NoticeInv'
  <1> PICK q \in Requests :
        \/ NotificationEvent(q) \/ CreateNotification(q)
        \/ MarkAsRead(q) \/ SaveRead(q) \/ MarkAllAsRead(q)
        \/ DeleteNotification(q) \/ DeleteExpiredNotifications(q)
        \/ NoticeInterrupted(q)
    BY DEF NoticeStep, NoticeNext
  <1>0. PerRequest
    BY DEF Base
  <1>1. CASE NotificationEvent(q)
    BY <1>0, <1>1, ReceivePuts DEF NotificationEvent, NoticeInv, NoticeHeld, Present, Shows, noticeVars, Put
  <1>2. CASE CreateNotification(q)
    <2>1. PICK n \in NoticeIds \ issued :
            /\ issued' = issued \cup {n}
            /\ notices' = [notices EXCEPT ![n] =
                 [recipient |-> mem[q].recipient, isRead |-> FALSE, status |-> "unread"]]
      BY <1>2 DEF CreateNotification
    <2>2. [recipient |-> mem[q].recipient, isRead |-> FALSE, status |-> "unread"] \in Notice
      BY <1>2 DEF CreateNotification, At, NoticeInv, NoticeHeld, Notice
    <2>3. Put(q, "idle", NoMemory)
      BY <1>0, <1>2, AnswerPuts DEF CreateNotification
    <2>4. UNCHANGED <<everRead, deletedBy>>
      BY <1>2 DEF CreateNotification
    <2> QED
      BY <2>1, <2>2, <2>3, <2>4 DEF NoticeInv, NoticeHeld, Present, Shows, Put
  <1>3. CASE MarkAsRead(q)
    <2>1. PICK n \in Present : Receive(q, "notices", "saveRead", [notice |-> n, row |-> notices[n]])
      BY <1>3 DEF MarkAsRead
    <2>2. Put(q, "saveRead", [notice |-> n, row |-> notices[n]])
      BY <1>0, <2>1, ReceivePuts
    <2>3. NoticeHeld("saveRead", [notice |-> n, row |-> notices[n]])
      BY DEF NoticeInv, NoticeHeld, Shows
    <2>4. UNCHANGED noticeVars
      BY <1>3 DEF MarkAsRead
    <2> QED
      BY <2>2, <2>3, <2>4 DEF NoticeInv, NoticeHeld, Present, Shows, noticeVars, Put
  <1>4. CASE SaveRead(q)
    <2>1. mem[q].notice \in issued /\ mem[q].row \in Notice
      BY <1>4 DEF SaveRead, At, NoticeInv, NoticeHeld
    <2>2. Put(q, "idle", NoMemory)
      BY <1>0, <1>4, AnswerPuts DEF SaveRead
    <2> QED
      BY <1>4, <2>1, <2>2, ReadShows DEF SaveRead, NoticeInv, NoticeHeld, Present, Shows, Put
  <1>5. CASE MarkAllAsRead(q)
    <2>1. UNCHANGED <<pc, mem, issued, deletedBy>>
      BY <1>0, <1>5, ServePuts DEF MarkAllAsRead
    <2>2. PICK r \in Recipients :
            /\ notices' = [n \in NoticeIds |-> IF n \in Unread(r) THEN Read(notices[n]) ELSE notices[n]]
            /\ everRead' = everRead \cup Unread(r)
      BY <1>5 DEF MarkAllAsRead
    <2> QED
      BY <2>1, <2>2, ReadShows DEF NoticeInv, NoticeHeld, Present, Shows, Unread
  <1>6. CASE DeleteNotification(q)
    <2>1. UNCHANGED <<pc, mem, issued, everRead>>
      BY <1>0, <1>6, ServePuts DEF DeleteNotification
    <2>2. PICK n \in Present :
            /\ notices' = [notices EXCEPT ![n].status = "archived"]
            /\ deletedBy' = deletedBy \cup {<<n, notices[n].recipient>>}
      BY <1>6 DEF DeleteNotification
    <2> DEFINE row == [notices[n] EXCEPT !.status = "archived"]
    <2>3. /\ row \in Notice
          /\ row.status = "archived" /\ row.isRead = notices[n].isRead
          /\ row.recipient = notices[n].recipient
      BY DEF NoticeInv, Present, Shows, Notice
    <2>4. notices' = [notices EXCEPT ![n] = row]
      BY <2>2
    <2> HIDE DEF row
    <2> QED
      BY <2>1, <2>2, <2>3, <2>4 DEF NoticeInv, NoticeHeld, Present, Shows
  <1>7. CASE DeleteExpiredNotifications(q)
    <2>1. UNCHANGED <<pc, mem, issued, everRead, deletedBy>>
      BY <1>0, <1>7, ServePuts DEF DeleteExpiredNotifications
    <2> QED
      BY <1>7, <2>1 DEF DeleteExpiredNotifications, NoticeInv, NoticeHeld, Present, Shows
  <1>8. CASE NoticeInterrupted(q)
    BY <1>0, <1>8, InterruptedPuts DEF NoticeInterrupted, NoticeInv, NoticeHeld, Present, Shows, noticeVars, Put
  <1> QED
    BY <1>1, <1>2, <1>3, <1>4, <1>5, <1>6, <1>7, <1>8

LEMMA NoticeNextInv == Base /\ NoticeInv /\ [Next]_vars => NoticeInv'
  <1> SUFFICES ASSUME Base, NoticeInv, [Next]_vars, ~NoticeStep PROVE NoticeInv'
    BY NoticeStepInv
  <1>1. UNCHANGED noticeVars /\ Apart(NoticeSteps)
    BY NoticeApart
  <1> QED
    BY <1>1 DEF NoticeInv, NoticeHeld, Present, Shows, noticeVars, Apart, NoticeSteps

\* The flag the unread count is taken from and the status that is shown agree, and who read a
\* notification or deleted it stays on record, whatever the order in which the rows are saved
\* (inAppNotificationService.ts lines 124 to 177).
THEOREM FlagShowsStatus == Spec => []FlagAgreesWithStatus
  <1>1. NoticeInv => FlagAgreesWithStatus
    BY DEF NoticeInv, FlagAgreesWithStatus, Shows
  <1> QED
    BY <1>1, BaseInit, BaseStep, NoticeInitInv, NoticeNextInv, PTL DEF Spec

------------------------------------------------------------------------------
FlagHeld == [flag: Flags, found: Flag \cup {None}, row: Flag]

FlagTypes ==
    /\ flags \in [Flags -> Flag \cup {None}]
    /\ auditLog \in Seq(Entry)
    /\ writes \in Nat
    /\ \A q \in Requests : pc[q] \in FlagSteps => mem[q] \in FlagHeld

\* A flag with no place in unlogged is changed by one request at most.
FlagAlone ==
    \A q, r \in Requests : pc[q] \in FlagSteps /\ pc[r] \in FlagSteps /\ mem[q].flag = mem[r].flag =>
        q = r \/ mem[q].flag \in unlogged

\* The entries of a flag before the n-th have a last one, and each replays those before it.
Earlier(f, n) == {j \in EntriesOf(f) : j < n}
HasLast(S) == S # {} => \E l \in S : \A o \in S : o <= l
FlagLog == \A f \in Flags \ unlogged :
    /\ \A n \in Nat : HasLast(Earlier(f, n))
    /\ \A i \in EntriesOf(f) : Replays(i, Earlier(f, i))

\* The log tells of the row; of none if it is empty.
Tells(f, row) ==
    IF EntriesOf(f) = {} THEN row = None
    ELSE row # None /\ auditLog[Latest(EntriesOf(f))].new = row.ver

\* It tells of the row a request found, and of the row in force when there is no request.
FlagTold == \A f \in Flags \ unlogged :
    /\ \A q \in Requests : pc[q] = "saveFlag" /\ mem[q].flag = f =>
          mem[q].found = flags[f] /\ Tells(f, flags[f])
    /\ \A q \in Requests : pc[q] = "logFlag" /\ mem[q].flag = f =>
          flags[f] # None /\ flags[f].ver = mem[q].row.ver /\ Tells(f, mem[q].found)
    /\ (\A q \in Requests : pc[q] \in FlagSteps => mem[q].flag # f) => Tells(f, flags[f])

NoneAtZero == \A g \in gated : g.rules.percentage # 0

FlagInv == FlagTypes /\ FlagAlone /\ FlagLog /\ FlagTold /\ NoneAtZero

LEMMA FlagHistoryNotes ==
    ASSUME FlagHistory
    PROVE  /\ unlogged \subseteq unlogged'
           /\ \A q, r \in Requests :
                 q # r /\ pc'[q] \in FlagSteps /\ pc'[r] \in FlagSteps /\ mem'[q].flag = mem'[r].flag =>
                    mem'[q].flag \in unlogged'
  <1>1. unlogged \subseteq unlogged'
    BY DEF FlagHistory
  <1>2. ASSUME NEW q \in Requests, NEW r \in Requests, q # r, pc'[q] \in FlagSteps, pc'[r] \in FlagSteps,
               mem'[q].flag = mem'[r].flag
        PROVE  mem'[q].flag \in unlogged'
    <2>1. mem'[q].flag \in Changing(q) /\ mem'[q].flag \in Changing(r)
      BY <1>2 DEF Changing
    <2>2. mem'[q].flag \in InBoth(Changing)
      BY <1>2, <2>1 DEF InBoth
    <2> QED
      BY <2>2 DEF FlagHistory
  <1> QED
    BY <1>1, <1>2

LEMMA LatestIs ==
    ASSUME NEW S \in SUBSET Nat, NEW l \in S, \A o \in S : o <= l
    PROVE  Latest(S) = l
  <1>1. Latest(S) \in S /\ \A o \in S : o <= Latest(S)
    BY DEF Latest
  <1>2. l \in Nat /\ Latest(S) \in Nat /\ l <= Latest(S) /\ Latest(S) <= l
    BY <1>1
  <1> QED
    BY <1>2

LEMMA LatestIn ==
    ASSUME NEW S \in SUBSET Nat, HasLast(S), S # {}
    PROVE  Latest(S) \in S
  BY LatestIs DEF HasLast

LEMMA EntriesAreEarlier ==
    ASSUME NEW f, FlagTypes
    PROVE  /\ EntriesOf(f) \in SUBSET Nat
           /\ EntriesOf(f) = Earlier(f, Len(auditLog) + 1)
           /\ Len(auditLog) + 1 \in Nat
  <1>1. Len(auditLog) \in Nat /\ DOMAIN auditLog = 1 .. Len(auditLog)
    BY DEF FlagTypes
  <1> QED
    BY <1>1 DEF EntriesOf, Earlier

LEMMA FlagLogStays ==
    ASSUME FlagTypes, FlagLog, unlogged \subseteq unlogged', UNCHANGED auditLog
    PROVE  FlagLog'
  <1>1. \A f, n : Earlier(f, n)' = Earlier(f, n)
    BY DEF Earlier, EntriesOf
  <1>2. \A f : EntriesOf(f)' = EntriesOf(f)
    BY DEF EntriesOf
  <1>3. \A i, S : Replays(i, S)' = Replays(i, S)
    BY DEF Replays
  <1> QED
    BY <1>1, <1>2, <1>3 DEF FlagLog, HasLast

LEMMA FlagInitInv == Init => FlagInv
  BY InitPerRequest DEF Init, FlagInit, FlagInv, FlagTypes, FlagAlone, FlagLog, FlagTold, NoneAtZero, Tells,
                   EntriesOf, Earlier, HasLast, FlagSteps

LEMMA GateStep ==
    ASSUME Base, FlagInv, NEW q \in Requests, FeatureFlagGate(q), FlagHistory
    PROVE  FlagInv'
  <1>1. UNCHANGED <<pc, mem, flags, auditLog, writes>>
    BY ServePuts DEF FeatureFlagGate, Base
  <1>2. unlogged \subseteq unlogged'
    BY FlagHistoryNotes
  <1>3. FlagTypes' /\ FlagAlone'
    BY <1>1, <1>2 DEF FlagInv, FlagTypes, FlagAlone
  <1>4. FlagLog'
    BY <1>1, <1>2, FlagLogStays DEF FlagInv
  <1>5. FlagTold'
    <2>1. \A f, row : Tells(f, row)' = Tells(f, row)
      BY <1>1 DEF Tells, EntriesOf
    <2> QED
      BY <1>1, <1>2, <2>1 DEF FlagInv, FlagTold
  <1>6. NoneAtZero'
    <2>1. PICK f \in Flags, u \in Audience :
             Enabled(f, u) /\ gated' = gated \cup {[user |-> u, rules |-> flags[f].rules]}
      BY DEF FeatureFlagGate
    <2>2. flags[f].rules.percentage # 0
      BY <2>1, FlagAssumption DEF Enabled, TargetingMatches
    <2> QED
      BY <2>1, <2>2 DEF FlagInv, NoneAtZero
  <1> QED
    BY <1>3, <1>4, <1>5, <1>6 DEF FlagInv

LEMMA SetStep ==
    ASSUME Base, FlagInv, NEW q \in Requests, SetFeatureFlag(q), UNCHANGED flagTables, FlagHistory
    PROVE  FlagInv'
  <1>1. PICK f \in Flags, row \in Flag : Receive(q, "flags", "saveFlag", [flag |-> f, found |-> flags[f], row |-> row])
    BY DEF SetFeatureFlag, Flag
  <1> DEFINE m == [flag |-> f, found |-> flags[f], row |-> row]
  <1>2. pc[q] = "idle" /\ Put(q, "saveFlag", m)
    BY <1>1, ReceivePuts DEF Base
  <1>3. m \in FlagHeld /\ m.flag = f /\ m.found = flags[f]
    BY DEF FlagHeld, FlagInv, FlagTypes
  <1> HIDE DEF m
  <1>4. unlogged \subseteq unlogged' /\ UNCHANGED <<flags, auditLog, gated, writes>>
    BY FlagHistoryNotes DEF flagTables
  <1>5. FlagTypes'
    BY <1>2, <1>3, <1>4 DEF Put, FlagInv, FlagTypes, FlagSteps
  <1>6. FlagAlone'
    BY FlagHistoryNotes DEF FlagAlone
  <1>7. FlagLog'
    BY <1>4, FlagLogStays DEF FlagInv
  <1>8. FlagTold'
    <2> SUFFICES ASSUME NEW g \in Flags, g \notin unlogged'
                 PROVE  /\ \A r \in Requests : pc'[r] = "saveFlag" /\ mem'[r].flag = g =>
                              mem'[r].found = flags'[g] /\ Tells(g, flags[g])'
                        /\ \A r \in Requests : pc'[r] = "logFlag" /\ mem'[r].flag = g =>
                              /\ flags'[g] # None /\ flags'[g].ver = mem'[r].row.ver
                              /\ Tells(g, mem[r].found)'
                        /\ (\A r \in Requests : pc'[r] \in FlagSteps => mem'[r].flag # g) => Tells(g, flags[g])'
      BY DEF FlagTold
    <2>1. g \notin unlogged
      BY <1>4
    <2>2. \A x : Tells(g, x)' = Tells(g, x)
      BY <1>4 DEF Tells, EntriesOf
    <2>3. CASE g # f
      BY <1>2, <1>3, <1>4, <2>1, <2>2, <2>3 DEF Put, FlagInv, FlagTold, FlagSteps
    <2>4. CASE g = f
      <3>1. \A r \in Requests : r # q /\ pc[r] \in FlagSteps => mem[r].flag # g
        BY <1>2, <1>3, <2>4, FlagHistoryNotes DEF Put, FlagSteps
      <3>2. Tells(g, flags[g])
        BY <1>2, <2>1, <3>1 DEF FlagInv, FlagTold, FlagSteps
      <3> QED
        BY <1>2, <1>3, <1>4, <2>2, <2>4, <3>1, <3>2 DEF Put, FlagSteps
    <2> QED
      BY <2>3, <2>4
  <1> QED
    BY <1>4, <1>5, <1>6, <1>7, <1>8 DEF FlagInv, NoneAtZero

------------------------------------------------------------------------------
LEMMA SaveFlagStep ==
    ASSUME Base, FlagInv, NEW q \in Requests, SaveFlag(q), FlagHistory
    PROVE  FlagInv'
  <1> DEFINE f == mem[q].flag
  <1>0. /\ pc[q] = "saveFlag" /\ mem[q] \in FlagHeld
        /\ unlogged \subseteq unlogged' /\ UNCHANGED <<auditLog, gated>>
    BY FlagHistoryNotes DEF SaveFlag, At, FlagInv, FlagTypes, FlagSteps
  <1>1. FlagLog' /\ NoneAtZero'
    BY <1>0, FlagLogStays DEF FlagInv, NoneAtZero
  <1>2. FlagAlone'
    BY FlagHistoryNotes DEF FlagAlone
  <1>3. \A g, x : Tells(g, x)' = Tells(g, x)
    BY <1>0 DEF Tells, EntriesOf
  <1>4. \A r \in Requests : r # q /\ pc[r] \in FlagSteps /\ mem[r].flag = f => f \in unlogged
    BY <1>0 DEF FlagInv, FlagAlone, FlagSteps
  <1>5. f \notin unlogged => mem[q].found = flags[f] /\ Tells(f, flags[f])
    BY <1>0 DEF FlagInv, FlagTold, FlagHeld
  <1>6. CASE mem[q].found # None \/ flags[f] = None
    <2> DEFINE row == [mem[q].row EXCEPT !.ver = writes + 1]
               m == [mem[q] EXCEPT !.row.ver = writes + 1]
    <2>1. Put(q, "logFlag", m) /\ writes' = writes + 1 /\ flags' = [flags EXCEPT ![f] = row]
      BY <1>6, GotoPuts DEF SaveFlag, Base
    <2>2. writes + 1 \in Nat
      BY DEF FlagInv, FlagTypes
    <2>3. row \in Flag /\ row.ver = writes + 1
      BY <1>0, <2>2 DEF FlagHeld, Flag
    <2>4. m = [flag |-> f, found |-> mem[q].found, row |-> row]
      BY <1>0 DEF FlagHeld
    <2>5. m \in FlagHeld /\ m.flag = f /\ m.found = mem[q].found /\ m.row = row
      BY <1>0, <2>3, <2>4 DEF FlagHeld
    <2>6. f \in Flags /\ row # None
      BY <1>0, <2>3, FlagAssumption DEF FlagHeld
    <2> HIDE DEF row, m
    <2>7. FlagTypes'
      BY <1>0, <2>1, <2>2, <2>3, <2>5 DEF Put, FlagInv, FlagTypes, FlagSteps
    <2>8. FlagTold'
      BY <1>0, <1>3, <1>4, <1>5, <2>1, <2>3, <2>5, <2>6 DEF Put, FlagInv, FlagTypes, FlagTold, FlagSteps
    <2> QED
      BY <1>1, <1>2, <2>7, <2>8 DEF FlagInv
  <1>7. CASE ~(mem[q].found # None \/ flags[f] = None)
    <2>1. Put(q, "idle", NoMemory) /\ UNCHANGED <<flags, writes>>
      BY <1>7, AnswerPuts DEF SaveFlag, Base
    <2>2. FlagTypes'
      BY <1>0, <2>1 DEF Put, FlagInv, FlagTypes, FlagSteps
    <2>3. FlagTold'
      BY <1>0, <1>3, <1>5, <1>7, <2>1 DEF Put, FlagInv, FlagTold, FlagSteps
    <2> QED
      BY <1>1, <1>2, <2>2, <2>3 DEF FlagInv
  <1> QED
    BY <1>6, <1>7

LEMMA LogStep ==
    ASSUME Base, FlagInv, NEW q \in Requests, CreateAuditLog(q), FlagHistory
    PROVE  FlagInv'
  <1> PICK f : f = mem[q].flag
    OBVIOUS
  <1> PICK n : n = Len(auditLog) + 1
    OBVIOUS
  <1> PICK e : e = EntryOf(f, mem[q].found, mem[q].row)
    OBVIOUS
  <1>0. /\ pc[q] = "logFlag" /\ mem[q] \in FlagHeld /\ f \in Flags /\ auditLog \in Seq(Entry)
        /\ unlogged \subseteq unlogged' /\ UNCHANGED <<flags, gated, writes>>
        /\ auditLog' = Append(auditLog, e)
    BY FlagHistoryNotes DEF CreateAuditLog, At, FlagInv, FlagTypes, FlagSteps, FlagHeld
  <1>1. Put(q, "idle", NoMemory)
    BY AnswerPuts DEF CreateAuditLog, Base
  <1>2. e \in Entry /\ e.flag = f /\ e.new = mem[q].row.ver
    BY <1>0 DEF EntryOf, Entry, FlagHeld, Flag
  <1>3. FlagTypes'
    BY <1>0, <1>1, <1>2 DEF Put, FlagInv, FlagTypes, FlagSteps
  <1>4. FlagAlone'
    BY FlagHistoryNotes DEF FlagAlone
  <1>5. /\ n \in Nat /\ auditLog'[n] = e
        /\ \A g \in Flags : \A i : i \in EntriesOf(g)' <=> i \in EntriesOf(g) \/ (i = n /\ e.flag = g)
        /\ \A g \in Flags : \A i \in EntriesOf(g) : auditLog'[i] = auditLog[i] /\ i \in Nat /\ i < n
    <2>1. /\ Len(auditLog) \in Nat /\ DOMAIN auditLog = 1 .. Len(auditLog)
          /\ DOMAIN auditLog' = 1 .. n /\ auditLog'[n] = e /\ n \in Nat
          /\ \A i \in 1 .. Len(auditLog) : auditLog'[i] = auditLog[i]
      BY <1>0, <1>2
    <2>2. \A i : i \in 1 .. n <=> i \in 1 .. Len(auditLog) \/ i = n
      BY <2>1
    <2>3. ASSUME NEW g \in Flags PROVE \A i : i \in EntriesOf(g)' <=> i \in EntriesOf(g) \/ (i = n /\ e.flag = g)
      BY <2>1, <2>2 DEF EntriesOf
    <2>4. \A g \in Flags : \A i \in EntriesOf(g) : auditLog'[i] = auditLog[i] /\ i \in Nat /\ i < n
      BY <2>1 DEF EntriesOf
    <2> QED
      BY <2>1, <2>3, <2>4, Zenon
  <1>6. \A g \in Flags : EntriesOf(g) \in SUBSET Nat /\ EntriesOf(g) = Earlier(g, n)
    BY EntriesAreEarlier DEF FlagInv
  <1>7. f \notin unlogged => flags[f] # None /\ flags[f].ver = mem[q].row.ver /\ Tells(f, mem[q].found)
    BY <1>0 DEF FlagInv, FlagTold
  <1>8. Latest(EntriesOf(f)') = n
    <2>1. EntriesOf(f)' \in SUBSET Nat /\ n \in EntriesOf(f)' /\ \A o \in EntriesOf(f)' : o <= n
      BY <1>0, <1>2, <1>5
    <2> QED
      BY <2>1, LatestIs
  <1>9. ASSUME NEW g \in Flags, g \notin unlogged, NEW i \in Nat, i <= n
        PROVE  /\ Earlier(g, i)' = Earlier(g, i)
               /\ Earlier(g, i) # {} => auditLog'[Latest(Earlier(g, i))] = auditLog[Latest(Earlier(g, i))]
    <2>1. Earlier(g, i)' = Earlier(g, i)
      BY <1>5, <1>9 DEF Earlier
    <2>2. Earlier(g, i) \in SUBSET Nat /\ HasLast(Earlier(g, i)) /\ Earlier(g, i) \subseteq EntriesOf(g)
      BY <1>6, <1>9 DEF Earlier, FlagInv, FlagLog
    <2> QED
      BY <1>5, <2>1, <2>2, LatestIn
  <1>10. FlagLog'
    <2> SUFFICES ASSUME NEW g \in Flags, g \notin unlogged'
                 PROVE  /\ \A k \in Nat : HasLast(Earlier(g, k)')
                        /\ \A i \in EntriesOf(g)' : Replays(i, Earlier(g, i))'
      BY DEF FlagLog, HasLast
    <2>0. g \notin unlogged
      BY <1>0
    <2>1. ASSUME NEW k \in Nat PROVE HasLast(Earlier(g, k)')
      <3>1. CASE k <= n
        BY <1>9, <2>0, <3>1 DEF FlagInv, FlagLog
      <3>2. CASE n < k /\ g = f
        <4>1. n \in Earlier(g, k)' /\ \A o \in Earlier(g, k)' : o <= n
          BY <1>2, <1>5, <3>2 DEF Earlier
        <4> QED
          BY <4>1 DEF HasLast
      <3>3. CASE n < k /\ g # f
        <4>1. Earlier(g, k)' = EntriesOf(g)
          BY <1>2, <1>5, <3>3 DEF Earlier
        <4> QED
          BY <1>5, <1>6, <2>0, <4>1 DEF FlagInv, FlagLog
      <3> QED
        BY <1>5, <3>1, <3>2, <3>3
    <2>2. \A i \in EntriesOf(g) : Replays(i, Earlier(g, i))'
      <3> SUFFICES ASSUME NEW i \in EntriesOf(g) PROVE Replays(i, Earlier(g, i))'
        OBVIOUS
      <3>1. i \in Nat /\ i <= n /\ auditLog'[i] = auditLog[i] /\ Replays(i, Earlier(g, i))
        BY <1>5, <2>0 DEF FlagInv, FlagLog
      <3> QED
        BY <1>9, <2>0, <3>1 DEF Replays
    <2>3. g = f => Replays(n, Earlier(g, n))'
      <3> SUFFICES ASSUME g = f PROVE Replays(n, Earlier(f, n))'
        OBVIOUS
      <3>1. /\ Earlier(f, n)' = EntriesOf(f)
            /\ EntriesOf(f) # {} => auditLog'[Latest(EntriesOf(f))] = auditLog[Latest(EntriesOf(f))]
        <4>1. Earlier(f, n) = EntriesOf(f) /\ n <= n /\ n \in Nat
          BY <1>0, <1>5, <1>6
        <4> QED
          BY <1>0, <1>9, <2>0, <4>1
      <3>2. Tells(f, mem[q].found)
        BY <1>7, <2>0
      <3> QED
        BY <1>5, <3>1, <3>2 DEF Replays, Tells, EntryOf
    <2>4. \A i \in EntriesOf(g)' : i \in EntriesOf(g) \/ (i = n /\ g = f)
      BY <1>2, <1>5
    <2> QED
      BY <2>1, <2>2, <2>3, <2>4
  <1>11. Tells(f, flags[f])' \/ f \in unlogged
    <2>1. EntriesOf(f)' # {} /\ auditLog'[Latest(EntriesOf(f)')] = e
      BY <1>0, <1>2, <1>5, <1>8
    <2> QED
      BY <1>0, <1>2, <1>7, <2>1 DEF Tells
  <1>12. FlagTold'
    <2> SUFFICES ASSUME NEW g \in Flags, g \notin unlogged'
                 PROVE  /\ \A r \in Requests : pc'[r] = "saveFlag" /\ mem'[r].flag = g =>
                              mem'[r].found = flags'[g] /\ Tells(g, flags[g])'
                        /\ \A r \in Requests : pc'[r] = "logFlag" /\ mem'[r].flag = g =>
                              /\ flags'[g] # None /\ flags'[g].ver = mem'[r].row.ver
                              /\ Tells(g, mem[r].found)'
                        /\ (\A r \in Requests : pc'[r] \in FlagSteps => mem'[r].flag # g) => Tells(g, flags[g])'
      BY DEF FlagTold
    <2>0. g \notin unlogged
      BY <1>0
    <2>1. CASE g # f
      <3>1. \A x : Tells(g, x) => Tells(g, x)'
        <4>1. /\ EntriesOf(g)' = EntriesOf(g)
              /\ EntriesOf(g) # {} => auditLog'[Latest(EntriesOf(g))] = auditLog[Latest(EntriesOf(g))]
          <5>1. EntriesOf(g)' = EntriesOf(g)
            BY <1>2, <1>5, <2>1
          <5> QED
            BY <1>5, <1>6, <1>9, <2>0, <5>1
        <4> QED
          BY <4>1 DEF Tells
      <3> QED
        BY <1>0, <1>1, <2>0, <2>1, <3>1 DEF Put, FlagInv, FlagTold, FlagSteps
    <2>2. CASE g = f
      <3>1. \A r \in Requests : r # q /\ pc[r] \in FlagSteps => mem[r].flag # f
        BY <1>0, <2>0, <2>2 DEF FlagInv, FlagAlone, FlagSteps
      <3> QED
        BY <1>1, <1>11, <2>0, <2>2, <3>1 DEF Put, FlagSteps
    <2> QED
      BY <2>1, <2>2
  <1> QED
    BY <1>0, <1>3, <1>4, <1>10, <1>12 DEF FlagInv, NoneAtZero

LEMMA FlagInterruptedStep ==
    ASSUME Base, FlagInv, NEW q \in Requests, FlagInterrupted(q)
    PROVE  FlagInv'
  <1>1. /\ Put(q, "idle", NoMemory) /\ UNCHANGED <<flags, auditLog, gated, writes>>
        /\ unlogged \subseteq unlogged' /\ (pc[q] = "logFlag" => mem[q].flag \in unlogged')
    BY InterruptedPuts DEF FlagInterrupted, flagTables, At, Base
  <1>2. FlagTypes' /\ FlagAlone'
    BY <1>1 DEF Put, FlagInv, FlagTypes, FlagAlone, FlagSteps
  <1>3. FlagLog' /\ NoneAtZero'
    BY <1>1, FlagLogStays DEF FlagInv, NoneAtZero
  <1>4. FlagTold'
    <2>1. \A g, x : Tells(g, x)' = Tells(g, x)
      BY <1>1 DEF Tells, EntriesOf
    <2>2. pc[q] \in FlagSteps /\ mem[q].flag \in Flags
      BY DEF FlagInterrupted, FlagInv, FlagTypes, FlagHeld
    <2> QED
      BY <1>1, <2>1, <2>2 DEF Put, FlagInv, FlagTold, FlagSteps
  <1> QED
    BY <1>2, <1>3, <1>4 DEF FlagInv

LEMMA FlagNextInv == Base /\ FlagInv /\ [Next]_vars => FlagInv'
  <1> SUFFICES ASSUME Base, FlagInv, [Next]_vars PROVE FlagInv'
    OBVIOUS
  <1>1. CASE FlagStep
    BY <1>1, GateStep, SetStep, SaveFlagStep, LogStep, FlagInterruptedStep
       DEF FlagStep, FlagNext, SetFeatureFlag, FeatureFlagGate
  <1>2. CASE ~FlagStep
    <2>1. UNCHANGED <<flags, auditLog, gated, writes, unlogged>> /\ Apart(FlagSteps)
      BY <1>2, FlagApart DEF flagVars
    <2>2. FlagTypes' /\ FlagAlone'
      BY <2>1 DEF Apart, FlagInv, FlagTypes, FlagAlone
    <2>3. FlagLog' /\ NoneAtZero'
      BY <2>1, FlagLogStays DEF FlagInv, NoneAtZero
    <2>4. FlagTold'
      <3>1. \A g, x : Tells(g, x)' = Tells(g, x)
        BY <2>1 DEF Tells, EntriesOf
      <3> QED
        BY <2>1, <3>1 DEF Apart, FlagInv, FlagTold, FlagSteps
    <2> QED
      BY <2>2, <2>3, <2>4 DEF FlagInv
  <1> QED
    BY <1>1, <1>2

\* Each entry of the audit log replays those before it, and what it tells last of a flag is
\* the version in force, unless changes overlapped or one was cut off before its entry
\* (ConfigurationService.ts lines 433 to 510).
THEOREM FlagsAreLogged == Spec => []LogReplaysFlag
  <1>1. FlagInv => LogReplaysFlag
    BY DEF FlagInv, LogReplaysFlag, FlagLog, FlagTold, NoneAtZero, Tells, Earlier
  <1> QED
    BY <1>1, BaseInit, BaseStep, FlagInitInv, FlagNextInv, PTL DEF Spec

------------------------------------------------------------------------------
\* Whether a transaction of that many points is refused.
Blocks(n, s) == ShouldBlock(CalculateRiskLevel(n, s), s)

LEMMA ScoreIsNatural ==
    ASSUME NEW S
    PROVE  Score(S) \in Nat
  BY DEF Score, Points

LEMMA NoRuleNoPoints == Score({}) = 0
  BY DEF Score

LEMMA LevelsAndBlocks ==
    ASSUME NEW n \in Nat, NEW s \in FraudSettings
    PROVE  CalculateRiskLevel(n, s) \in Levels /\ Blocks(n, s) \in BOOLEAN
  BY DEF FraudSettings, CalculateRiskLevel, Blocks, ShouldBlock, Levels

\* With settings that rise, more points never lead to less, and the cap changes nothing.
LEMMA MorePoints ==
    ASSUME NEW n \in Nat, NEW k \in Nat, NEW s \in FraudSettings, Monotone(s)
    PROVE  Blocks(n, s) => Blocks(AtMost100(n + k), s)
  <1>1. /\ s.highRiskThreshold \in Int /\ s.criticalRiskThreshold \in Int
        /\ s.autoBlockHighRisk \in BOOLEAN /\ s.autoBlockCritical \in BOOLEAN
    BY DEF FraudSettings
  <1> QED
    BY <1>1 DEF Blocks, ShouldBlock, CalculateRiskLevel, Monotone, AtMost100

LEMMA CapDecidesAlike ==
    ASSUME NEW n \in Nat, NEW s \in FraudSettings, Monotone(s)
    PROVE  Blocks(AtMost100(n), s) <=> Blocks(n, s)
  <1>1. /\ s.highRiskThreshold \in Int /\ s.criticalRiskThreshold \in Int
        /\ s.autoBlockHighRisk \in BOOLEAN /\ s.autoBlockCritical \in BOOLEAN
    BY DEF FraudSettings
  <1> QED
    BY <1>1 DEF Blocks, ShouldBlock, CalculateRiskLevel, Monotone, AtMost100

------------------------------------------------------------------------------
\* What a request holds at each step.
CheckAsk == [case: Cases, twice: BOOLEAN, then: {"applyRules"}]
ChangeAsk == [change: Changes, then: {"saveSettings"}]
CheckAsked == [case: Cases, twice: BOOLEAN, then: FraudSettings]
ChangeAsked == [change: Changes, then: FraudSettings]
Check ==
    [case: Cases, twice: BOOLEAN, alert: AlertIds \cup {None}, score: 0 .. 100, level: Levels, block: BOOLEAN,
     first: FraudSettings, last: FraudSettings, patterns: SUBSET DOMAIN Points]

\* The answer a check may give.
Sound(a) == a.first = a.last /\ Monotone(a.first) =>
    /\ a.alert # None => a.block
    /\ a.alert = None /\ a.block => a.patterns # {}

Before2nd == {"saveAlert", "ratePatterns", "rateAgain"}
After2nd == {"banPayer", "banAddress"}

FraudHeld(step, m) ==
    /\ step \in {"readSettings", "insertSettings"} => m \in CheckAsk \cup ChangeAsk
    /\ step = "applyRules" => m \in CheckAsked
    /\ step = "saveSettings" => m \in ChangeAsked
    /\ step \in Before2nd \cup After2nd => m \in Check /\ m.patterns \subseteq RateLimitingPatterns(m.case)
    /\ step \in Before2nd => m.last = m.first /\ (Monotone(m.first) => (m.block <=> Blocks(m.score, m.first)))
    /\ step = "saveAlert" => m.block /\ m.patterns = {}
    /\ step \in {"ratePatterns", "rateAgain"} => (m.block <=> m.alert # None)
    /\ step \in After2nd => Sound(m)
    /\ step = "saveReview" => m.id \in AlertIds

\* The row of the settings is there once a request has read it.
SettingsThere ==
    /\ settings \in FraudSettings \cup {None}
    /\ \A q \in Requests :
          pc[q] \in FraudSteps \ {"readSettings", "insertSettings", "saveReview"} => settings # None

FraudTables ==
    /\ \A a \in answered : Sound(a)
    /\ \A b \in banned : RateLimitingPatterns(b[2]) # {}
    /\ DOMAIN alerts = AlertIds
    /\ \A i \in Raised : alerts[i].status = "blocked" \/ i \in reviewed
    /\ reviewed \subseteq AlertIds
    /\ statistics # None => statistics.pending \in Nat /\ statistics.pending <= Cardinality(reviewed)

FraudInv ==
    /\ \A q \in Requests : FraudHeld(pc[q], mem[q])
    /\ SettingsThere
    /\ FraudTables

LEMMA FraudInitInv == Init => FraudInv
  <1> SUFFICES ASSUME Init PROVE FraudInv
    OBVIOUS
  <1>1. \A q \in Requests : pc[q] = "idle"
    BY InitPerRequest DEF Init
  <1>2. FraudInit \/ FraudIdle
    BY DEF Init
  <1>3. DefaultSettings \in FraudSettings
    BY DEF DefaultSettings, FraudSettings
  <1> QED
    BY <1>1, <1>2, <1>3
       DEF FraudInit, FraudIdle, FraudInv, FraudHeld, SettingsThere, FraudTables, Raised, FraudSteps, CheckSteps,
           Before2nd, After2nd

\* A request that goes on.
LEMMA PutFraud ==
    ASSUME FraudInv, NEW q \in Requests, NEW step, NEW m, Put(q, step, m), FraudHeld(step, m),
           settings' \in FraudSettings \cup {None}, settings # None => settings' # None,
           step \in FraudSteps \ {"readSettings", "insertSettings", "saveReview"} => settings' # None,
           FraudTables'
    PROVE  FraudInv'
  BY DEF FraudInv, SettingsThere, Put

LEMMA GotoFraud ==
    ASSUME Base, FraudInv, NEW q \in Requests, NEW step, NEW m, Goto(q, step, m), FraudHeld(step, m),
           settings' \in FraudSettings \cup {None}, settings # None => settings' # None,
           step \in FraudSteps \ {"readSettings", "insertSettings", "saveReview"} => settings' # None,
           FraudTables'
    PROVE  FraudInv'
  BY PutFraud, GotoPuts DEF Base

LEMMA AnswerFraud ==
    ASSUME Base, FraudInv, NEW q \in Requests, Answer(q),
           settings' \in FraudSettings \cup {None}, settings # None => settings' # None, FraudTables'
    PROVE  FraudInv'
  BY GotoFraud DEF Answer, FraudHeld, FraudSteps, CheckSteps, Before2nd, After2nd

LEMMA ReceiveFraud ==
    ASSUME Base, FraudInv, NEW q \in Requests, NEW c, NEW step, NEW m, Receive(q, c, step, m), FraudHeld(step, m),
           step \in {"readSettings", "saveReview"}, UNCHANGED fraudVars
    PROVE  FraudInv'
  <1>1. Put(q, step, m)
    BY ReceivePuts DEF Base
  <1>2. FraudTables' /\ settings' = settings
    BY DEF FraudInv, FraudTables, fraudVars, Raised
  <1> QED
    BY <1>1, <1>2, PutFraud DEF FraudInv, SettingsThere

LEMMA FraudFrame ==
    ASSUME FraudInv, PerRequest', UNCHANGED fraudVars, Apart(FraudSteps)
    PROVE  FraudInv'
  <1>1. FraudTables' /\ settings' = settings
    BY DEF FraudInv, FraudTables, fraudVars, Raised
  <1>2. \A q \in Requests : FraudHeld(pc'[q], mem'[q])
    <2> SUFFICES ASSUME NEW q \in Requests PROVE FraudHeld(pc'[q], mem'[q])
      OBVIOUS
    <2>1. CASE pc'[q] \in FraudSteps
      BY <2>1 DEF FraudInv, Apart
    <2>2. CASE pc'[q] \notin FraudSteps
      BY <2>2 DEF FraudHeld, FraudSteps, CheckSteps, Before2nd, After2nd
    <2> QED
      BY <2>1, <2>2
  <1>3. SettingsThere'
    BY <1>1 DEF FraudInv, SettingsThere, Apart, FraudSteps
  <1> QED
    BY <1>1, <1>2, <1>3 DEF FraudInv

------------------------------------------------------------------------------
\* What the invariant says of a request at a step of a check.
LEMMA CheckIs ==
    ASSUME FraudInv, NEW q \in Requests, pc[q] \in Before2nd \cup After2nd
    PROVE  /\ mem[q] \in Check /\ mem[q].patterns \subseteq RateLimitingPatterns(mem[q].case)
           /\ settings \in FraudSettings
  BY DEF FraudInv, FraudHeld, SettingsThere, FraudSteps, CheckSteps, Before2nd, After2nd

LEMMA TablesStay ==
    ASSUME FraudInv, UNCHANGED <<alerts, banned, answered, reviewed, statistics>>
    PROVE  FraudTables'
  BY DEF FraudInv, FraudTables, Raised

LEMMA SettingsStay ==
    ASSUME FraudInv, UNCHANGED settings
    PROVE  settings' \in FraudSettings \cup {None} /\ (settings # None => settings' # None)
  BY DEF FraudInv, SettingsThere

\* Settings that were read, or made: a check goes on with them, and so does a change.
LEMMA SettingsHeld ==
    ASSUME NEW m \in CheckAsk \cup ChangeAsk, NEW s \in FraudSettings
    PROVE  /\ FraudHeld(m.then, [m EXCEPT !.then = s])
           /\ m.then \in {"applyRules", "saveSettings"}
  <1>1. CASE m \in CheckAsk
    <2>1. [m EXCEPT !.then = s] \in CheckAsked /\ m.then = "applyRules"
      BY <1>1 DEF CheckAsk, CheckAsked
    <2> QED
      BY <2>1 DEF FraudHeld, Before2nd, After2nd
  <1>2. CASE m \in ChangeAsk
    <2>1. [m EXCEPT !.then = s] \in ChangeAsked /\ m.then = "saveSettings"
      BY <1>2 DEF ChangeAsk, ChangeAsked
    <2> QED
      BY <2>1 DEF FraudHeld, Before2nd, After2nd
  <1> QED
    BY <1>1, <1>2

LEMMA AskStep ==
    ASSUME Base, FraudInv, NEW q \in Requests, PostCheck(q) \/ PutSettings(q)
    PROVE  FraudInv'
  <1>1. CASE PostCheck(q)
    <2>1. PICK t \in Cases, twice \in BOOLEAN :
             Receive(q, "fraud", "readSettings", [case |-> t, twice |-> twice, then |-> "applyRules"])
      BY <1>1 DEF PostCheck
    <2>2. FraudHeld("readSettings", [case |-> t, twice |-> twice, then |-> "applyRules"])
      BY DEF FraudHeld, CheckAsk, Before2nd, After2nd
    <2> QED
      BY <1>1, <2>1, <2>2, ReceiveFraud DEF PostCheck
  <1>2. CASE PutSettings(q)
    <2>1. PICK c \in Changes :
             Receive(q, "fraud", "readSettings", [change |-> c, then |-> "saveSettings"])
      BY <1>2 DEF PutSettings
    <2>2. FraudHeld("readSettings", [change |-> c, then |-> "saveSettings"])
      BY DEF FraudHeld, ChangeAsk, Before2nd, After2nd
    <2> QED
      BY <1>2, <2>1, <2>2, ReceiveFraud DEF PutSettings
  <1> QED
    BY <1>1, <1>2

LEMMA ReadSettingsStep ==
    ASSUME Base, FraudInv, NEW q \in Requests, ReadSettings(q)
    PROVE  FraudInv'
  <1>1. mem[q] \in CheckAsk \cup ChangeAsk /\ FraudHeld("insertSettings", mem[q])
    BY DEF ReadSettings, At, FraudInv, FraudHeld, Before2nd, After2nd
  <1>2. FraudTables' /\ settings' = settings /\ settings \in FraudSettings \cup {None}
    BY TablesStay DEF ReadSettings, fraudVars, FraudInv, SettingsThere
  <1>3. CASE settings # None /\ Goto(q, mem[q].then, [mem[q] EXCEPT !.then = settings])
    <2>1. FraudHeld(mem[q].then, [mem[q] EXCEPT !.then = settings])
      BY <1>1, <1>2, <1>3, SettingsHeld
    <2> QED
      BY <1>2, <1>3, <2>1, GotoFraud
  <1>4. CASE Goto(q, "insertSettings", mem[q])
    BY <1>1, <1>2, <1>4, GotoFraud
  <1> QED
    BY <1>3, <1>4 DEF ReadSettings

LEMMA InsertSettingsStep ==
    ASSUME Base, FraudInv, NEW q \in Requests, InsertSettings(q)
    PROVE  FraudInv'
  <1>1. mem[q] \in CheckAsk \cup ChangeAsk
    BY DEF InsertSettings, At, FraudInv, FraudHeld
  <1>2. DefaultSettings \in FraudSettings /\ DefaultSettings # None
    <2>1. DefaultSettings \in FraudSettings
      BY DEF DefaultSettings, FraudSettings
    <2> QED
      BY <2>1, FraudAssumption DEF FraudAssumption
  <1>3. FraudTables'
    BY TablesStay DEF InsertSettings
  <1>4. CASE settings' = DefaultSettings /\ Goto(q, mem[q].then, [mem[q] EXCEPT !.then = DefaultSettings])
    <2>1. FraudHeld(mem[q].then, [mem[q] EXCEPT !.then = DefaultSettings])
      BY <1>1, <1>2, SettingsHeld
    <2> QED
      BY <1>2, <1>3, <1>4, <2>1, GotoFraud
  <1>5. CASE Answer(q) /\ UNCHANGED settings
    BY <1>3, <1>5, AnswerFraud, SettingsStay
  <1> QED
    BY <1>4, <1>5 DEF InsertSettings

LEMMA ConcludeIsSound ==
    ASSUME FraudInv, NEW m, Sound(m), Conclude(m), UNCHANGED <<alerts, banned, reviewed, statistics>>
    PROVE  FraudTables'
  BY DEF FraudInv, FraudTables, Conclude, Sound, Raised

LEMMA ApplyRulesStep ==
    ASSUME Base, FraudInv, NEW q \in Requests, ApplyRules(q)
    PROVE  FraudInv'
  <1> PICK t : t = mem[q].case
    OBVIOUS
  <1> PICK s : s = mem[q].then
    OBVIOUS
  <1> PICK score : score = Score(RulesTriggered(t, s))
    OBVIOUS
  <1> PICK level : level = CalculateRiskLevel(score, s)
    OBVIOUS
  <1> PICK m : m = [case |-> t, twice |-> mem[q].twice, alert |-> None, score |-> AtMost100(score), level |-> level,
                    block |-> ShouldBlock(level, s), first |-> s, last |-> s, patterns |-> {}]
    OBVIOUS
  <1>0. /\ At(q, "applyRules")
        /\ \/ m.block /\ Goto(q, "saveAlert", m) /\ UNCHANGED answered
           \/ ~m.block /\ m.twice /\ Goto(q, "ratePatterns", m) /\ UNCHANGED answered
           \/ ~m.block /\ ~m.twice /\ Answer(q) /\ Conclude(m)
        /\ UNCHANGED <<settings, alerts, banned, reviewed, statistics>>
    BY DEF ApplyRules
  <1>1. mem[q] \in CheckAsked /\ settings # None
    BY <1>0 DEF At, FraudInv, FraudHeld, SettingsThere, FraudSteps, CheckSteps
  <1>2. t \in Cases /\ s \in FraudSettings /\ mem[q].twice \in BOOLEAN
    BY <1>1 DEF CheckAsked
  <1>3. score \in Nat /\ AtMost100(score) \in 0 .. 100
    BY ScoreIsNatural DEF AtMost100
  <1>4. level \in Levels /\ ShouldBlock(level, s) \in BOOLEAN
    BY <1>2, <1>3, LevelsAndBlocks DEF Blocks
  <1>5. m \in Check
    BY <1>2, <1>3, <1>4 DEF Check
  <1>6. Monotone(m.first) => (m.block <=> Blocks(m.score, m.first))
    BY <1>2, <1>3, CapDecidesAlike DEF Blocks
  <1>7. /\ m.alert = None /\ m.last = m.first /\ m.patterns = {}
        /\ m.patterns \subseteq RateLimitingPatterns(m.case)
    OBVIOUS
  <1> HIDE DEF Score
  <1>8. settings' \in FraudSettings \cup {None} /\ settings' # None
    BY <1>0, <1>1, SettingsStay
  <1>9. CASE m.block /\ Goto(q, "saveAlert", m) /\ UNCHANGED answered
    <2>1. FraudHeld("saveAlert", m)
      BY <1>5, <1>6, <1>7, <1>9 DEF FraudHeld, Before2nd, After2nd
    <2>2. FraudTables'
      BY <1>0, <1>9, TablesStay
    <2> QED
      BY <1>8, <1>9, <2>1, <2>2, GotoFraud
  <1>10. CASE ~m.block /\ m.twice /\ Goto(q, "ratePatterns", m) /\ UNCHANGED answered
    <2>1. FraudHeld("ratePatterns", m)
      BY <1>5, <1>6, <1>7, <1>10 DEF FraudHeld, Before2nd, After2nd
    <2>2. FraudTables'
      BY <1>0, <1>10, TablesStay
    <2> QED
      BY <1>8, <1>10, <2>1, <2>2, GotoFraud
  <1>11. CASE ~m.block /\ ~m.twice /\ Answer(q) /\ Conclude(m)
    <2>1. Sound(m)
      BY <1>7, <1>11 DEF Sound
    <2>2. FraudTables'
      BY <1>0, <1>11, <2>1, ConcludeIsSound
    <2> QED
      BY <1>8, <1>11, <2>2, AnswerFraud
  <1> QED
    BY <1>0, <1>9, <1>10, <1>11

------------------------------------------------------------------------------
LEMMA CreateFraudAlertStep ==
    ASSUME Base, FraudInv, NEW q \in Requests, CreateFraudAlert(q)
    PROVE  FraudInv'
  <1>0. At(q, "saveAlert") /\ UNCHANGED <<settings, banned, reviewed, statistics>>
    BY DEF CreateFraudAlert
  <1>10. mem[q] \in Check
    BY <1>0, CheckIs DEF At, Before2nd
  <1>11. mem[q].twice \in BOOLEAN /\ \A i \in AlertIds : [mem[q] EXCEPT !.alert = i].twice = mem[q].twice
    BY <1>10 DEF Check
  <1> PICK i \in AlertIds \ Raised :
         /\ alerts' = [alerts EXCEPT ![i] = [level |-> mem[q].level, status |-> "blocked",
                          score |-> mem[q].score, amount |-> mem[q].case.amount]]
         /\ IF mem[q].twice THEN Goto(q, "ratePatterns", [mem[q] EXCEPT !.alert = i]) /\ UNCHANGED answered
                            ELSE Answer(q) /\ Conclude([mem[q] EXCEPT !.alert = i])
    BY <1>10, <1>11 DEF CreateFraudAlert, Check
  <1> PICK m : m = [mem[q] EXCEPT !.alert = i]
    OBVIOUS
  <1>1. /\ mem[q] \in Check /\ mem[q].last = mem[q].first /\ mem[q].block
        /\ mem[q].patterns \subseteq RateLimitingPatterns(mem[q].case)
        /\ (Monotone(mem[q].first) => (mem[q].block <=> Blocks(mem[q].score, mem[q].first)))
        /\ settings # None
    BY <1>0, CheckIs DEF At, FraudInv, FraudHeld, SettingsThere, FraudSteps, CheckSteps, Before2nd, After2nd
  <1>2. i # None
    BY FraudAssumption DEF FraudAssumption
  <1>3. /\ m \in Check /\ m.alert = i /\ m.last = m.first /\ m.block
        /\ m.patterns = mem[q].patterns /\ m.case = mem[q].case
        /\ m.score = mem[q].score /\ m.first = mem[q].first
    BY <1>1 DEF Check
  <1>4. FraudHeld("ratePatterns", m) /\ Sound(m)
    BY <1>1, <1>2, <1>3 DEF FraudHeld, Before2nd, After2nd, Sound
  <1>5. /\ \A a \in answered' : Sound(a)
        /\ IF mem[q].twice THEN Goto(q, "ratePatterns", m) ELSE Answer(q)
    BY <1>4 DEF FraudInv, FraudTables, Conclude, Sound
  <1>6. DOMAIN alerts' = AlertIds /\ \A j \in AlertIds : alerts'[j] = alerts[j] \/ alerts'[j].status = "blocked"
    BY DEF FraudInv, FraudTables
  <1>7. FraudTables'
    BY <1>0, <1>5, <1>6 DEF FraudInv, FraudTables, Raised
  <1>8. settings' \in FraudSettings \cup {None} /\ settings' # None
    BY <1>0, <1>1, SettingsStay
  <1> QED
    BY <1>4, <1>5, <1>7, <1>8, GotoFraud, AnswerFraud

LEMMA PatternsAreRules ==
    ASSUME NEW t
    PROVE  RateLimitingPatterns(t) \subseteq DOMAIN Points
  BY DEF RateLimitingPatterns, When, Points

LEMMA RatePatternsStep ==
    ASSUME Base, FraudInv, NEW q \in Requests, CheckRateLimitingPatterns(q)
    PROVE  FraudInv'
  <1>0. At(q, "ratePatterns") /\ UNCHANGED fraudVars
    BY DEF CheckRateLimitingPatterns
  <1> PICK found \in {RateLimitingPatterns(mem[q].case)} \cup (IF Failing THEN {{}} ELSE {}) :
         Goto(q, "rateAgain", [mem[q] EXCEPT !.patterns = found])
    BY DEF CheckRateLimitingPatterns
  <1> PICK m : m = [mem[q] EXCEPT !.patterns = found]
    OBVIOUS
  <1>1. /\ mem[q] \in Check /\ mem[q].last = mem[q].first /\ (mem[q].block <=> mem[q].alert # None)
        /\ (Monotone(mem[q].first) => (mem[q].block <=> Blocks(mem[q].score, mem[q].first)))
        /\ settings # None
    BY <1>0, CheckIs DEF At, FraudInv, FraudHeld, SettingsThere, FraudSteps, CheckSteps, Before2nd, After2nd
  <1>2. found \subseteq RateLimitingPatterns(mem[q].case) /\ found \subseteq DOMAIN Points
    BY PatternsAreRules
  <1>3. /\ m \in Check /\ m.patterns = found /\ m.case = mem[q].case /\ m.last = m.first
        /\ m.score = mem[q].score /\ m.first = mem[q].first /\ m.alert = mem[q].alert /\ m.block = mem[q].block
    BY <1>1, <1>2 DEF Check
  <1>4. FraudHeld("rateAgain", m)
    BY <1>1, <1>2, <1>3 DEF FraudHeld, Before2nd, After2nd
  <1>5. FraudTables' /\ settings' \in FraudSettings \cup {None} /\ settings' # None
    BY <1>0, <1>1, TablesStay, SettingsStay DEF fraudVars
  <1> QED
    BY <1>4, <1>5, GotoFraud

LEMMA CapIsInRange ==
    ASSUME NEW n \in 0 .. 100, NEW k \in Nat
    PROVE  AtMost100(n + k) \in 0 .. 100
  BY DEF AtMost100

\* The check a with its second rating.
Rated(a, score, level, block, s) == [a EXCEPT !.score = score, !.level = level, !.block = block, !.last = s]

\* The second rating adds the points of the patterns found since: an alert stays a reason to block.
LEMMA RatedIsHeld ==
    ASSUME NEW a, FraudHeld("rateAgain", a), NEW s \in FraudSettings,
           NEW score \in 0 .. 100, score = AtMost100(a.score + Score(a.patterns)),
           NEW level \in Levels, NEW block \in BOOLEAN, block <=> Blocks(score, s)
    PROVE  FraudHeld("banPayer", Rated(a, score, level, block, s))
  <1> PICK m : m = Rated(a, score, level, block, s)
    OBVIOUS
  <1>1. /\ a \in Check /\ (a.block <=> a.alert # None)
        /\ a.patterns \subseteq RateLimitingPatterns(a.case)
        /\ (Monotone(a.first) => (a.block <=> Blocks(a.score, a.first)))
    BY DEF FraudHeld, Before2nd
  <1>2. a.score \in 0 .. 100 /\ Score(a.patterns) \in Nat
    BY <1>1, ScoreIsNatural DEF Check
  <1>3. /\ m \in Check /\ m.patterns = a.patterns /\ m.case = a.case /\ m.first = a.first
        /\ m.last = s /\ m.alert = a.alert /\ (m.block <=> block)
    BY <1>1 DEF Check, Rated
  <1>4. a.patterns = {} => score = a.score
    <2>1. a.patterns = {} => Score(a.patterns) = 0
      BY NoRuleNoPoints
    <2> QED
      BY <1>2, <2>1 DEF AtMost100
  <1>5. Monotone(s) /\ Blocks(a.score, s) => Blocks(score, s)
    BY <1>2, MorePoints
  <1>6. Sound(m)
    BY <1>1, <1>3, <1>4, <1>5 DEF Sound
  <1> QED
    BY <1>1, <1>3, <1>6 DEF FraudHeld, Before2nd, After2nd

LEMMA RateAgainStep ==
    ASSUME Base, FraudInv, NEW q \in Requests, RateAgain(q)
    PROVE  FraudInv'
  <1> DEFINE score == AtMost100(mem[q].score + Score(mem[q].patterns))
  <1>1. /\ FraudHeld("rateAgain", mem[q]) /\ settings # None /\ settings \in FraudSettings
    BY DEF RateAgain, At, FraudInv, SettingsThere, FraudSteps, CheckSteps
  <1>2. score \in 0 .. 100
    <2>1. mem[q].score \in 0 .. 100
      BY <1>1 DEF FraudHeld, Before2nd, Check
    <2> QED
      BY <2>1, ScoreIsNatural, CapIsInRange
  <1> PICK n : n = score
    OBVIOUS
  <1> HIDE DEF score
  <1>3. CalculateRiskLevel(n, settings) \in Levels /\ Blocks(n, settings) \in BOOLEAN
    BY <1>1, <1>2, LevelsAndBlocks
  <1> PICK level : level = CalculateRiskLevel(n, settings)
    OBVIOUS
  <1> PICK block \in BOOLEAN : block = Blocks(n, settings)
    BY <1>3
  <1> PICK m : m = Rated(mem[q], n, level, block, settings)
    OBVIOUS
  <1>4. At(q, "rateAgain") /\ UNCHANGED fraudVars /\ Goto(q, "banPayer", m)
    BY DEF RateAgain, Blocks, Rated, score
  <1>5. FraudHeld("banPayer", m)
    BY <1>1, <1>2, <1>3, RatedIsHeld DEF score
  <1>6. FraudTables' /\ settings' \in FraudSettings \cup {None} /\ settings' # None
    BY <1>1, <1>4, TablesStay, SettingsStay DEF fraudVars
  <1> QED
    BY <1>4, <1>5, <1>6, GotoFraud

------------------------------------------------------------------------------
\* Who is banned made throttled requests.
LEMMA BanIsEarned ==
    ASSUME FraudInv, NEW q \in Requests, pc[q] \in After2nd, NEW what, NEW bound \in Nat, Ban(q, what, bound)
    PROVE  \A b \in banned' : RateLimitingPatterns(b[2]) # {}
  <1> PICK t : t = mem[q].case
    OBVIOUS
  <1> PICK points : points = Score(mem[q].patterns)
    OBVIOUS
  <1>1. banned' = banned \/ (points > bound /\ banned' = banned \cup {<<what, t>>})
    BY ScoreIsNatural DEF Ban
  <1>2. points > bound => RateLimitingPatterns(t) # {}
    <2>1. mem[q].patterns \subseteq RateLimitingPatterns(t)
      BY CheckIs
    <2>2. mem[q].patterns = {} => points = 0
      BY NoRuleNoPoints
    <2> QED
      BY <2>1, <2>2
  <1>3. \A b \in {<<what, t>>} : b[2] = t
    OBVIOUS
  <1> QED
    BY <1>1, <1>2, <1>3 DEF FraudInv, FraudTables

LEMMA BanPayerStep ==
    ASSUME Base, FraudInv, NEW q \in Requests, BanPayer(q)
    PROVE  FraudInv'
  <1>1. pc[q] \in After2nd /\ settings' = settings
    BY DEF BanPayer, At, After2nd
  <1>2. FraudTables'
    <2>1. \A b \in banned' : RateLimitingPatterns(b[2]) # {}
      BY <1>1, BanIsEarned DEF BanPayer
    <2> QED
      BY <2>1 DEF BanPayer, FraudInv, FraudTables, Raised
  <1>3. FraudHeld("banAddress", mem[q])
    BY DEF BanPayer, At, FraudInv, FraudHeld, Before2nd, After2nd
  <1>4. settings' \in FraudSettings \cup {None} /\ settings' # None
    BY <1>1, FraudAssumption, CheckIs DEF FraudAssumption
  <1> QED
    BY <1>2, <1>3, <1>4, GotoFraud DEF BanPayer

LEMMA BanAddressStep ==
    ASSUME Base, FraudInv, NEW q \in Requests, BanAddress(q)
    PROVE  FraudInv'
  <1>1. pc[q] \in After2nd /\ settings' = settings
    BY DEF BanAddress, At, After2nd
  <1>2. FraudTables'
    <2>1. \A b \in banned' : RateLimitingPatterns(b[2]) # {}
      BY <1>1, BanIsEarned DEF BanAddress
    <2>2. Sound(mem[q])
      BY <1>1 DEF FraudInv, FraudHeld
    <2>3. \A a \in answered' : Sound(a)
      BY <2>2 DEF BanAddress, Conclude, FraudInv, FraudTables, Sound
    <2> QED
      BY <2>1, <2>3 DEF BanAddress, FraudInv, FraudTables, Raised
  <1> QED
    BY <1>1, <1>2, SettingsStay, AnswerFraud DEF BanAddress

LEMMA ChangeKeepsRow ==
    ASSUME NEW s \in FraudSettings, NEW c \in Changes
    PROVE  [s EXCEPT ![c.field] = c.value] \in FraudSettings
  <1>1. \/ c.field \in NumberColumns /\ c.value \in Int
        \/ c.field \in SwitchColumns /\ c.value \in BOOLEAN
    BY FraudAssumption DEF FraudAssumption
  <1>2. ASSUME NEW f \in NumberColumns, NEW v \in Int PROVE [s EXCEPT ![f] = v] \in FraudSettings
    <2>1. CASE f \in {"mediumRiskThreshold", "highRiskThreshold", "criticalRiskThreshold"}
      BY <1>2, <2>1 DEF FraudSettings
    <2>2. CASE f \in {"maxTransactionAmount", "dailyLimit", "maxTransactionsPerHour"}
      BY <1>2, <2>2 DEF FraudSettings
    <2>3. CASE f \in {"maxTransactionsPerDay", "maxSameAmountInHour", "maxFailedAttemptsPerHour"}
      BY <1>2, <2>3 DEF FraudSettings
    <2> QED
      BY <1>2, <2>1, <2>2, <2>3 DEF NumberColumns
  <1>3. ASSUME NEW f \in SwitchColumns, NEW v \in BOOLEAN PROVE [s EXCEPT ![f] = v] \in FraudSettings
    BY <1>3 DEF SwitchColumns, FraudSettings
  <1> QED
    BY <1>1, <1>2, <1>3

LEMMA UpdateMerchantConfigStep ==
    ASSUME Base, FraudInv, NEW q \in Requests, UpdateMerchantConfig(q)
    PROVE  FraudInv'
  <1>1. mem[q] \in ChangeAsked
    BY DEF UpdateMerchantConfig, At, FraudInv, FraudHeld
  <1>2. mem[q].change \in Changes /\ mem[q].then \in FraudSettings
    BY <1>1 DEF ChangeAsked
  <1>3. settings' \in FraudSettings
    BY <1>2, ChangeKeepsRow DEF UpdateMerchantConfig
  <1>4. settings' # None
    BY <1>3, FraudAssumption DEF FraudAssumption
  <1>5. FraudTables'
    BY TablesStay DEF UpdateMerchantConfig
  <1> QED
    BY <1>3, <1>4, <1>5, AnswerFraud DEF UpdateMerchantConfig

LEMMA PatchReviewStep ==
    ASSUME Base, FraudInv, NEW q \in Requests, PatchReview(q)
    PROVE  FraudInv'
  <1> PICK i \in Raised, st \in {"approved", "pending"} :
         Receive(q, "fraud", "saveReview", [id |-> i, row |-> [alerts[i] EXCEPT !.status = st]])
    BY DEF PatchReview
  <1>1. FraudHeld("saveReview", [id |-> i, row |-> [alerts[i] EXCEPT !.status = st]])
    BY DEF FraudHeld, Before2nd, After2nd, Raised
  <1> QED
    BY <1>1, ReceiveFraud DEF PatchReview

LEMMA Grows ==
    ASSUME NEW S \in SUBSET AlertIds, NEW T \in SUBSET S
    PROVE  Cardinality(T) \in Nat /\ Cardinality(S) \in Nat /\ Cardinality(T) <= Cardinality(S)
  <1>1. IsFiniteSet(S)
    BY FraudAssumption, FS_Subset DEF FraudAssumption
  <1> QED
    BY <1>1, FS_Subset, FS_CardinalityType

LEMMA ReviewFraudAlertStep ==
    ASSUME Base, FraudInv, NEW q \in Requests, ReviewFraudAlert(q)
    PROVE  FraudInv'
  <1> PICK i : i = mem[q].id
    OBVIOUS
  <1>0. i \in AlertIds
    BY DEF ReviewFraudAlert, At, FraudInv, FraudHeld
  <1>1. /\ reviewed' = reviewed \cup {i} /\ DOMAIN alerts' = AlertIds
        /\ \A j \in AlertIds : j # i => alerts'[j] = alerts[j]
        /\ UNCHANGED <<settings, banned, answered, statistics>> /\ Answer(q)
    BY DEF ReviewFraudAlert, FraudInv, FraudTables
  <1>2. reviewed \in SUBSET reviewed' /\ reviewed' \in SUBSET AlertIds
    BY <1>0, <1>1 DEF FraudInv, FraudTables
  <1>3. statistics # None => statistics.pending \in Nat /\ statistics.pending <= Cardinality(reviewed')
    <2>1. Cardinality(reviewed) \in Nat /\ Cardinality(reviewed') \in Nat
          /\ Cardinality(reviewed) <= Cardinality(reviewed')
      BY <1>2, Grows
    <2> PICK p : p = statistics.pending
      OBVIOUS
    <2> QED
      BY <1>1, <2>1 DEF FraudInv, FraudTables
  <1>4. FraudTables'
    BY <1>1, <1>2, <1>3 DEF FraudInv, FraudTables, Raised
  <1> QED
    BY <1>1, <1>4, SettingsStay, AnswerFraud

LEMMA GetFraudStatsStep ==
    ASSUME Base, FraudInv, NEW q \in Requests, GetFraudStats(q)
    PROVE  FraudInv'
  <1>1. /\ UNCHANGED <<settings, alerts, banned, answered, reviewed>>
        /\ UNCHANGED <<pc, mem>> /\ statistics' = FraudStats
    BY ServePuts DEF GetFraudStats, Base
  <1> PICK P : P = {i \in Raised : alerts[i].status = "pending"}
    OBVIOUS
  <1>2. FraudStats.pending = Cardinality(P)
    BY DEF FraudStats
  <1>3. P \in SUBSET reviewed /\ reviewed \in SUBSET AlertIds
    BY DEF FraudInv, FraudTables
  <1>4. FraudStats.pending \in Nat /\ FraudStats.pending <= Cardinality(reviewed)
    BY <1>2, <1>3, Grows
  <1> PICK s : s = FraudStats
    OBVIOUS
  <1>5. FraudTables'
    BY <1>1, <1>4 DEF FraudInv, FraudTables, Raised
  <1> QED
    BY <1>1, <1>5 DEF FraudInv, SettingsThere

LEMMA FraudInterruptedStep ==
    ASSUME Base, FraudInv, NEW q \in Requests, FraudInterrupted(q)
    PROVE  FraudInv'
  <1>1. Answer(q) /\ UNCHANGED fraudVars
    BY DEF FraudInterrupted, Interrupted
  <1> QED
    BY <1>1, TablesStay, SettingsStay, AnswerFraud DEF fraudVars

LEMMA FraudNextInv == Base /\ FraudInv /\ [Next]_vars => FraudInv'
  <1> SUFFICES ASSUME Base, FraudInv, [Next]_vars PROVE FraudInv'
    OBVIOUS
  <1>1. CASE FraudStep
    <2>1. PICK q \in Requests :
             \/ PostCheck(q) \/ ReadSettings(q) \/ InsertSettings(q) \/ ApplyRules(q)
             \/ CreateFraudAlert(q) \/ CheckRateLimitingPatterns(q) \/ RateAgain(q) \/ BanPayer(q)
             \/ BanAddress(q) \/ PutSettings(q) \/ UpdateMerchantConfig(q) \/ PatchReview(q)
             \/ ReviewFraudAlert(q) \/ GetFraudStats(q) \/ FraudInterrupted(q)
      BY <1>1 DEF FraudStep, FraudNext
    <2> QED
      BY <2>1, AskStep, ReadSettingsStep, InsertSettingsStep, ApplyRulesStep, CreateFraudAlertStep,
         RatePatternsStep, RateAgainStep, BanPayerStep, BanAddressStep, UpdateMerchantConfigStep,
         PatchReviewStep, ReviewFraudAlertStep, GetFraudStatsStep, FraudInterruptedStep
  <1>2. CASE ~FraudStep
    <2>1. PerRequest' /\ UNCHANGED fraudVars /\ Apart(FraudSteps)
      BY <1>2, FraudApart
    <2> QED
      BY <2>1, FraudFrame
  <1> QED
    BY <1>1, <1>2

LEMMA FraudInvariant == Spec => []FraudInv
  BY BaseInit, BaseStep, FraudInitInv, FraudNextInv, PTL DEF Spec

\* The answers of the fraud checks agree with the alerts they raise, whatever the settings,
\* their changes and the order of the requests (FraudDetectionService.ts lines 42 to 94,
\* 408 to 455 and 568 to 646).
THEOREM ChecksAreSound == Spec => []AnswersMatchAlerts
  <1>1. FraudInv => AnswersMatchAlerts
    BY DEF FraudInv, FraudTables, AnswersMatchAlerts, Sound
  <1> QED
    BY <1>1, FraudInvariant, PTL

------------------------------------------------------------------------------
RoleSet == {Roles[n] : n \in DOMAIN Roles}
ConfigBodies == LimitBodies \cup {[isActive |-> FALSE]}
ConfigUpdates == [id : LimitIds, body : ConfigBodies]
Todos == Seq(ConfigUpdates) \ {<<>>}

\* What a request holds at each step.
Fill == [how : {"create", "answer", "initialize"}, role : RoleSet, type : Types \cup {None}, left : Seq(RoleSet)]
Ask == [bulk : BOOLEAN, todo : Todos]
Save == [bulk : BOOLEAN, todo : Todos, id : LimitIds, row : LimitRow]
Adapt == [left : Nat \ {0}]
Adapted == [left : Nat \ {0}, id : LimitIds, row : LimitRow \cup {None}]

LimitHeld(step, m) ==
    /\ step \in {"findRole", "findType"} => m \in Fill
    /\ step = "findRole" => (m.how = "initialize" => m.type \in Types)
    /\ step = "insertDefault" => m \in Fill /\ m.type \in Types
    /\ step = "findLimits" => m \in Ask
    /\ step = "saveLimits" => m \in Save /\ m.id = Head(m.todo).id
    /\ step = "findAny" => m \in Adapt
    /\ step \in {"readLimits", "saveAdjusted"} => m \in Adapted

LimitTypes ==
    /\ limits \in [LimitIds -> LimitRow \cup {None}]
    /\ asked \in [LimitIds -> Nat]
    /\ removed \subseteq Configured
    /\ made \subseteq Configured
    /\ \A q \in Requests : LimitHeld(pc[q], mem[q])

\* Two requests that save one configuration, or fill in for one role, are on record.
LimitPairs == \A q, r \in Requests : q # r =>
    /\ pc[q] \in SaveSteps /\ pc[r] \in SaveSteps /\ mem[q].id = mem[r].id => mem[q].id \in shared
    /\ pc[q] \in FillSteps /\ pc[r] \in FillSteps /\ mem[q].role = mem[r].role => mem[q].role \in crowded

\* A configuration that was deleted is not served, and its limit is within reach.
LimitRows == \A i \in Configured \ shared :
    /\ i \in removed => ~Serving(i)
    /\ WithinReach(i)

\* The row of the job.
Adjusted(row, old) ==
    row # None =>
        /\ row.minute = Lowered(old.minute)
        /\ row.isActive = old.isActive

\* A row to be saved is the stored one but for what changes unless another request is
\* about to save it too.
Ready(step, m) == step \in SaveSteps =>
    /\ m.id \in Configured
    /\ m.id \notin shared =>
          IF step = "saveLimits" THEN m.row = Assigned(limits[m.id], Head(m.todo).body)
          ELSE Adjusted(m.row, limits[m.id])
LimitSaves == \A q \in Requests : Ready(pc[q], mem[q])

Alone(role) == \A i \in made : Serving(i) => limits[i].role # role
LimitMade ==
    /\ \A i, j \in made : i # j /\ Serving(i) /\ Serving(j) /\ limits[i].role = limits[j].role =>
          limits[i].role \in crowded
    /\ \A q \in Requests : pc[q] \in FillSteps /\ mem[q].role \notin crowded => Alone(mem[q].role)

LimitInv == LimitTypes /\ LimitPairs /\ LimitRows /\ LimitSaves /\ LimitMade

LEMMA LimitInitInv == Init => LimitInv
  <1> SUFFICES ASSUME Init PROVE LimitInv
    OBVIOUS
  <1>1. \A q \in Requests : pc[q] = "idle"
    BY InitPerRequest DEF Init
  <1>2. made = {} /\ crowded = {} /\ shared = {}
    BY DEF Init, LimitInit, LimitIdle
  <1>3. CASE LimitIdle
    BY <1>1, <1>2, <1>3
       DEF LimitIdle, LimitInv, LimitTypes, LimitPairs, LimitRows, LimitSaves, LimitMade, LimitHeld, Ready,
           Configured, SaveSteps, FillSteps
  <1>4. CASE LimitInit
    <2> DEFINE j == CHOOSE j \in LimitIds : TRUE
    <2>1. \/ limits = [i \in LimitIds |-> None]
          \/ \E n \in DOMAIN Roles, minute \in {0, 11}, a \in BOOLEAN :
                limits = [i \in LimitIds |-> IF i = j
                   THEN [role |-> Roles[n], type |-> "standard", second |-> 5, minute |-> minute, isActive |-> a]
                   ELSE None]
      BY <1>4 DEF LimitInit
    <2>2. \A n \in DOMAIN Roles, minute \in {0, 11}, a \in BOOLEAN :
             [role |-> Roles[n], type |-> "standard", second |-> 5, minute |-> minute, isActive |-> a] \in LimitRow
      BY DEF LimitRow, Types
    <2>3. /\ limits \in [LimitIds -> LimitRow \cup {None}]
          /\ \A i \in Configured : limits[i] \in LimitRow /\ limits[i].minute \in {0, 11}
      BY <2>1, <2>2 DEF Configured
    <2> HIDE DEF j
    <2>4. /\ asked = [i \in LimitIds |-> IF limits[i] = None THEN 0 ELSE limits[i].minute]
          /\ removed = {i \in LimitIds : i \in Configured /\ ~Serving(i)}
      BY <1>4 DEF LimitInit
    <2>5. asked \in [LimitIds -> Nat] /\ removed \subseteq Configured
      <3>1. \A i \in LimitIds : limits[i] # None => limits[i].minute \in Nat
        BY <2>3 DEF Configured
      <3> QED
        BY <2>4, <3>1
    <2>6. LimitTypes
      BY <1>1, <1>2, <2>3, <2>5 DEF LimitTypes, LimitHeld
    <2>7. LimitRows
      BY <2>3, <2>4 DEF LimitRows, WithinReach, Configured
    <2> QED
      BY <1>1, <1>2, <2>6, <2>7
         DEF LimitInv, LimitPairs, LimitSaves, LimitMade, Ready, SaveSteps, FillSteps
  <1> QED
    BY <1>3, <1>4 DEF Init

LEMMA LimitHistoryNotes ==
    ASSUME LimitHistory
    PROVE  crowded \subseteq crowded' /\ shared \subseteq shared' /\ LimitPairs'
  <1>1. crowded \subseteq crowded' /\ shared \subseteq shared'
    BY DEF LimitHistory
  <1>2. ASSUME NEW q \in Requests, NEW r \in Requests, q # r,
               pc'[q] \in SaveSteps, pc'[r] \in SaveSteps, mem'[q].id = mem'[r].id
        PROVE  mem'[q].id \in shared'
    <2>1. mem'[q].id \in Saves(q) /\ mem'[q].id \in Saves(r)
      BY <1>2 DEF Saves
    <2>2. mem'[q].id \in InBoth(Saves)
      BY <1>2, <2>1 DEF InBoth
    <2> QED
      BY <2>2 DEF LimitHistory
  <1>3. ASSUME NEW q \in Requests, NEW r \in Requests, q # r,
               pc'[q] \in FillSteps, pc'[r] \in FillSteps, mem'[q].role = mem'[r].role
        PROVE  mem'[q].role \in crowded'
    <2>1. mem'[q].role \in Fills(q) /\ mem'[q].role \in Fills(r)
      BY <1>3 DEF Fills
    <2>2. mem'[q].role \in InBoth(Fills)
      BY <1>3, <2>1 DEF InBoth
    <2> QED
      BY <2>2 DEF LimitHistory
  <1> QED
    BY <1>1, <1>2, <1>3 DEF LimitPairs

------------------------------------------------------------------------------
\* A step after which a request holds m, and the tables are what they were.
LEMMA LimitMoves ==
    ASSUME LimitInv, NEW q \in Requests, NEW step, NEW m, Put(q, step, m),
           UNCHANGED <<limits, asked, removed, made>>, crowded \subseteq crowded', shared \subseteq shared',
           LimitPairs', LimitHeld(step, m), Ready(step, m),
           step \in FillSteps /\ m.role \notin crowded' => Alone(m.role)
    PROVE  LimitInv'
  <1>1. LimitTypes'
    BY DEF LimitInv, LimitTypes, Configured, Put
  <1>2. LimitRows'
    BY DEF LimitInv, LimitRows, Configured, Serving, WithinReach
  <1>3. LimitSaves'
    BY DEF LimitInv, LimitSaves, Ready, Configured, Put
  <1>4. LimitMade'
    BY DEF LimitInv, LimitMade, Alone, Configured, Serving, Put
  <1> QED
    BY <1>1, <1>2, <1>3, <1>4 DEF LimitInv

\* A request arrives, or goes on to a step at which it is about to write nothing.
LEMMA LimitCallStep ==
    ASSUME Base, LimitInv, NEW q \in Requests, LimitCalls(q)
    PROVE  LimitInv'
  <1>1. UNCHANGED limitVars
    BY DEF LimitCalls, GetConfigForUser, GetEffectiveLimits, InitializeDefaultConfigs, PutConfig,
           BulkUpdateConfigs, DeleteConfig, AdjustLimits
  <1>2. ASSUME NEW step \in {"findRole", "findLimits", "findAny"}, NEW m,
               Receive(q, "limits", step, m), LimitHeld(step, m)
        PROVE  LimitInv'
    <2>1. Put(q, step, m)
      BY <1>2, ReceivePuts DEF Base
    <2>2. LimitPairs'
      BY <1>1, <2>1 DEF LimitInv, LimitPairs, Put, SaveSteps, FillSteps, limitVars
    <2> QED
      BY <1>1, <1>2, <2>1, <2>2, LimitMoves DEF Ready, SaveSteps, FillSteps, limitVars
  <1>3. CASE GetConfigForUser(q) \/ GetEffectiveLimits(q)
    <2>1. PICK n \in DOMAIN Roles, how \in {"create", "answer"} :
             Receive(q, "limits", "findRole", [how |-> how, role |-> Roles[n], type |-> None, left |-> <<>>])
      BY <1>3 DEF GetConfigForUser, GetEffectiveLimits
    <2> PICK m : m = [how |-> how, role |-> Roles[n], type |-> None, left |-> <<>>]
      OBVIOUS
    <2>2. m \in Fill /\ m.how # "initialize"
      BY DEF Fill, RoleSet
    <2> QED
      BY <1>2, <2>1, <2>2 DEF LimitHeld
  <1>4. CASE InitializeDefaultConfigs(q)
    <2>1. PICK name \in MerchantNames : Receive(q, "limits", "findRole",
             [how |-> "initialize", role |-> Head(Roles), type |-> DetermineMerchantType(name),
              left |-> Tail(Roles)])
      BY <1>4 DEF InitializeDefaultConfigs
    <2>2. DetermineMerchantType(name) \in Types
      BY DEF DetermineMerchantType, Types
    <2>3. Roles \in Seq(RoleSet) /\ Roles # <<>>
      BY LimitAssumption DEF RoleSet
    <2>4. Head(Roles) \in RoleSet /\ Tail(Roles) \in Seq(RoleSet)
      BY <2>3
    <2> PICK m : m = [how |-> "initialize", role |-> Head(Roles), type |-> DetermineMerchantType(name),
                      left |-> Tail(Roles)]
      OBVIOUS
    <2>5. m \in Fill /\ m.type \in Types
      BY <2>2, <2>4 DEF Fill
    <2> QED
      BY <1>2, <2>1, <2>5 DEF LimitHeld
  <1>5. CASE PutConfig(q) \/ DeleteConfig(q)
    <2>1. PICK u \in ConfigUpdates : Receive(q, "limits", "findLimits", [bulk |-> FALSE, todo |-> <<u>>])
      <3>1. CASE PutConfig(q)
        BY <3>1 DEF PutConfig, Updates, ConfigUpdates, ConfigBodies
      <3>2. CASE DeleteConfig(q)
        <4>1. PICK i \in LimitIds : Receive(q, "limits", "findLimits", [bulk |-> FALSE,
                 todo |-> <<[id |-> i, body |-> [isActive |-> FALSE]]>>])
          BY <3>2 DEF DeleteConfig
        <4>2. [id |-> i, body |-> [isActive |-> FALSE]] \in ConfigUpdates
          BY DEF ConfigUpdates, ConfigBodies
        <4> QED
          BY <4>1, <4>2
      <3> QED
        BY <1>5, <3>1, <3>2
    <2>2. <<u>> \in Todos
      BY DEF Todos
    <2> QED
      BY <1>2, <2>1, <2>2 DEF LimitHeld, Ask
  <1>6. CASE BulkUpdateConfigs(q)
    <2>1. PICK u \in Updates, v \in Updates :
             Receive(q, "limits", "findLimits", [bulk |-> TRUE, todo |-> <<u, v>>])
      BY <1>6 DEF BulkUpdateConfigs
    <2>2. u \in ConfigUpdates /\ v \in ConfigUpdates
      BY DEF Updates, ConfigUpdates, ConfigBodies
    <2>3. <<u, v>> \in Todos
      BY <2>2 DEF Todos
    <2> QED
      BY <1>2, <2>1, <2>3 DEF LimitHeld, Ask
  <1>7. CASE AdjustLimits(q)
    BY <1>2, <1>7 DEF AdjustLimits, LimitHeld, Adapt
  <1> QED
    BY <1>3, <1>4, <1>5, <1>6, <1>7 DEF LimitCalls

\* Where a request goes when it is done with a role, a change or an endpoint.
Free == {"idle", "findRole", "findLimits", "findAny"}

LEMMA NextRolePuts ==
    ASSUME Base, NEW q \in Requests, mem[q] \in Fill, mem[q].how = "initialize" => mem[q].type \in Types, NextRole(q)
    PROVE  \E step \in Free : \E m : Put(q, step, m) /\ LimitHeld(step, m)
  <1>1. CASE mem[q].left = <<>>
    BY <1>1, AnswerPuts DEF NextRole, Base, Free, LimitHeld
  <1>2. CASE mem[q].left # <<>>
    <2> DEFINE m == [mem[q] EXCEPT !.role = Head(mem[q].left), !.left = Tail(mem[q].left)]
    <2>1. Put(q, "findRole", m)
      BY <1>2, GotoPuts DEF NextRole, Base
    <2>2. Head(mem[q].left) \in RoleSet /\ Tail(mem[q].left) \in Seq(RoleSet)
      BY <1>2 DEF Fill
    <2>3. m \in Fill /\ m.how = mem[q].how /\ m.type = mem[q].type
      BY <2>2 DEF Fill
    <2> QED
      BY <2>1, <2>3 DEF Free, LimitHeld
  <1> QED
    BY <1>1, <1>2

LEMMA NextUpdatePuts ==
    ASSUME Base, NEW q \in Requests, mem[q] \in Ask \cup Save, NextUpdate(q)
    PROVE  \E step \in Free : \E m : Put(q, step, m) /\ LimitHeld(step, m)
  <1> DEFINE left == Tail(mem[q].todo)
  <1>1. mem[q].bulk \in BOOLEAN /\ left \in Seq(ConfigUpdates)
    BY DEF Ask, Save, Todos
  <1>2. CASE left = <<>>
    BY <1>2, AnswerPuts DEF NextUpdate, Base, Free, LimitHeld
  <1>3. CASE left # <<>>
    <2>1. Put(q, "findLimits", [bulk |-> mem[q].bulk, todo |-> left])
      BY <1>3, GotoPuts DEF NextUpdate, Base
    <2>2. [bulk |-> mem[q].bulk, todo |-> left] \in Ask
      BY <1>1, <1>3 DEF Ask, Todos
    <2> QED
      BY <2>1, <2>2 DEF Free, LimitHeld
  <1> QED
    BY <1>2, <1>3

LEMMA NextEndpointPuts ==
    ASSUME Base, NEW q \in Requests, mem[q] \in Adapt \cup Adapted, NextEndpoint(q)
    PROVE  \E step \in Free : \E m : Put(q, step, m) /\ LimitHeld(step, m)
  <1>1. mem[q].left \in Nat \ {0}
    BY DEF Adapt, Adapted
  <1>2. CASE mem[q].left = 1
    BY <1>2, AnswerPuts DEF NextEndpoint, Base, Free, LimitHeld
  <1>3. CASE mem[q].left # 1
    <2>1. Put(q, "findAny", [left |-> mem[q].left - 1])
      BY <1>3, GotoPuts DEF NextEndpoint, Base
    <2>2. [left |-> mem[q].left - 1] \in Adapt
      BY <1>1, <1>3 DEF Adapt
    <2> QED
      BY <2>1, <2>2 DEF Free, LimitHeld
  <1> QED
    BY <1>2, <1>3

------------------------------------------------------------------------------
\* A step that leaves the tables alone and takes the request where it writes nothing.
LEMMA LimitFreeStep ==
    ASSUME LimitInv, NEW q \in Requests, UNCHANGED <<limits, asked, removed, made>>, LimitHistory,
           \E step \in Free : \E m : Put(q, step, m) /\ LimitHeld(step, m)
    PROVE  LimitInv'
  <1> PICK step, m : step \in Free /\ Put(q, step, m) /\ LimitHeld(step, m)
    OBVIOUS
  <1>1. step \notin SaveSteps /\ step \notin FillSteps
    BY DEF Free, SaveSteps, FillSteps
  <1> QED
    BY <1>1, LimitHistoryNotes, LimitMoves DEF Ready

LEMMA AnswerFree ==
    ASSUME Base, NEW q \in Requests, Answer(q)
    PROVE  \E step \in Free : \E m : Put(q, step, m) /\ LimitHeld(step, m)
  BY AnswerPuts DEF Base, Free, LimitHeld

LEMMA FindRoleStep ==
    ASSUME Base, LimitInv, NEW q \in Requests, FindRole(q), LimitHistory
    PROVE  LimitInv'
  <1>1. UNCHANGED <<limits, asked, removed, made>> /\ pc[q] = "findRole"
    BY DEF FindRole, At
  <1>2. mem[q] \in Fill /\ (mem[q].how = "initialize" => mem[q].type \in Types)
    BY <1>1 DEF LimitInv, LimitTypes, LimitHeld
  <1>3. CASE NextRole(q)
    BY <1>1, <1>2, <1>3, NextRolePuts, LimitFreeStep
  <1>4. CASE ~NextRole(q)
    <2> PICK step : step = IF mem[q].how = "initialize" THEN "insertDefault" ELSE "findType"
      OBVIOUS
    <2>1. Put(q, step, mem[q]) /\ step \in FillSteps
      BY <1>4, GotoPuts DEF FindRole, Base, FillSteps
    <2>2. Alone(mem[q].role)
      BY <1>4 DEF FindRole, Alone, LimitInv, LimitTypes
    <2>3. LimitHeld(step, mem[q])
      BY <1>2 DEF LimitHeld
    <2>4. Ready(step, mem[q])
      BY DEF Ready, SaveSteps
    <2> QED
      BY <1>1, <2>1, <2>2, <2>3, <2>4, LimitHistoryNotes, LimitMoves
  <1> QED
    BY <1>3, <1>4

LEMMA FindMerchantTypeStep ==
    ASSUME Base, LimitInv, NEW q \in Requests, FindMerchantType(q), LimitHistory
    PROVE  LimitInv'
  <1>1. UNCHANGED <<limits, asked, removed, made>> /\ pc[q] = "findType"
    BY DEF FindMerchantType, At
  <1>2. mem[q] \in Fill
    BY <1>1 DEF LimitInv, LimitTypes, LimitHeld
  <1>3. CASE Answer(q)
    BY <1>1, <1>3, AnswerFree, LimitFreeStep
  <1>4. CASE ~Answer(q)
    <2>1. PICK name \in MerchantNames :
             Goto(q, "insertDefault", [mem[q] EXCEPT !.type = DetermineMerchantType(name)])
      BY <1>4 DEF FindMerchantType
    <2> PICK type : type = DetermineMerchantType(name)
      OBVIOUS
    <2> PICK m : m = [mem[q] EXCEPT !.type = type]
      OBVIOUS
    <2>2. Put(q, "insertDefault", m)
      BY <2>1, GotoPuts DEF Base
    <2>3. type \in Types
      BY DEF DetermineMerchantType, Types
    <2>4. LimitHeld("insertDefault", m) /\ m.role = mem[q].role
      BY <1>2, <2>3 DEF Fill, LimitHeld
    <2>5. m.role \notin crowded' => Alone(m.role)
      BY <1>1, <2>4, LimitHistoryNotes DEF LimitInv, LimitMade, FillSteps
    <2>6. Ready("insertDefault", m)
      BY DEF Ready, SaveSteps
    <2> QED
      BY <1>1, <2>2, <2>4, <2>5, <2>6, LimitHistoryNotes, LimitMoves
  <1> QED
    BY <1>3, <1>4

\* A row of an id that had none.
LEMMA LimitCreated ==
    ASSUME LimitInv, NEW q \in Requests, NEW i \in LimitIds \ Configured, NEW row \in LimitRow, Insert(i, row),
           UNCHANGED removed,
           \/ made' = made
           \/ made' = made \cup {i} /\ \A j \in made : Serving(j) /\ limits[j].role = row.role => row.role \in crowded,
           \A r \in Requests : r # q /\ pc[r] \in FillSteps /\ mem[r].role = row.role /\ made' # made =>
              row.role \in crowded,
           \E step \in Free : \E m : Put(q, step, m) /\ LimitHeld(step, m),
           LimitHistory
    PROVE  LimitInv'
  <1> PICK step, m : step \in Free /\ Put(q, step, m) /\ LimitHeld(step, m)
    OBVIOUS
  <1>1. step \notin SaveSteps /\ step \notin FillSteps
    BY DEF Free, SaveSteps, FillSteps
  <1>2. crowded \subseteq crowded' /\ shared \subseteq shared' /\ LimitPairs'
    BY LimitHistoryNotes
  <1>3. /\ limits' = [limits EXCEPT ![i] = row] /\ limits \in [LimitIds -> LimitRow \cup {None}]
        /\ asked' = [asked EXCEPT ![i] = row.minute] /\ asked \in [LimitIds -> Nat]
        /\ row.minute \in Nat /\ row # None
        /\ Configured' = Configured \cup {i} /\ removed \subseteq Configured /\ made \subseteq Configured
    BY LimitAssumption DEF Insert, LimitInv, LimitTypes, LimitRow, Configured
  <1>4. LimitTypes'
    BY <1>3 DEF LimitInv, LimitTypes, Put
  <1>5. LimitRows'
    BY <1>2, <1>3 DEF LimitInv, LimitRows, Serving, WithinReach
  <1>6. LimitSaves'
    BY <1>1, <1>2, <1>3 DEF LimitInv, LimitSaves, Ready, Put
  <1>7. LimitMade'
    <2>1. \A j \in Configured : limits'[j] = limits[j] /\ j # i /\ (Serving(j))' = Serving(j)
      BY <1>3 DEF Configured, Serving
    <2>2. limits'[i] = row
      BY <1>3
    <2>3. \A j, k \in made' : j # k /\ Serving(j)' /\ Serving(k)' /\ limits'[j].role = limits'[k].role =>
             limits'[j].role \in crowded'
      BY <1>2, <1>3, <2>1, <2>2 DEF LimitInv, LimitMade
    <2>4. \A r \in Requests : pc'[r] \in FillSteps /\ mem'[r].role \notin crowded' => Alone(mem[r].role)'
      BY <1>1, <1>2, <1>3, <2>1, <2>2 DEF LimitInv, LimitMade, Alone, Put
    <2> QED
      BY <2>3, <2>4 DEF LimitMade
  <1> QED
    BY <1>2, <1>4, <1>5, <1>6, <1>7 DEF LimitInv

LEMMA DefaultIsTier ==
    ASSUME NEW role, NEW type \in Types
    PROVE  DefaultLimits(role, type).second \in Nat /\ DefaultLimits(role, type).minute \in Nat
  BY DEF DefaultLimits, Tiers, Types

LEMMA InsertDefaultStep ==
    ASSUME Base, LimitInv, NEW q \in Requests, InsertDefault(q), LimitHistory
    PROVE  LimitInv'
  <1>1. pc[q] = "insertDefault" /\ UNCHANGED removed /\ NextRole(q)
    BY DEF InsertDefault, At
  <1>2. mem[q] \in Fill /\ mem[q].type \in Types
    BY <1>1 DEF LimitInv, LimitTypes, LimitHeld
  <1> PICK new : new = DefaultLimits(mem[q].role, mem[q].type)
    OBVIOUS
  <1> PICK row : row = [role |-> mem[q].role, type |-> mem[q].type, second |-> new.second,
                        minute |-> new.minute, isActive |-> TRUE]
    OBVIOUS
  <1>3. PICK i \in LimitIds \ Configured : Insert(i, row) /\ made' = made \cup {i}
    BY DEF InsertDefault
  <1>4. row \in LimitRow /\ row.role = mem[q].role
    <2>1. new.second \in Nat /\ new.minute \in Nat
      BY <1>2, DefaultIsTier
    <2> QED
      BY <1>2, <2>1 DEF LimitRow, Fill, RoleSet
  <1>5. \A j \in made : Serving(j) /\ limits[j].role = row.role => row.role \in crowded
    BY <1>1, <1>4 DEF LimitInv, LimitMade, Alone, FillSteps
  <1>6. \A r \in Requests : r # q /\ pc[r] \in FillSteps /\ mem[r].role = row.role => row.role \in crowded
    BY <1>1, <1>4 DEF LimitInv, LimitPairs, FillSteps
  <1>7. \E step \in Free : \E m : Put(q, step, m) /\ LimitHeld(step, m)
    BY <1>1, <1>2, NextRolePuts
  <1> QED
    BY <1>1, <1>3, <1>4, <1>5, <1>6, <1>7, LimitCreated

LEMMA CreateConfigStep ==
    ASSUME Base, LimitInv, NEW q \in Requests, CreateConfig(q), LimitHistory
    PROVE  LimitInv'
  <1>1. Put(q, pc[q], mem[q]) /\ pc[q] = "idle" /\ UNCHANGED <<removed, made>>
    BY ServePuts DEF CreateConfig, Base
  <1>2. PICK i \in LimitIds \ Configured, body \in LimitBodies : Insert(i, Assigned(NewRow, body))
    BY DEF CreateConfig
  <1> PICK row : row = Assigned(NewRow, body)
    OBVIOUS
  <1>3. row \in LimitRow /\ Insert(i, row)
    BY <1>2, LimitAssumption
  <1>4. \E step \in Free : \E m : Put(q, step, m) /\ LimitHeld(step, m)
    BY <1>1 DEF Free, LimitHeld
  <1> QED
    BY <1>1, <1>3, <1>4, LimitCreated

------------------------------------------------------------------------------
LEMMA MergedRow ==
    ASSUME NEW row \in LimitRow, NEW body \in ConfigBodies
    PROVE  /\ Assigned(row, body) \in LimitRow
           /\ "isActive" \notin DOMAIN body => Assigned(row, body).isActive = row.isActive
           /\ "isActive" \in DOMAIN body => Assigned(row, body).isActive = body.isActive /\ body.isActive \in BOOLEAN
  <1>1. Assigned(NewRow, body) \in LimitRow
    <2>1. CASE body \in LimitBodies
      BY <2>1, LimitAssumption
    <2>2. CASE body = [isActive |-> FALSE]
      BY <2>2 DEF Assigned, NewRow, LimitRow, Types
    <2> QED
      BY <2>1, <2>2 DEF ConfigBodies
  <1> QED
    BY <1>1 DEF Assigned, NewRow, LimitRow

LEMMA FindConfigStep ==
    ASSUME Base, LimitInv, NEW q \in Requests, FindConfig(q), LimitHistory
    PROVE  LimitInv'
  <1> PICK u : u = Head(mem[q].todo)
    OBVIOUS
  <1>1. UNCHANGED <<limits, asked, removed, made>> /\ pc[q] = "findLimits"
    BY DEF FindConfig, At
  <1>2. mem[q] \in Ask
    BY <1>1 DEF LimitInv, LimitTypes, LimitHeld
  <1>3. u \in ConfigUpdates
    BY <1>2 DEF Ask, Todos
  <1>4. CASE NextUpdate(q)
    BY <1>1, <1>2, <1>4, NextUpdatePuts, LimitFreeStep
  <1>5. CASE ~NextUpdate(q)
    <2> PICK row : row = Assigned(limits[u.id], u.body)
      OBVIOUS
    <2> PICK m : m = [bulk |-> mem[q].bulk, todo |-> mem[q].todo, id |-> u.id, row |-> row]
      OBVIOUS
    <2>1. u.id \in Configured /\ Goto(q, "saveLimits", m)
      BY <1>5 DEF FindConfig
    <2>2. limits[u.id] \in LimitRow /\ u.body \in ConfigBodies
      BY <1>3, <2>1 DEF LimitInv, LimitTypes, Configured, ConfigUpdates
    <2>3. row \in LimitRow
      BY <2>2, MergedRow
    <2>4. m \in Save /\ m.id = u.id /\ m.row = row /\ m.todo = mem[q].todo
      BY <1>2, <1>3, <2>3 DEF Ask, Save, ConfigUpdates
    <2>5. LimitHeld("saveLimits", m) /\ Ready("saveLimits", m)
      BY <2>1, <2>3, <2>4 DEF LimitHeld, Ready
    <2>6. Put(q, "saveLimits", m)
      BY <2>1, GotoPuts DEF Base
    <2> QED
      BY <1>1, <2>5, <2>6, LimitHistoryNotes, LimitMoves DEF FillSteps
  <1> QED
    BY <1>4, <1>5

LEMMA UpdateFailsStep ==
    ASSUME Base, LimitInv, NEW q \in Requests, UpdateFails(q), LimitHistory
    PROVE  LimitInv'
  <1>1. UNCHANGED <<limits, asked, removed, made>> /\ pc[q] \in {"findLimits", "saveLimits"} /\ NextUpdate(q)
    BY DEF UpdateFails
  <1>2. mem[q] \in Ask \cup Save
    BY <1>1 DEF LimitInv, LimitTypes, LimitHeld
  <1> QED
    BY <1>1, <1>2, NextUpdatePuts, LimitFreeStep

\* A row of an id that had one is replaced.
LEMMA LimitReplaced ==
    ASSUME LimitInv, NEW q \in Requests, pc[q] \in SaveSteps, NEW i \in Configured, i = mem[q].id,
           NEW row \in LimitRow,
           limits' = [limits EXCEPT ![i] = row], asked' \in [LimitIds -> Nat],
           \A j \in LimitIds \ {i} : asked'[j] = asked[j] /\ (j \in removed' <=> j \in removed),
           removed' \subseteq Configured, made' = MadeStill(i, row),
           i \notin shared' => (i \in removed' => ~row.isActive) /\ WithinReach(i)',
           \E step \in Free : \E m : Put(q, step, m) /\ LimitHeld(step, m),
           LimitHistory
    PROVE  LimitInv'
  <1> PICK step, m : step \in Free /\ Put(q, step, m) /\ LimitHeld(step, m)
    OBVIOUS
  <1>1. step \notin SaveSteps /\ step \notin FillSteps
    BY DEF Free, SaveSteps, FillSteps
  <1>2. crowded \subseteq crowded' /\ shared \subseteq shared' /\ LimitPairs'
    BY LimitHistoryNotes
  <1>3. /\ limits \in [LimitIds -> LimitRow \cup {None}] /\ i \in LimitIds
        /\ row # None /\ limits[i] # None /\ limits'[i] = row
        /\ \A j \in LimitIds \ {i} : limits'[j] = limits[j]
        /\ Configured' = Configured /\ made' \subseteq made /\ made \subseteq Configured
    BY LimitAssumption DEF LimitInv, LimitTypes, Configured, MadeStill
  <1>4. LimitTypes'
    BY <1>3 DEF LimitInv, LimitTypes, Put
  <1>5. LimitRows'
    <2> SUFFICES ASSUME NEW j \in Configured, j \notin shared', j # i
                 PROVE  (j \in removed' => ~Serving(j)') /\ WithinReach(j)'
      BY <1>3 DEF LimitRows, Serving
    <2> QED
      BY <1>2, <1>3 DEF LimitInv, LimitRows, Serving, WithinReach, Configured
  <1>6. LimitSaves'
    <2> SUFFICES ASSUME NEW r \in Requests, r # q, pc'[r] \in SaveSteps PROVE Ready(pc[r], mem[r])'
      BY <1>1 DEF LimitSaves, Ready, Put
    <2>1. pc'[r] = pc[r] /\ mem'[r] = mem[r] /\ Ready(pc[r], mem[r])
      BY DEF Put, LimitInv, LimitSaves
    <2>2. mem[r].id = i => i \in shared'
      BY <1>2, <2>1 DEF LimitInv, LimitPairs
    <2>3. mem[r].id \in Configured
      BY <2>1 DEF Ready
    <2> QED
      BY <1>2, <1>3, <2>1, <2>2, <2>3 DEF Ready, Configured
  <1>7. LimitMade'
    <2>1. \A j \in made' : limits'[j].role = limits[j].role /\ (Serving(j)' => Serving(j))
      BY <1>3 DEF MadeStill, Serving, Configured
    <2>2. \A j, k \in made' : j # k /\ Serving(j)' /\ Serving(k)' /\ limits'[j].role = limits'[k].role =>
             limits'[j].role \in crowded'
      BY <1>2, <1>3, <2>1 DEF LimitInv, LimitMade
    <2>3. \A r \in Requests : pc'[r] \in FillSteps /\ mem'[r].role \notin crowded' => Alone(mem[r].role)'
      BY <1>1, <1>2, <1>3, <2>1 DEF LimitInv, LimitMade, Alone, Put
    <2> QED
      BY <2>2, <2>3 DEF LimitMade
  <1> QED
    BY <1>2, <1>4, <1>5, <1>6, <1>7 DEF LimitInv

LEMMA SaveConfigStep ==
    ASSUME Base, LimitInv, NEW q \in Requests, SaveConfig(q), LimitHistory
    PROVE  LimitInv'
  <1> PICK i : i = mem[q].id
    OBVIOUS
  <1> PICK row : row = mem[q].row
    OBVIOUS
  <1> PICK body : body = Head(mem[q].todo).body
    OBVIOUS
  <1>1. /\ pc[q] = "saveLimits" /\ NextUpdate(q) /\ made' = MadeStill(i, row)
        /\ limits' = [limits EXCEPT ![i] = row] /\ asked' = [asked EXCEPT ![i] = row.minute]
        /\ removed' = CASE "isActive" \notin DOMAIN body -> removed
                        [] "isActive" \in DOMAIN body /\ body.isActive -> removed \ {i}
                        [] OTHER -> removed \cup {i}
    BY DEF SaveConfig, At, Insert
  <1>2. mem[q] \in Save /\ i \in LimitIds /\ row \in LimitRow
    BY <1>1 DEF LimitInv, LimitTypes, LimitHeld, Save
  <1>3. body \in ConfigBodies
    <2>1. mem[q].todo \in Seq(ConfigUpdates) /\ mem[q].todo # <<>>
      BY <1>2 DEF Save, Todos
    <2>2. Head(mem[q].todo) \in ConfigUpdates
      BY <2>1
    <2> QED
      BY <2>2 DEF ConfigUpdates
  <1>4. i \in Configured
    BY <1>1 DEF LimitInv, LimitSaves, Ready, SaveSteps
  <1>5. i \notin shared => row = Assigned(limits[i], body)
    BY <1>1 DEF LimitInv, LimitSaves, Ready, SaveSteps
  <1>6. limits \in [LimitIds -> LimitRow \cup {None}] /\ limits[i] \in LimitRow /\ removed \subseteq Configured
    BY <1>4 DEF LimitInv, LimitTypes, Configured
  <1>7. row.minute \in Nat /\ asked \in [LimitIds -> Nat]
    BY <1>2 DEF LimitRow, LimitInv, LimitTypes
  <1>8. removed' \subseteq removed \cup {i}
        /\ \A j \in LimitIds \ {i} : asked'[j] = asked[j] /\ (j \in removed' <=> j \in removed)
    BY <1>1, <1>7
  <1>9. asked' \in [LimitIds -> Nat] /\ asked'[i] = row.minute /\ limits'[i] = row
    BY <1>1, <1>2, <1>6, <1>7
  <1>10. WithinReach(i)'
    BY <1>7, <1>9 DEF WithinReach
  <1>11. i \notin shared' => (i \in removed' => ~row.isActive)
    <2> SUFFICES ASSUME i \notin shared', i \in removed' PROVE ~row.isActive
      OBVIOUS
    <2>1. i \notin shared /\ row = Assigned(limits[i], body)
      BY <1>5, LimitHistoryNotes
    <2>2. CASE "isActive" \notin DOMAIN body
      <3>1. i \in removed /\ row.isActive = limits[i].isActive
        BY <1>1, <1>3, <1>6, <2>1, <2>2, MergedRow
      <3> QED
        BY <1>4, <2>1, <3>1 DEF LimitInv, LimitRows, Serving
    <2>3. CASE "isActive" \in DOMAIN body /\ body.isActive
      BY <1>1, <2>3
    <2>4. CASE "isActive" \in DOMAIN body /\ ~body.isActive
      BY <1>3, <1>6, <2>1, <2>4, MergedRow
    <2> QED
      BY <2>2, <2>3, <2>4
  <1>12. \E step \in Free : \E m : Put(q, step, m) /\ LimitHeld(step, m)
    BY <1>1, <1>2, NextUpdatePuts
  <1>13. pc[q] \in SaveSteps /\ removed' \subseteq Configured
    BY <1>1, <1>4, <1>6, <1>8 DEF SaveSteps
  <1> QED
    BY <1>1, <1>2, <1>4, <1>8, <1>9, <1>10, <1>11, <1>12, <1>13, LimitReplaced

LEMMA LimitInterruptedStep ==
    ASSUME Base, LimitInv, NEW q \in Requests, LimitInterrupted(q)
    PROVE  LimitInv'
  <1>1. Put(q, "idle", NoMemory) /\ UNCHANGED limitVars
    BY InterruptedPuts DEF LimitInterrupted, Base
  <1>2. LimitPairs'
    BY <1>1 DEF LimitInv, LimitPairs, Put, SaveSteps, FillSteps, limitVars
  <1>3. LimitHeld("idle", NoMemory) /\ Ready("idle", NoMemory) /\ "idle" \notin FillSteps
    BY DEF LimitHeld, Ready, SaveSteps, FillSteps
  <1> QED
    BY <1>1, <1>2, <1>3, LimitMoves DEF limitVars

------------------------------------------------------------------------------
LEMMA LoweredReaches ==
    ASSUME NEW n \in Nat
    PROVE  /\ Lowered(n) \in Nat
           /\ \A a \in Nat : n \in 10 .. a \/ n \in a .. 10 => Lowered(n) \in 10 .. a \/ Lowered(n) \in a .. 10
  <1> PICK m \in Int : m = (95 * n) \div 100
    OBVIOUS
  <1>1. m >= 0 /\ m <= n
    OBVIOUS
  <1>2. Lowered(n) = IF m < 10 THEN 10 ELSE m
    BY DEF Lowered, AtLeast
  <1> QED
    BY <1>1, <1>2

LEMMA ProportionIsNat ==
    ASSUME NEW n \in Nat, NEW new \in Nat, NEW old \in Nat \ {0}
    PROVE  InProportion(n, new, old) \in Nat
  <1>1. n * new + old - 1 \in Int
    OBVIOUS
  <1>2. (n * new + old - 1) \div old \in Int
    BY <1>1
  <1> QED
    BY <1>2 DEF InProportion, AtLeast

LEMMA FindAnyConfigStep ==
    ASSUME Base, LimitInv, NEW q \in Requests, FindAnyConfig(q), LimitHistory
    PROVE  LimitInv'
  <1>1. UNCHANGED <<limits, asked, removed, made>> /\ pc[q] = "findAny"
    BY DEF FindAnyConfig, At
  <1>2. mem[q] \in Adapt
    BY <1>1 DEF LimitInv, LimitTypes, LimitHeld
  <1>3. CASE NextEndpoint(q)
    BY <1>1, <1>2, <1>3, NextEndpointPuts, LimitFreeStep
  <1>4. CASE ~NextEndpoint(q)
    <2>1. PICK i \in Configured : Goto(q, "readLimits", [left |-> mem[q].left, id |-> i, row |->
                 IF limits[i].minute = 0 THEN None ELSE
                 [limits[i] EXCEPT !.minute = Lowered(limits[i].minute),
                                   !.second = InProportion(@, Lowered(limits[i].minute), limits[i].minute)]])
      BY <1>4 DEF FindAnyConfig
    <2> PICK old : old = limits[i]
      OBVIOUS
    <2> PICK new : new = Lowered(old.minute)
      OBVIOUS
    <2> PICK row : row = IF old.minute = 0 THEN None
                         ELSE [old EXCEPT !.minute = new, !.second = InProportion(@, new, old.minute)]
      OBVIOUS
    <2> PICK m : m = [left |-> mem[q].left, id |-> i, row |-> row]
      OBVIOUS
    <2>2. Put(q, "readLimits", m)
      BY <2>1, GotoPuts DEF Base
    <2>3. old \in LimitRow
      BY DEF LimitInv, LimitTypes, Configured
    <2>4. old.minute \in Nat /\ old.second \in Nat /\ new \in Nat
      BY <2>3, LoweredReaches DEF LimitRow
    <2>5. row # None => row \in LimitRow /\ row.role = old.role /\ row.minute = new /\ row.isActive = old.isActive
      <3>1. CASE old.minute = 0
        BY <3>1
      <3>2. CASE old.minute # 0
        <4>1. InProportion(old.second, new, old.minute) \in Nat
          BY <2>4, <3>2, ProportionIsNat
        <4>2. row = [old EXCEPT !.minute = new, !.second = InProportion(old.second, new, old.minute)]
          BY <2>3, <3>2 DEF LimitRow
        <4> QED
          BY <2>3, <2>4, <4>1, <4>2 DEF LimitRow
      <3> QED
        BY <3>1, <3>2
    <2>6. m \in Adapted /\ m.id = i /\ m.row = row
      BY <1>2, <2>5 DEF Adapt, Adapted, Configured
    <2>7. LimitHeld("readLimits", m) /\ Ready("readLimits", m)
      BY <2>5, <2>6 DEF LimitHeld, Ready, Adjusted
    <2> QED
      BY <1>1, <2>2, <2>7, LimitHistoryNotes, LimitMoves DEF FillSteps
  <1> QED
    BY <1>3, <1>4

LEMMA ReadConfigAgainStep ==
    ASSUME Base, LimitInv, NEW q \in Requests, ReadConfigAgain(q), LimitHistory
    PROVE  LimitInv'
  <1>1. UNCHANGED <<limits, asked, removed, made>> /\ pc[q] = "readLimits"
    BY DEF ReadConfigAgain, At
  <1>2. Put(q, "saveAdjusted", mem[q])
    BY GotoPuts DEF ReadConfigAgain, Base
  <1>3. LimitHeld("saveAdjusted", mem[q])
    BY <1>1 DEF LimitInv, LimitTypes, LimitHeld
  <1>4. Ready("saveAdjusted", mem[q])
    BY <1>1 DEF LimitInv, LimitSaves, Ready, SaveSteps
  <1> QED
    BY <1>1, <1>2, <1>3, <1>4, LimitHistoryNotes, LimitMoves DEF FillSteps

LEMMA SaveAdjustedStep ==
    ASSUME Base, LimitInv, NEW q \in Requests, SaveAdjusted(q), LimitHistory
    PROVE  LimitInv'
  <1> PICK i : i = mem[q].id
    OBVIOUS
  <1> PICK row : row = mem[q].row
    OBVIOUS
  <1>1. pc[q] = "saveAdjusted" /\ UNCHANGED <<asked, removed>>
    BY DEF SaveAdjusted, At
  <1>2. mem[q] \in Adapted /\ i \in LimitIds
    BY <1>1 DEF LimitInv, LimitTypes, LimitHeld, Adapted
  <1>3. CASE row = None
    BY <1>1, <1>3, AnswerFree, LimitFreeStep DEF SaveAdjusted
  <1>4. CASE row # None
    <2>1. limits' = [limits EXCEPT ![i] = row] /\ made' = MadeStill(i, row) /\ NextEndpoint(q)
      BY <1>4 DEF SaveAdjusted
    <2>2. row \in LimitRow
      BY <1>2, <1>4 DEF Adapted
    <2>3. /\ pc[q] \in SaveSteps /\ i \in Configured
          /\ i \notin shared => row.minute = Lowered(limits[i].minute) /\ row.isActive = limits[i].isActive
      BY <1>1, <1>4 DEF LimitInv, LimitSaves, Ready, Adjusted, SaveSteps
    <2>4. /\ limits[i] \in LimitRow /\ limits'[i] = row /\ asked \in [LimitIds -> Nat]
          /\ removed \subseteq Configured
      BY <1>2, <2>1, <2>3 DEF LimitInv, LimitTypes, Configured
    <2>5. limits[i].minute \in Nat /\ asked[i] \in Nat
      BY <1>2, <2>4 DEF LimitRow
    <2>6. i \notin shared' => (i \in removed' => ~row.isActive) /\ WithinReach(i)'
      <3> SUFFICES ASSUME i \notin shared' PROVE (i \in removed => ~row.isActive) /\ WithinReach(i)'
        BY <1>1
      <3>1. i \notin shared
        BY LimitHistoryNotes
      <3>2. (i \in removed => ~Serving(i)) /\ WithinReach(i)
        BY <2>3, <3>1 DEF LimitInv, LimitRows
      <3>3. row.minute \in 10 .. asked[i] \/ row.minute \in asked[i] .. 10
        BY <2>3, <2>5, <3>1, <3>2, LoweredReaches DEF WithinReach
      <3> QED
        BY <1>1, <2>3, <2>4, <3>1, <3>2, <3>3 DEF Serving, WithinReach
    <2>7. \E step \in Free : \E m : Put(q, step, m) /\ LimitHeld(step, m)
      BY <1>2, <2>1, NextEndpointPuts
    <2> QED
      BY <1>1, <2>1, <2>2, <2>3, <2>4, <2>6, <2>7, LimitReplaced
  <1> QED
    BY <1>3, <1>4

LEMMA LimitNextInv == Base /\ LimitInv /\ [Next]_vars => LimitInv'
  <1> SUFFICES ASSUME Base, LimitInv, [Next]_vars PROVE LimitInv'
    OBVIOUS
  <1>1. CASE LimitStep
    <2>1. PICK q \in Requests : LimitCalls(q) \/ (LimitAwaits(q) /\ LimitHistory) \/ LimitInterrupted(q)
      BY <1>1 DEF LimitStep, LimitNext
    <2> QED
      BY <2>1, LimitCallStep, FindRoleStep, FindMerchantTypeStep, InsertDefaultStep, CreateConfigStep,
         FindConfigStep, SaveConfigStep, UpdateFailsStep, FindAnyConfigStep, ReadConfigAgainStep,
         SaveAdjustedStep, LimitInterruptedStep
         DEF LimitAwaits
  <1>2. CASE ~LimitStep
    <2>1. UNCHANGED limitVars /\ Apart(LimitSteps)
      BY <1>2, LimitApart
    <2>2. LimitTypes'
      BY <2>1 DEF LimitInv, LimitTypes, LimitHeld, Configured, Apart, LimitSteps, FillSteps, SaveSteps, limitVars
    <2>3. LimitPairs'
      BY <2>1 DEF LimitInv, LimitPairs, Apart, LimitSteps, FillSteps, SaveSteps, limitVars
    <2>4. LimitRows'
      BY <2>1 DEF LimitInv, LimitRows, Configured, Serving, WithinReach, limitVars
    <2>5. LimitSaves'
      BY <2>1 DEF LimitInv, LimitSaves, Ready, Configured, Apart, LimitSteps, FillSteps, SaveSteps, limitVars
    <2>6. LimitMade'
      BY <2>1 DEF LimitInv, LimitMade, Alone, Serving, Configured, Apart, LimitSteps, FillSteps, SaveSteps, limitVars
    <2> QED
      BY <2>2, <2>3, <2>4, <2>5, <2>6 DEF LimitInv
  <1> QED
    BY <1>1, <1>2

LEMMA LimitInvariant == Spec => []LimitInv
  BY BaseInit, BaseStep, LimitInitInv, LimitNextInv, PTL DEF Spec

\* A deleted configuration stays deleted, the adaptation keeps a limit within reach of what
\* was asked for, and defaults double nothing, but for requests that overlapped: whatever
\* the roles, the changes asked for and the failures (rateLimitConfigService.ts lines 22 to
\* 83 and 149 to 298, adaptiveRateLimitService.ts lines 94 to 160).
THEOREM LimitsStayConfigured == Spec => []LimitsAsConfigured
  <1>1. LimitInv => LimitsAsConfigured
    BY DEF LimitInv, LimitRows, LimitMade, LimitsAsConfigured
  <1> QED
    BY <1>1, LimitInvariant, PTL

------------------------------------------------------------------------------
RowSteps == {"findReferee", "saveReferral", "findActive"}
PaySteps == {"findReward", "saveReward"}
SaveRowSteps == {"saveRewards", "saveProgram", "saveActive", "saveInactive"}

\* What a request holds at each step.
ReferralHeld(step, m) ==
    /\ step = "findCode" => m \in [user : Users]
    /\ step \in {"insertReferral", "findReferral"} => m \in [user : Users, code : Codes]
    /\ step \in RowSteps => m \in [user : Users, code : Codes, row : Referral]
    /\ step \in {"saveRewards", "saveProgram"} =>
          m \in [user : Users, code : Codes, referrer : Users, program : Programs, row : Program]
    /\ step \in PaySteps => m \in [reward : Nat]
    /\ step \in {"deactivateOthers", "updateProgram"} =>
          m \in [program : Programs, body : ProgramBodies]
    /\ step = "insertProgram" => m \in [body : Offers]
    /\ step = "getProgram" => m \in [program : Programs]
    /\ step \in {"saveActive", "saveInactive"} => m \in [program : Programs, row : Program]

ReferralTypes ==
    /\ referrals \in [Codes -> Referral \cup {None}]
    /\ programs \in [Programs -> Program \cup {None}]
    /\ rewards \in Seq(Reward) /\ receipts \in Seq(Nat) /\ Len(receipts) = Len(rewards)
    /\ signups \subseteq Codes \X Users
    /\ reshuffled \in BOOLEAN
    /\ \A q \in Requests : ReferralHeld(pc[q], mem[q])

\* Two requests at work on a code, for a user or on a reward are on record, and so are two
\* at the steps that hold programmes.
ReferralPairs == \A q, r \in Requests : q # r =>
    /\ pc[q] \in SignupSteps /\ pc[r] \in SignupSteps =>
          /\ mem[q].code = mem[r].code => mem[q].code \in contested
          /\ mem[q].user = mem[r].user => mem[q].user \in contested
    /\ pc[q] \in PaySteps /\ pc[r] \in PaySteps /\ mem[q].reward = mem[r].reward => mem[q].reward \in contested
    /\ pc[q] \in ProgramSteps /\ pc[r] \in ProgramSteps => reshuffled

Signed(c) == \E u \in Users : <<c, u>> \in signups
OfCode(c) == {i \in DOMAIN rewards : rewards[i].code = c}
OfProgram(p) == {i \in DOMAIN rewards : rewards[i].program = p}

\* A code that a user signed up with has a referee, this user unless requests overlapped.
SignupsStored ==
    /\ \A s \in signups :
          /\ s[1] \in Issued /\ referrals[s[1]].referee # None
          /\ s[1] \notin contested => referrals[s[1]].referee = s[2]
    /\ \A s, t \in signups : s # t =>
          /\ s[1] = t[1] => s[1] \in contested
          /\ s[2] = t[2] => {s[1], s[2], t[1]} \cap contested # {}

Earned(r) ==
    /\ r.code \in Issued /\ Signed(r.code)
    /\ r.type = "REFEREE" => <<r.code, r.user>> \in signups
    /\ r.type = "REFERRER" => r.user = referrals[r.code].referrer

RewardsStored ==
    /\ \A i \in DOMAIN rewards :
          /\ Earned(rewards[i])
          /\ rewards[i].status = "PENDING" => receipts[i] = 0
          /\ i \notin contested => receipts[i] <= 1
    /\ \A c \in Codes \ contested : Cardinality(OfCode(c)) \in 0 .. 2

\* A signup holds a code that is as it found it, and nobody else rewards.
SignupReady(step, m) ==
    /\ step \in RowSteps => m.code \in Issued /\ m.row.referrer = referrals[m.code].referrer
    /\ step = "saveRewards" => m.code \in Issued /\ m.referrer = referrals[m.code].referrer
    /\ step \in {"findActive", "saveRewards"} => <<m.code, m.user>> \in signups
    /\ step \in {"findReferee", "saveReferral"} /\ m.code \notin contested => ~Signed(m.code)
    /\ step = "saveReferral" /\ m.user \notin contested =>
          \A s \in signups : s[2] = m.user => s[1] \in contested
    /\ step \in {"findActive", "saveRewards"} /\ m.code \notin contested => OfCode(m.code) = {}
    /\ step \in PaySteps => m.reward \in DOMAIN rewards
    /\ step = "saveReward" /\ m.reward \notin contested => rewards[m.reward].status = "PENDING"

SignupInv == SignupsStored /\ RewardsStored /\ \A q \in Requests : SignupReady(pc[q], mem[q])

\* A request holds a row that promises no more than there is under the programme.  While no
\* two hold one it is the stored row, and none is active when one is to be activated.
ProgramReady(step, m) ==
    /\ step \in SaveRowSteps \cup {"deactivateOthers", "updateProgram"} => m.program \in Stored
    /\ step \in SaveRowSteps /\ m.program \notin restated =>
          m.row.used + (IF step = "saveProgram" THEN Pair(m.row) ELSE 0) <= Promised(m.program)
    /\ ~reshuffled =>
          /\ step \in SaveRowSteps => m.row = programs[m.program]
          /\ step = "saveRewards" /\ m.row.total # None => m.row.used + Pair(m.row) <= m.row.total
          /\ step \in {"getProgram", "saveActive"} \/ (step = "updateProgram" /\ Activates(m.body)) =>
                Active = {}

\* The used budget counts what was promised, but for a pair of rewards not yet counted, and
\* what was promised is within the total.
Counting(p) == \E q \in Requests : pc[q] = "saveProgram" /\ mem[q].program = p
Uncounted(p) == IF Counting(p) THEN Pair(programs[p]) ELSE 0
Covered(p) == p \notin lowered /\ programs[p].total # None => Promised(p) <= programs[p].total
BudgetsKept == \A p \in Stored \ restated :
    /\ programs[p].used <= Promised(p)
    /\ ~reshuffled => programs[p].used + Uncounted(p) = Promised(p) /\ Covered(p)

\* A programme nobody stored has promised nothing.
Unpromised == \A p \in Programs \ Stored : OfProgram(p) = {}

OneAtMost == ~reshuffled => \A p, r \in Active : p = r

ProgramInv == BudgetsKept /\ Unpromised /\ OneAtMost /\ \A q \in Requests : ProgramReady(pc[q], mem[q])

ReferralInv == ReferralTypes /\ ReferralPairs /\ SignupInv /\ ProgramInv

\* What is promised is a sum over the rewards of the programme.
Worth == [i \in DOMAIN rewards |-> rewards[i].amount]
WorthRecursion(g, S) ==
    g = [s \in SUBSET S |-> IF s = {} THEN 0 ELSE rewards[Chosen(s)].amount + g[s \ {Chosen(s)}]]

LEMMA PromisedIs ==
    ASSUME NEW p
    PROVE  Promised(p) = Sum(Worth, OfProgram(p))
  <1>1. Promised(p) = (CHOOSE g : WorthRecursion(g, OfProgram(p)))[OfProgram(p)]
    BY DEF Promised, MapThenSumSet, MapThenFoldSet, Chosen, WorthRecursion, OfProgram
  <1>2. \A s \in SUBSET OfProgram(p) : s # {} => Chosen(s) \in DOMAIN rewards
    BY DEF Chosen, OfProgram
  <1>3. \A g : WorthRecursion(g, OfProgram(p)) <=> Recursion(g, Worth, OfProgram(p))
    BY <1>2 DEF WorthRecursion, Recursion, Worth
  <1>4. (CHOOSE g : WorthRecursion(g, OfProgram(p))) = (CHOOSE g : Recursion(g, Worth, OfProgram(p)))
    BY <1>3, Zenon
  <1> QED
    BY <1>1, <1>4, SumIs

LEMMA PromisedNextIs ==
    ASSUME NEW p
    PROVE  Promised(p)' = Sum(Worth', OfProgram(p)')
  <1>1. Promised(p)' = (CHOOSE g : WorthRecursion(g, OfProgram(p))')[OfProgram(p)']
    BY DEF Promised, MapThenSumSet, MapThenFoldSet, Chosen, WorthRecursion, OfProgram
  <1>2. \A s \in SUBSET OfProgram(p)' : s # {} => Chosen(s) \in DOMAIN rewards'
    BY DEF Chosen, OfProgram
  <1>3. \A g : WorthRecursion(g, OfProgram(p))' <=> Recursion(g, Worth', OfProgram(p)')
    BY <1>2 DEF WorthRecursion, Recursion, Worth
  <1>4. (CHOOSE g : WorthRecursion(g, OfProgram(p))') = (CHOOSE g : Recursion(g, Worth', OfProgram(p)'))
    BY <1>3, Zenon
  <1> QED
    BY <1>1, <1>4, SumIs

LEMMA AssignedProgram ==
    ASSUME NEW row \in Program, NEW body \in ProgramBodies
    PROVE  /\ Assigned(row, body) \in Program
           /\ Assigned(row, body).status = IF "status" \in DOMAIN body THEN body.status ELSE row.status
           /\ Assigned(row, body).used = IF "used" \in DOMAIN body THEN body.used ELSE row.used
           /\ Assigned(row, body).total = IF "total" \in DOMAIN body THEN body.total ELSE row.total
           /\ "total" \in DOMAIN body => body.total \in Nat
  <1>1. Assigned(NewProgram, body) \in Program /\ ("total" \in DOMAIN body => body.total # None)
    BY ReferralAssumption
  <1>2. Assigned(row, body) \in Program
    BY <1>1 DEF Assigned, NewProgram, Program
  <1>3. "total" \in DOMAIN body => body.total \in Nat
    BY <1>1 DEF Assigned, NewProgram, Program
  <1> QED
    BY <1>2, <1>3 DEF Assigned, Program

LEMMA DraftTyped ==
    ASSUME NEW o \in Offers
    PROVE  Draft(o) \in Program /\ Draft(o).used = 0 /\ Draft(o).status = "DRAFT"
  <1>1. Assigned(NewProgram, o) \in Program
    BY ReferralAssumption DEF Offers
  <1> QED
    BY <1>1 DEF Draft, Program

LEMMA ReferralInitInv == Init => ReferralInv
  <1> SUFFICES ASSUME Init PROVE ReferralInv
    OBVIOUS
  <1>1. \A q \in Requests : pc[q] = "idle"
    BY InitPerRequest DEF Init
  <1>2. /\ rewards = <<>> /\ receipts = <<>> /\ signups = {} /\ contested = {} /\ reshuffled = FALSE
        /\ referrals \in [Codes -> Referral \cup {None}]
        /\ programs \in [Programs -> Program \cup {None}]
        /\ \A p \in Stored : programs[p].used = 0 /\ programs[p].total \in Nat \cup {None}
        /\ \A p, r \in Active : p = r
    <2>1. CASE ReferralIdle
      BY <2>1 DEF ReferralIdle, Stored, Active
    <2>2. CASE ReferralInit
      <3>1. referrals \in [Codes -> Referral \cup {None}]
        BY <2>2, ReferralAssumption DEF ReferralInit, Referral
      <3>2. PICK A \in {1, 2}, offer \in Offers, other \in {None} \cup {Draft(o) : o \in Offers} :
               programs = [p \in Programs |->
                  IF p = A THEN [Draft(offer) EXCEPT !.status = "ACTIVE"] ELSE other]
        BY <2>2 DEF ReferralInit
      <3>3. \A o \in Offers : Draft(o) \in Program /\ Draft(o).used = 0 /\ Draft(o).status = "DRAFT"
        BY DraftTyped
      <3>4. /\ [Draft(offer) EXCEPT !.status = "ACTIVE"] \in Program
            /\ [Draft(offer) EXCEPT !.status = "ACTIVE"].used = 0
        BY <3>3 DEF Program
      <3>5. programs \in [Programs -> Program \cup {None}] /\ \A p \in Stored : programs[p].used = 0
        BY <3>2, <3>3, <3>4 DEF Stored
      <3>6. \A p \in Stored : programs[p].total \in Nat \cup {None}
        BY <3>5 DEF Stored, Program
      <3>7. \A p, r \in Active : p = r
        BY <3>2, <3>3 DEF Active, Stored
      <3> QED
        BY <2>2, <3>1, <3>5, <3>6, <3>7 DEF ReferralInit
    <2> QED
      BY <2>1, <2>2 DEF Init
  <1>3. DOMAIN rewards = {}
    BY <1>2
  <1>4. Cardinality({}) = 0
    BY FS_EmptySet
  <1>5. \A c : OfCode(c) = {}
    BY <1>3 DEF OfCode
  <1>6. \A p : OfProgram(p) = {} /\ Promised(p) = 0
    <2>1. \A p : OfProgram(p) = {}
      BY <1>3 DEF OfProgram
    <2> QED
      BY <2>1, PromisedIs, SumEmpty
  <1>7. ReferralTypes
    <2>1. Len(rewards) = Len(receipts) /\ rewards \in Seq(Reward) /\ receipts \in Seq(Nat)
      BY <1>2
    <2>2. \A q \in Requests : ReferralHeld(pc[q], mem[q])
      BY <1>1 DEF ReferralHeld, RowSteps, PaySteps
    <2> QED
      BY <1>2, <2>1, <2>2 DEF ReferralTypes
  <1>8. ReferralPairs
    BY <1>1 DEF ReferralPairs, SignupSteps, PaySteps, ProgramSteps
  <1>9. SignupInv
    <2>1. \A q \in Requests : SignupReady(pc[q], mem[q])
      BY <1>1 DEF SignupReady, RowSteps, PaySteps
    <2>2. SignupsStored
      BY <1>2 DEF SignupsStored
    <2>3. \A c : Cardinality(OfCode(c)) \in 0 .. 2
      BY <1>4, <1>5
    <2>4. RewardsStored
      BY <1>3, <2>3 DEF RewardsStored
    <2> QED
      BY <2>1, <2>2, <2>4 DEF SignupInv
  <1>10. ProgramInv
    <2>1. \A p : ~Counting(p)
      BY <1>1 DEF Counting
    <2>2. BudgetsKept
      BY <1>2, <1>6, <2>1 DEF BudgetsKept, Uncounted, Covered
    <2> QED
      BY <1>1, <1>2, <1>6, <2>2 DEF ProgramInv, Unpromised, OneAtMost, ProgramReady, SaveRowSteps
  <1> QED
    BY <1>7, <1>8, <1>9, <1>10 DEF ReferralInv

LEMMA ReferralHistoryNotes ==
    ASSUME ReferralHistory
    PROVE  contested \subseteq contested' /\ (reshuffled => reshuffled') /\ ReferralPairs'
  <1>1. contested \subseteq contested' /\ (reshuffled => reshuffled')
    BY DEF ReferralHistory
  <1>2. ASSUME NEW q \in Requests, NEW r \in Requests, q # r, pc'[q] \in SignupSteps, pc'[r] \in SignupSteps
        PROVE  /\ mem'[q].code = mem'[r].code => mem'[q].code \in contested'
               /\ mem'[q].user = mem'[r].user => mem'[q].user \in contested'
    <2>1. /\ Signing(q) = {mem'[q].code, mem'[q].user} /\ Signing(r) = {mem'[r].code, mem'[r].user}
      BY <1>2 DEF Signing
    <2>2. \A v : v \in Signing(q) /\ v \in Signing(r) => v \in InBoth(Signing)
      BY <1>2 DEF InBoth
    <2> QED
      BY <2>1, <2>2 DEF ReferralHistory
  <1>3. ASSUME NEW q \in Requests, NEW r \in Requests, q # r, pc'[q] \in PaySteps, pc'[r] \in PaySteps,
               mem'[q].reward = mem'[r].reward
        PROVE  mem'[q].reward \in contested'
    <2>1. mem'[q].reward \in Paying(q) /\ mem'[q].reward \in Paying(r)
      BY <1>3 DEF Paying, PaySteps
    <2>2. mem'[q].reward \in InBoth(Paying)
      BY <1>3, <2>1 DEF InBoth
    <2> QED
      BY <2>2 DEF ReferralHistory
  <1>4. ASSUME NEW q \in Requests, NEW r \in Requests, q # r, pc'[q] \in ProgramSteps, pc'[r] \in ProgramSteps
        PROVE  reshuffled'
    BY <1>4 DEF ReferralHistory, Overlapping
  <1> QED
    BY <1>1, <1>2, <1>3, <1>4 DEF ReferralPairs

------------------------------------------------------------------------------
\* What the tables and the requests hold after a step that leaves request q at step with m.
LEMMA ReferralTypesKept ==
    ASSUME ReferralTypes, NEW q \in Requests, NEW step, NEW m, Put(q, step, m), ReferralHeld(step, m),
           referrals' \in [Codes -> Referral \cup {None}],
           programs' \in [Programs -> Program \cup {None}],
           rewards' \in Seq(Reward), receipts' \in Seq(Nat), Len(receipts') = Len(rewards'),
           signups' \subseteq Codes \X Users, reshuffled' \in BOOLEAN
    PROVE  ReferralTypes'
  <1>1. \A r \in Requests : ReferralHeld(pc'[r], mem'[r])
    BY DEF Put, ReferralTypes
  <1>2. (\A r \in Requests : ReferralHeld(pc[r], mem[r]))'
    BY <1>1 DEF ReferralHeld
  <1> QED
    BY <1>2 DEF ReferralTypes

LEMMA ReferralHistoryTyped ==
    ASSUME ReferralTypes, ReferralHistory
    PROVE  reshuffled' \in BOOLEAN
  BY DEF ReferralTypes, ReferralHistory, Overlapping

\* A step that leaves signups and rewards, and the codes there are, as they were.
LEMMA SignupMoves ==
    ASSUME SignupInv, NEW q \in Requests, NEW step, NEW m, Put(q, step, m), contested \subseteq contested',
           UNCHANGED <<rewards, signups, receipts>>,
           \A c \in Issued : c \in Issued' /\ referrals'[c] = referrals[c],
           SignupReady(step, m)
    PROVE  SignupInv'
  <1>1. SignupsStored'
    BY DEF SignupInv, SignupsStored
  <1>2. \A c : OfCode(c)' = OfCode(c) /\ Signed(c)' = Signed(c)
    BY DEF OfCode, Signed
  <1>3. \A i \in DOMAIN rewards : Earned(rewards[i])'
    BY <1>2 DEF SignupInv, RewardsStored, Earned
  <1>4. RewardsStored'
    BY <1>2, <1>3 DEF SignupInv, RewardsStored
  <1>5. ASSUME NEW s, NEW held, SignupReady(s, held) PROVE SignupReady(s, held)'
    BY <1>2, <1>5 DEF SignupReady, RowSteps, PaySteps
  <1>6. \A r \in Requests : SignupReady(pc'[r], mem'[r])
    BY DEF Put, SignupInv
  <1>7. (\A r \in Requests : SignupReady(pc[r], mem[r]))'
    BY <1>5, <1>6
  <1> QED
    BY <1>1, <1>4, <1>7 DEF SignupInv

LEMMA PromisedCounted ==
    ASSUME ReferralTypes
    PROVE  \A p : IsFiniteSet(OfProgram(p)) /\ Promised(p) \in Nat
  <1>1. IsFiniteSet(DOMAIN rewards)
    <2>1. DOMAIN rewards = 1 .. Len(rewards) /\ Len(rewards) \in Nat
      BY DEF ReferralTypes
    <2> QED
      BY <2>1, FS_Interval
  <1>2. \A p : OfProgram(p) \subseteq DOMAIN rewards
    BY DEF OfProgram
  <1>3. \A p : IsFiniteSet(OfProgram(p))
    BY <1>1, <1>2, FS_Subset
  <1>4. \A p : \A i \in OfProgram(p) : Worth[i] \in Nat
    <2>1. \A i \in DOMAIN rewards : rewards[i] \in Reward
      BY DEF ReferralTypes
    <2>2. \A i \in DOMAIN rewards : rewards[i].amount \in Nat
      BY <2>1 DEF Reward
    <2> QED
      BY <2>2 DEF OfProgram, Worth
  <1>5. \A p : Sum(Worth, OfProgram(p)) \in Nat
    <2> SUFFICES ASSUME NEW p PROVE Sum(Worth, OfProgram(p)) \in Nat
      OBVIOUS
    <2> PICK S : S = OfProgram(p)
      OBVIOUS
    <2>1. IsFiniteSet(S) /\ \A i \in S : Worth[i] \in Nat
      BY <1>3, <1>4
    <2> QED
      BY <2>1, SumType
  <1> QED
    BY <1>3, <1>5, PromisedIs

\* No reward is new, or of another amount or programme.
SameWorth ==
    /\ DOMAIN rewards' = DOMAIN rewards
    /\ \A i \in DOMAIN rewards :
          rewards'[i].program = rewards[i].program /\ rewards'[i].amount = rewards[i].amount

LEMMA PromisedKept ==
    ASSUME ReferralTypes, SameWorth
    PROVE  \A p : OfProgram(p)' = OfProgram(p) /\ Promised(p)' = Promised(p)
  <1>1. \A p : OfProgram(p)' = OfProgram(p)
    BY DEF OfProgram, SameWorth
  <1>2. Worth' = Worth
    BY DEF Worth, SameWorth
  <1>3. \A p : Promised(p)' = Sum(Worth', OfProgram(p)')
    BY PromisedNextIs
  <1> QED
    BY <1>1, <1>2, <1>3, PromisedIs

\* A step that leaves the programmes there are, and what was promised under them.
LEMMA ProgramMoves ==
    ASSUME ReferralTypes, ProgramInv, NEW q \in Requests, NEW step, NEW m, Put(q, step, m),
           reshuffled => reshuffled', UNCHANGED <<programs, restated, lowered>>, SameWorth,
           reshuffled' \/ (pc[q] # "saveProgram" /\ step # "saveProgram"),
           ProgramReady(step, m)
    PROVE  ProgramInv'
  <1>1. \A p : OfProgram(p)' = OfProgram(p) /\ Promised(p)' = Promised(p)
    BY PromisedKept
  <1>2. Stored' = Stored /\ Active' = Active
    BY DEF Stored, Active
  <1>3. \A p : ~reshuffled' => Counting(p)' = Counting(p)
    BY DEF Counting, Put
  <1>4. BudgetsKept'
    BY <1>1, <1>2, <1>3 DEF ProgramInv, BudgetsKept, Uncounted, Covered
  <1>5. Unpromised'
    BY <1>1, <1>2 DEF ProgramInv, Unpromised
  <1>6. OneAtMost'
    BY <1>2 DEF ProgramInv, OneAtMost
  <1>7. ASSUME NEW s, NEW held, ProgramReady(s, held) PROVE ProgramReady(s, held)'
    BY <1>1, <1>2, <1>7 DEF ProgramReady
  <1>8. \A r \in Requests : ProgramReady(pc'[r], mem'[r])
    BY DEF Put, ProgramInv
  <1>9. (\A r \in Requests : ProgramReady(pc[r], mem[r]))'
    BY <1>7, <1>8
  <1> QED
    BY <1>4, <1>5, <1>6, <1>9 DEF ProgramInv

\* A step that writes programmes, and leaves what was promised under them: no other request
\* is at work on one unless this is on record.
LEMMA ProgramsWritten ==
    ASSUME ReferralTypes, ReferralPairs, ReferralPairs', ProgramInv, NEW q \in Requests,
           NEW step \in {"idle", "getProgram", "updateProgram"}, NEW m, Put(q, step, m),
           reshuffled => reshuffled', UNCHANGED rewards, restated \subseteq restated',
           pc[q] \in ProgramSteps \/ step \in ProgramSteps, Stored' = Stored,
           \A p \in Stored \ restated' :
              /\ programs'[p].used \in Nat /\ programs'[p].used <= Promised(p)
              /\ ~reshuffled' =>
                    /\ programs'[p].used = Promised(p)
                    /\ p \notin lowered' /\ programs'[p].total # None => Promised(p) <= programs'[p].total,
           OneAtMost', ProgramReady(step, m)'
    PROVE  ProgramInv'
  <1>1. SameWorth
    BY DEF SameWorth
  <1>2. \A p : OfProgram(p)' = OfProgram(p) /\ Promised(p)' = Promised(p)
    BY <1>1, PromisedKept
  <1>3. \A r \in Requests \ {q} : pc'[r] = pc[r] /\ mem'[r] = mem[r] /\ (pc[r] \in ProgramSteps => reshuffled')
    BY DEF Put, ReferralPairs
  <1>4. \A p : ~reshuffled' => ~Counting(p)'
    BY <1>3 DEF Counting, Put, ProgramSteps
  <1>5. ASSUME NEW p \in Stored \ restated', ~reshuffled'
        PROVE  programs'[p].used + Uncounted(p)' = Promised(p)' /\ Covered(p)'
    <2>1. programs'[p].used \in Nat /\ programs'[p].used = Promised(p)' /\ Uncounted(p)' = 0
      BY <1>2, <1>4, <1>5 DEF Uncounted
    <2>2. programs'[p].used + 0 = Promised(p)'
      BY <2>1
    <2>3. Covered(p)'
      BY <1>2, <1>5 DEF Covered
    <2> QED
      BY <2>1, <2>2, <2>3
  <1>6. BudgetsKept'
    BY <1>2, <1>5 DEF BudgetsKept
  <1>7. Unpromised'
    BY <1>2 DEF ProgramInv, Unpromised
  <1>8. ASSUME NEW r \in Requests \ {q} PROVE ProgramReady(pc[r], mem[r])'
    <2>1. ProgramReady(pc[r], mem[r]) /\ pc'[r] = pc[r] /\ mem'[r] = mem[r]
      BY <1>3 DEF ProgramInv
    <2>2. ~reshuffled' => pc[r] \notin ProgramSteps
      BY <1>3
    <2> QED
      BY <1>2, <2>1, <2>2 DEF ProgramReady, SaveRowSteps, ProgramSteps
  <1>9. ProgramReady(pc[q], mem[q])'
    BY DEF Put
  <1> QED
    BY <1>6, <1>7, <1>8, <1>9 DEF ProgramInv

------------------------------------------------------------------------------
\* A step after which a request holds m, and the tables are what they were.
LEMMA ReferralMoves ==
    ASSUME ReferralInv, ReferralHistory, NEW q \in Requests, NEW step, NEW m, Put(q, step, m),
           UNCHANGED <<referralTables, restated, lowered>>, pc[q] # "saveProgram", step # "saveProgram",
           ReferralHeld(step, m), SignupReady(step, m), ProgramReady(step, m)
    PROVE  ReferralInv'
  <1>1. UNCHANGED <<referrals, rewards, programs, signups, receipts>>
    BY DEF referralTables
  <1>2. contested \subseteq contested' /\ (reshuffled => reshuffled') /\ ReferralPairs'
    BY ReferralHistoryNotes
  <1>3. ReferralTypes'
    <2>1. ReferralTypes /\ reshuffled' \in BOOLEAN
      BY ReferralHistoryTyped DEF ReferralInv
    <2>2. /\ referrals' \in [Codes -> Referral \cup {None}]
          /\ programs' \in [Programs -> Program \cup {None}]
          /\ rewards' \in Seq(Reward) /\ receipts' \in Seq(Nat) /\ Len(receipts') = Len(rewards')
          /\ signups' \subseteq Codes \X Users
      BY <1>1, <2>1 DEF ReferralTypes
    <2> QED
      BY <2>1, <2>2, ReferralTypesKept
  <1>4. SignupInv'
    <2>1. \A c \in Issued : c \in Issued' /\ referrals'[c] = referrals[c]
      BY <1>1 DEF Issued
    <2> QED
      BY <1>1, <1>2, <2>1, SignupMoves DEF ReferralInv
  <1>5. ProgramInv'
    <2>1. SameWorth
      BY <1>1 DEF SameWorth
    <2> QED
      BY <1>1, <1>2, <2>1, ProgramMoves DEF ReferralInv
  <1> QED
    BY <1>2, <1>3, <1>4, <1>5 DEF ReferralInv

LEMMA ReferralRests ==
    /\ SignupReady("idle", NoMemory) /\ ProgramReady("idle", NoMemory) /\ ReferralHeld("idle", NoMemory)
    /\ \A step \in {"findCode", "insertReferral", "findReferral"} : \A m :
          SignupReady(step, m) /\ ProgramReady(step, m)
  BY DEF SignupReady, ProgramReady, ReferralHeld, RowSteps, PaySteps, SaveRowSteps

LEMMA ReferralAnswers ==
    ASSUME Base, ReferralInv, ReferralHistory, NEW q \in Requests, Answer(q),
           UNCHANGED <<referralTables, restated, lowered>>, pc[q] # "saveProgram"
    PROVE  ReferralInv'
  BY AnswerPuts, ReferralRests, ReferralMoves DEF Base

LEMMA CodeReadStep ==
    ASSUME Base, ReferralInv, ReferralHistory, NEW q \in Requests, UNCHANGED <<referralTables, restated, lowered>>,
           PostReferral(q) \/ GenerateReferralCode(q) \/ PostSignup(q)
    PROVE  ReferralInv'
  <1>1. ASSUME NEW step \in {"findCode", "insertReferral", "findReferral"}, NEW m, Put(q, step, m),
               ReferralHeld(step, m), pc[q] # "saveProgram"
        PROVE  ReferralInv'
    BY <1>1, ReferralRests, ReferralMoves
  <1>2. CASE PostReferral(q)
    <2>1. PICK u \in Users : Receive(q, "referrals", "findCode", [user |-> u])
      BY <1>2 DEF PostReferral
    <2>2. Put(q, "findCode", [user |-> u]) /\ pc[q] = "idle"
      BY <2>1, ReceivePuts DEF Base
    <2>3. ReferralHeld("findCode", [user |-> u])
      BY DEF ReferralHeld, RowSteps, PaySteps
    <2> QED
      BY <1>1, <2>2, <2>3
  <1>3. CASE GenerateReferralCode(q)
    <2>1. pc[q] = "findCode"
      BY <1>3 DEF GenerateReferralCode, At
    <2>2. CASE Answer(q)
      BY <2>1, <2>2, ReferralAnswers
    <2>3. CASE ~Answer(q)
      <3>1. PICK c \in Codes : Goto(q, "insertReferral", [user |-> mem[q].user, code |-> c])
        BY <1>3, <2>3 DEF GenerateReferralCode
      <3>2. Put(q, "insertReferral", [user |-> mem[q].user, code |-> c])
        BY <3>1, GotoPuts DEF Base
      <3>3. mem[q].user \in Users
        BY <2>1 DEF ReferralInv, ReferralTypes, ReferralHeld
      <3>4. ReferralHeld("insertReferral", [user |-> mem[q].user, code |-> c])
        BY <3>3 DEF ReferralHeld, RowSteps, PaySteps
      <3> QED
        BY <1>1, <2>1, <3>2, <3>4
    <2> QED
      BY <2>2, <2>3
  <1>4. CASE PostSignup(q)
    <2>1. PICK u \in Users, c \in Codes : Receive(q, "referrals", "findReferral", [user |-> u, code |-> c])
      BY <1>4 DEF PostSignup
    <2>2. Put(q, "findReferral", [user |-> u, code |-> c]) /\ pc[q] = "idle"
      BY <2>1, ReceivePuts DEF Base
    <2>3. ReferralHeld("findReferral", [user |-> u, code |-> c])
      BY DEF ReferralHeld, RowSteps, PaySteps
    <2> QED
      BY <1>1, <2>2, <2>3
  <1> QED
    BY <1>2, <1>3, <1>4

LEMMA FindReferralStep ==
    ASSUME Base, ReferralInv, ReferralHistory, NEW q \in Requests, UNCHANGED <<referralTables, restated, lowered>>, FindReferral(q)
    PROVE  ReferralInv'
  <1> PICK c : c = mem[q].code
    OBVIOUS
  <1>1. pc[q] = "findReferral"
    BY DEF FindReferral, At
  <1>2. CASE Answer(q)
    BY <1>1, <1>2, ReferralAnswers
  <1>3. CASE ~Answer(q)
    <2> PICK m : m = [user |-> mem[q].user, code |-> c, row |-> referrals[c]]
      OBVIOUS
    <2>1. Usable(c, mem[q].user) /\ Goto(q, "findReferee", m)
      BY <1>3 DEF FindReferral
    <2>2. Put(q, "findReferee", m)
      BY <2>1, GotoPuts DEF Base
    <2>3. mem[q].user \in Users /\ c \in Codes
      BY <1>1 DEF ReferralInv, ReferralTypes, ReferralHeld
    <2>4. c \in Issued /\ referrals[c] \in Referral /\ referrals[c].referee = None
      BY <2>1, <2>3 DEF Usable, Issued, ReferralInv, ReferralTypes
    <2>5. ReferralHeld("findReferee", m)
      BY <2>3, <2>4 DEF ReferralHeld, RowSteps, PaySteps
    <2>6. ~Signed(c)
      BY <2>4 DEF ReferralInv, SignupInv, SignupsStored, Signed
    <2>7. SignupReady("findReferee", m)
      BY <2>4, <2>6 DEF SignupReady, RowSteps, PaySteps
    <2>8. ProgramReady("findReferee", m)
      BY DEF ProgramReady, SaveRowSteps
    <2> QED
      BY <1>1, <2>2, <2>5, <2>7, <2>8, ReferralMoves
  <1> QED
    BY <1>2, <1>3

LEMMA FindRefereeStep ==
    ASSUME Base, ReferralInv, ReferralHistory, NEW q \in Requests, UNCHANGED <<referralTables, restated, lowered>>, FindReferee(q)
    PROVE  ReferralInv'
  <1>1. pc[q] = "findReferee"
    BY DEF FindReferee, At
  <1>2. CASE Answer(q)
    BY <1>1, <1>2, ReferralAnswers
  <1>3. CASE ~Answer(q)
    <2> PICK m : m = mem[q]
      OBVIOUS
    <2>1. ~Referred(m.user) /\ Put(q, "saveReferral", m)
      BY <1>3, GotoPuts DEF FindReferee, Base
    <2>2. ReferralHeld("saveReferral", m)
      BY <1>1 DEF ReferralInv, ReferralTypes, ReferralHeld, RowSteps, PaySteps
    <2>3. \A s \in signups : s[2] = m.user => s[1] \in contested
      BY <2>1 DEF ReferralInv, SignupInv, SignupsStored, Referred
    <2>4. SignupReady("findReferee", m)
      BY <1>1 DEF ReferralInv, SignupInv
    <2>5. SignupReady("saveReferral", m)
      BY <2>3, <2>4 DEF SignupReady, RowSteps, PaySteps
    <2>6. ProgramReady("saveReferral", m)
      BY DEF ProgramReady, SaveRowSteps
    <2> QED
      BY <1>1, <2>1, <2>2, <2>5, <2>6, ReferralMoves
  <1> QED
    BY <1>2, <1>3

LEMMA RewardReadStep ==
    ASSUME Base, ReferralInv, ReferralHistory, NEW q \in Requests, UNCHANGED <<referralTables, restated, lowered>>,
           PutRewardPayment(q) \/ FindReward(q)
    PROVE  ReferralInv'
  <1>1. CASE PutRewardPayment(q)
    <2>1. PICK i \in DOMAIN rewards : Receive(q, "referrals", "findReward", [reward |-> i])
      BY <1>1 DEF PutRewardPayment
    <2>2. Put(q, "findReward", [reward |-> i]) /\ pc[q] = "idle"
      BY <2>1, ReceivePuts DEF Base
    <2>3. i \in Nat
      BY DEF ReferralInv, ReferralTypes
    <2>4. /\ ReferralHeld("findReward", [reward |-> i]) /\ SignupReady("findReward", [reward |-> i])
          /\ ProgramReady("findReward", [reward |-> i])
      BY <2>3 DEF ReferralHeld, SignupReady, ProgramReady, RowSteps, PaySteps, SaveRowSteps
    <2> QED
      BY <2>2, <2>4, ReferralMoves
  <1>2. CASE FindReward(q)
    <2>1. pc[q] = "findReward"
      BY <1>2 DEF FindReward, At
    <2>2. CASE Answer(q)
      BY <2>1, <2>2, ReferralAnswers
    <2>3. CASE ~Answer(q)
      <3> PICK m : m = mem[q]
        OBVIOUS
      <3>1. rewards[m.reward].status = "PENDING" /\ Put(q, "saveReward", m)
        BY <1>2, <2>3, GotoPuts DEF FindReward, Base
      <3>2. ReferralHeld("findReward", m) /\ SignupReady("findReward", m)
        BY <2>1 DEF ReferralInv, ReferralTypes, SignupInv
      <3>3. ReferralHeld("saveReward", m) /\ SignupReady("saveReward", m) /\ ProgramReady("saveReward", m)
        BY <3>1, <3>2 DEF ReferralHeld, SignupReady, ProgramReady, RowSteps, PaySteps, SaveRowSteps
      <3> QED
        BY <2>1, <3>1, <3>3, ReferralMoves
    <2> QED
      BY <2>2, <2>3
  <1> QED
    BY <1>1, <1>2

------------------------------------------------------------------------------
LEMMA StoredProgram ==
    ASSUME ReferralTypes, NEW p \in Stored
    PROVE  /\ p \in Programs /\ programs[p] \in Program /\ programs[p].used \in Nat
           /\ programs[p].total \in Nat \cup {None} /\ Pair(programs[p]) \in Nat
  BY DEF ReferralTypes, Stored, Program, Pair

LEMMA FindActiveProgramStep ==
    ASSUME Base, ReferralInv, ReferralHistory, NEW q \in Requests, UNCHANGED <<referralTables, restated, lowered>>, FindActiveProgram(q)
    PROVE  ReferralInv'
  <1>1. pc[q] = "findActive"
    BY DEF FindActiveProgram, At
  <1>2. CASE Answer(q)
    BY <1>1, <1>2, ReferralAnswers
  <1>3. CASE ~Answer(q)
    <2> PICK old : old = mem[q]
      OBVIOUS
    <2>1. PICK p \in Affordable : Goto(q, "saveRewards", [user |-> old.user, code |-> old.code,
             referrer |-> old.row.referrer, program |-> p, row |-> programs[p]])
      BY <1>3 DEF FindActiveProgram
    <2> PICK m : m = [user |-> old.user, code |-> old.code,
                      referrer |-> old.row.referrer, program |-> p, row |-> programs[p]]
      OBVIOUS
    <2>2. Put(q, "saveRewards", m)
      BY <2>1, GotoPuts DEF Base
    <2>3. p \in Stored /\ (programs[p].total = None \/ programs[p].used + Pair(programs[p]) <= programs[p].total)
      BY <2>1 DEF Affordable, Active
    <2>4. p \in Programs /\ programs[p] \in Program /\ programs[p].used \in Nat
      BY <2>3, StoredProgram DEF ReferralInv
    <2>5. ReferralHeld("findActive", old) /\ SignupReady("findActive", old)
      BY <1>1 DEF ReferralInv, ReferralTypes, SignupInv
    <2>6. old.user \in Users /\ old.code \in Codes /\ old.row.referrer \in Users
      BY <2>5 DEF ReferralHeld, RowSteps, Referral
    <2>7. ReferralHeld("saveRewards", m)
      BY <2>4, <2>6 DEF ReferralHeld, RowSteps, PaySteps
    <2>8. SignupReady("saveRewards", m)
      BY <2>5 DEF SignupReady, RowSteps, PaySteps
    <2>9. p \notin restated => programs[p].used <= Promised(p)
      BY <2>3 DEF ReferralInv, ProgramInv, BudgetsKept
    <2>10. p \notin restated => programs[p].used + 0 <= Promised(p)
      BY <2>4, <2>9
    <2>11. ProgramReady("saveRewards", m)
      BY <2>3, <2>10 DEF ProgramReady, SaveRowSteps
    <2> QED
      BY <1>1, <2>2, <2>7, <2>8, <2>11, ReferralMoves
  <1> QED
    BY <1>2, <1>3

\* A programme and its row, read for a later write.
LEMMA RowIsReady ==
    ASSUME ReferralInv, NEW p \in Stored, NEW step \in {"saveActive", "saveInactive"},
           step = "saveActive" /\ ~reshuffled => Active = {}
    PROVE  /\ ReferralHeld(step, [program |-> p, row |-> programs[p]])
           /\ SignupReady(step, [program |-> p, row |-> programs[p]])
           /\ ProgramReady(step, [program |-> p, row |-> programs[p]])
  <1> PICK m : m = [program |-> p, row |-> programs[p]]
    OBVIOUS
  <1>1. p \in Programs /\ programs[p] \in Program /\ programs[p].used \in Nat
    BY StoredProgram DEF ReferralInv
  <1>2. p \notin restated => programs[p].used <= Promised(p)
    BY DEF ReferralInv, ProgramInv, BudgetsKept
  <1>3. p \notin restated => programs[p].used + 0 <= Promised(p)
    BY <1>1, <1>2
  <1>4. ReferralHeld(step, m)
    BY <1>1 DEF ReferralHeld, RowSteps, PaySteps
  <1>5. SignupReady(step, m)
    BY DEF SignupReady, RowSteps, PaySteps
  <1>6. ProgramReady(step, m)
    BY <1>3 DEF ProgramReady, SaveRowSteps
  <1> QED
    BY <1>4, <1>5, <1>6

LEMMA ProgramReadStep ==
    ASSUME Base, ReferralInv, ReferralHistory, NEW q \in Requests, UNCHANGED <<referralTables, restated, lowered>>,
           PostProgram(q) \/ PutProgram(q) \/ GetProgramToActivate(q) \/ DeactivateProgram(q)
    PROVE  ReferralInv'
  <1>1. CASE PostProgram(q)
    <2>1. PICK body \in Offers : Receive(q, "referrals", "insertProgram", [body |-> body])
      BY <1>1 DEF PostProgram
    <2> PICK m : m = [body |-> body]
      OBVIOUS
    <2>2. Put(q, "insertProgram", m) /\ pc[q] = "idle"
      BY <2>1, ReceivePuts DEF Base
    <2>3. /\ ReferralHeld("insertProgram", m) /\ SignupReady("insertProgram", m)
          /\ ProgramReady("insertProgram", m)
      BY DEF ReferralHeld, SignupReady, ProgramReady, RowSteps, PaySteps, SaveRowSteps
    <2> QED
      BY <2>2, <2>3, ReferralMoves
  <1>2. CASE PutProgram(q)
    <2>1. PICK p \in Stored, body \in ProgramBodies :
             Receive(q, "referrals", IF Activates(body) THEN "deactivateOthers" ELSE "updateProgram",
                     [program |-> p, body |-> body])
      BY <1>2 DEF PutProgram
    <2> PICK step : step = IF Activates(body) THEN "deactivateOthers" ELSE "updateProgram"
      OBVIOUS
    <2> PICK m : m = [program |-> p, body |-> body]
      OBVIOUS
    <2>2. Put(q, step, m) /\ pc[q] = "idle"
      BY <2>1, ReceivePuts DEF Base
    <2>3. p \in Programs
      BY DEF Stored
    <2>4. ReferralHeld(step, m) /\ SignupReady(step, m)
      BY <2>3 DEF ReferralHeld, SignupReady, RowSteps, PaySteps
    <2>5. ProgramReady(step, m)
      BY DEF ProgramReady, SaveRowSteps
    <2> QED
      BY <2>2, <2>4, <2>5, ReferralMoves
  <1>3. CASE GetProgramToActivate(q)
    <2> PICK p : p = mem[q].program
      OBVIOUS
    <2>1. pc[q] = "getProgram"
      BY <1>3 DEF GetProgramToActivate, At
    <2>2. CASE Answer(q)
      BY <2>1, <2>2, ReferralAnswers
    <2>3. CASE ~Answer(q)
      <3>1. p \in Stored /\ Put(q, "saveActive", [program |-> p, row |-> programs[p]])
        BY <1>3, <2>3, GotoPuts DEF GetProgramToActivate, Base
      <3>2. ~reshuffled => Active = {}
        BY <2>1 DEF ReferralInv, ProgramInv, ProgramReady
      <3> QED
        BY <2>1, <3>1, <3>2, RowIsReady, ReferralMoves
    <2> QED
      BY <2>2, <2>3
  <1>4. CASE DeactivateProgram(q)
    <2>1. PICK p \in Stored : Receive(q, "referrals", "saveInactive", [program |-> p, row |-> programs[p]])
      BY <1>4 DEF DeactivateProgram
    <2>2. Put(q, "saveInactive", [program |-> p, row |-> programs[p]]) /\ pc[q] = "idle"
      BY <2>1, ReceivePuts DEF Base
    <2> QED
      BY <2>2, RowIsReady, ReferralMoves
  <1> QED
    BY <1>1, <1>2, <1>3, <1>4

LEMMA ReferralInterruptedStep ==
    ASSUME Base, ReferralInv, NEW q \in Requests, ReferralInterrupted(q)
    PROVE  ReferralInv'
  <1>1. /\ Put(q, "idle", NoMemory) /\ UNCHANGED <<referrals, rewards, programs, signups, receipts, contested>>
        /\ UNCHANGED <<restated, lowered>> /\ reshuffled' = (reshuffled \/ pc[q] \in ProgramSteps)
    BY InterruptedPuts DEF ReferralInterrupted, referralTables, Base
  <1>2. reshuffled => reshuffled'
    BY <1>1
  <1>3. ReferralTypes'
    <2>1. /\ referrals' \in [Codes -> Referral \cup {None}]
          /\ programs' \in [Programs -> Program \cup {None}]
          /\ rewards' \in Seq(Reward) /\ receipts' \in Seq(Nat) /\ Len(receipts') = Len(rewards')
          /\ signups' \subseteq Codes \X Users /\ reshuffled' \in BOOLEAN
      BY <1>1 DEF ReferralInv, ReferralTypes
    <2> QED
      BY <1>1, <2>1, ReferralRests, ReferralTypesKept DEF ReferralInv
  <1>4. ReferralPairs'
    BY <1>1, <1>2 DEF ReferralInv, ReferralPairs, Put, SignupSteps, PaySteps, ProgramSteps
  <1>5. SignupInv'
    <2>1. \A c \in Issued : c \in Issued' /\ referrals'[c] = referrals[c]
      BY <1>1 DEF Issued
    <2> QED
      BY <1>1, <2>1, ReferralRests, SignupMoves DEF ReferralInv
  <1>6. ProgramInv'
    <2>1. SameWorth
      BY <1>1 DEF SameWorth
    <2>2. reshuffled' \/ pc[q] # "saveProgram"
      BY <1>1 DEF ProgramSteps
    <2> QED
      BY <1>1, <1>2, <2>1, <2>2, ReferralRests, ProgramMoves DEF ReferralInv
  <1> QED
    BY <1>3, <1>4, <1>5, <1>6 DEF ReferralInv

------------------------------------------------------------------------------
LEMMA CreateReferralStep ==
    ASSUME Base, ReferralInv, ReferralHistory, NEW q \in Requests, CreateReferral(q),
           UNCHANGED <<rewards, programs, signups, receipts, restated, lowered>>
    PROVE  ReferralInv'
  <1> PICK c : c = mem[q].code
    OBVIOUS
  <1> PICK new : new = [referrer |-> mem[q].user, referee |-> None, status |-> "PENDING"]
    OBVIOUS
  <1>1. pc[q] = "insertReferral" /\ Put(q, "idle", NoMemory)
    BY AnswerPuts DEF CreateReferral, At, Base
  <1>2. contested \subseteq contested' /\ (reshuffled => reshuffled') /\ ReferralPairs'
    BY ReferralHistoryNotes
  <1>3. c \in Codes /\ new \in Referral /\ referrals \in [Codes -> Referral \cup {None}]
    <2>1. c \in Codes /\ mem[q].user \in Users
      BY <1>1 DEF ReferralInv, ReferralTypes, ReferralHeld
    <2> QED
      BY <2>1 DEF Referral, ReferralInv, ReferralTypes
  <1>4. /\ referrals' \in [Codes -> Referral \cup {None}]
        /\ \A d \in Issued : d \in Issued' /\ referrals'[d] = referrals[d]
    BY <1>3 DEF CreateReferral, Issued
  <1>5. ReferralTypes'
    <2>1. ReferralTypes /\ reshuffled' \in BOOLEAN
      BY ReferralHistoryTyped DEF ReferralInv
    <2>2. /\ programs' \in [Programs -> Program \cup {None}]
          /\ rewards' \in Seq(Reward) /\ receipts' \in Seq(Nat) /\ Len(receipts') = Len(rewards')
          /\ signups' \subseteq Codes \X Users
      BY <2>1 DEF ReferralTypes
    <2> QED
      BY <1>1, <1>4, <2>1, <2>2, ReferralRests, ReferralTypesKept
  <1>6. SignupInv'
    BY <1>1, <1>2, <1>4, ReferralRests, SignupMoves DEF ReferralInv
  <1>7. ProgramInv'
    <2>1. SameWorth
      BY DEF SameWorth
    <2> QED
      BY <1>1, <1>2, <2>1, ReferralRests, ProgramMoves DEF ReferralInv
  <1> QED
    BY <1>2, <1>5, <1>6, <1>7 DEF ReferralInv

\* The signup is stored, and nobody else is at work on the code or the user unless this is
\* on record.
LEMMA SignupStored ==
    ASSUME ReferralTypes, ReferralPairs, SignupInv, NEW q \in Requests, pc[q] = "saveReferral",
           NEW m, m = mem[q], NEW row \in Referral, row.referrer = m.row.referrer, row.referee = m.user,
           Put(q, "findActive", m), contested \subseteq contested',
           referrals' = [referrals EXCEPT ![m.code] = row],
           signups' = signups \cup {<<m.code, m.user>>}, UNCHANGED <<rewards, receipts>>
    PROVE  SignupInv'
  <1> PICK c : c = m.code
    OBVIOUS
  <1> PICK u : u = m.user
    OBVIOUS
  <1>1. m \in [user : Users, code : Codes, row : Referral] /\ u \in Users /\ c \in Codes
    BY DEF ReferralTypes, ReferralHeld, RowSteps
  <1>2. SignupReady("saveReferral", m)
    BY DEF SignupInv
  <1>3. c \in Issued /\ m.row.referrer = referrals[c].referrer
    BY <1>2 DEF SignupReady, RowSteps
  <1>4. c \notin contested => ~Signed(c)
    BY <1>2 DEF SignupReady
  <1>5. u \notin contested => \A s \in signups : s[2] = u => s[1] \in contested
    BY <1>2 DEF SignupReady
  <1>6. /\ referrals'[c] = row /\ row # None /\ u # None
        /\ \A d \in Codes \ {c} : referrals'[d] = referrals[d]
    BY <1>1, ReferralAssumption DEF ReferralTypes
  <1>7. Issued' = Issued /\ \A d \in Issued : referrals'[d].referrer = referrals[d].referrer
    BY <1>3, <1>6 DEF Issued
  <1>8. /\ \A d : Signed(d) => Signed(d)'
        /\ \A d : d # c => (Signed(d)' <=> Signed(d))
    BY DEF Signed
  <1>9. \A s \in signups : s[1] = c => Signed(c)
    BY DEF Signed, ReferralTypes
  <1>10. \A d : OfCode(d)' = OfCode(d)
    BY DEF OfCode
  <1> PICK new : new = <<c, u>>
    OBVIOUS
  <1>11. signups' = signups \cup {new} /\ new[1] = c /\ new[2] = u
    OBVIOUS
  <1>12. SignupsStored'
    <2>1. ASSUME NEW s \in signups'
          PROVE  /\ s[1] \in Issued' /\ referrals'[s[1]].referee # None
                 /\ s[1] \notin contested' => referrals'[s[1]].referee = s[2]
      <3>1. CASE s = new
        BY <1>3, <1>6, <1>7, <1>11, <3>1
      <3>2. CASE s \in signups
        <4>1. /\ s[1] \in Issued /\ referrals[s[1]].referee # None
              /\ s[1] \notin contested => referrals[s[1]].referee = s[2]
          BY <3>2 DEF SignupInv, SignupsStored
        <4>2. CASE s[1] = c
          BY <1>3, <1>4, <1>6, <1>7, <1>9, <3>2, <4>2
        <4>3. CASE s[1] # c
          <5>1. referrals'[s[1]] = referrals[s[1]]
            BY <1>6, <4>1, <4>3 DEF Issued
          <5> QED
            BY <1>7, <4>1, <5>1
        <4> QED
          BY <4>2, <4>3
      <3> QED
        BY <1>11, <3>1, <3>2
    <2>2. ASSUME NEW s \in signups', NEW t \in signups', s # t
          PROVE  /\ s[1] = t[1] => s[1] \in contested'
                 /\ s[2] = t[2] => {s[1], s[2], t[1]} \cap contested' # {}
      <3>1. CASE s \in signups /\ t \in signups
        BY <2>2, <3>1 DEF SignupInv, SignupsStored
      <3>2. CASE s \in signups /\ t = new
        BY <1>4, <1>5, <1>9, <1>11, <3>2
      <3>3. CASE s = new /\ t \in signups
        BY <1>4, <1>5, <1>9, <1>11, <3>3
      <3> QED
        BY <1>11, <2>2, <3>1, <3>2, <3>3
    <2> QED
      BY <2>1, <2>2 DEF SignupsStored
  <1>13. RewardsStored'
    <2>1. ASSUME NEW i \in DOMAIN rewards PROVE Earned(rewards[i])'
      BY <1>7, <1>8, <1>11 DEF SignupInv, RewardsStored, Earned
    <2>2. (\A i \in DOMAIN rewards : Earned(rewards[i]))'
      BY <2>1 DEF Earned
    <2> QED
      BY <1>10, <2>2 DEF SignupInv, RewardsStored
  <1>14. \A r \in Requests \ {q} : SignupReady(pc[r], mem[r])'
    <2> SUFFICES ASSUME NEW r \in Requests \ {q} PROVE SignupReady(pc[r], mem[r])'
      OBVIOUS
    <2> PICK held : held = mem[r]
      OBVIOUS
    <2>1. pc'[r] = pc[r] /\ mem'[r] = held /\ SignupReady(pc[r], held)
      BY DEF Put, SignupInv
    <2>2. pc[r] \in SignupSteps =>
             /\ held.code = c => c \in contested'
             /\ held.user = u => u \in contested'
      BY DEF ReferralPairs, SignupSteps
    <2>3. pc[r] \in RowSteps => held.code \in Issued' /\ held.row.referrer = referrals'[held.code].referrer
      BY <1>7, <2>1 DEF SignupReady
    <2>4. pc[r] = "saveRewards" => held.code \in Issued' /\ held.referrer = referrals'[held.code].referrer
      BY <1>7, <2>1 DEF SignupReady
    <2>5. pc[r] \in {"findActive", "saveRewards"} => <<held.code, held.user>> \in signups'
      BY <1>11, <2>1 DEF SignupReady
    <2>6. pc[r] \in {"findReferee", "saveReferral"} /\ held.code \notin contested' => ~Signed(held.code)'
      BY <1>8, <2>1, <2>2 DEF SignupReady, SignupSteps
    <2>7. pc[r] = "saveReferral" /\ held.user \notin contested' =>
             \A s \in signups' : s[2] = held.user => s[1] \in contested'
      BY <1>11, <2>1, <2>2 DEF SignupReady, SignupSteps
    <2>8. pc[r] \in {"findActive", "saveRewards"} /\ held.code \notin contested' => OfCode(held.code)' = {}
      BY <1>10, <2>1 DEF SignupReady
    <2>9. /\ pc[r] \in PaySteps => held.reward \in DOMAIN rewards
          /\ pc[r] = "saveReward" /\ held.reward \notin contested' => rewards[held.reward].status = "PENDING"
      BY <2>1 DEF SignupReady
    <2> QED
      BY <2>1, <2>3, <2>4, <2>5, <2>6, <2>7, <2>8, <2>9 DEF SignupReady
  <1>15. SignupReady(pc[q], mem[q])'
    <2>1. c \notin contested' => OfCode(c)' = {}
      BY <1>4, <1>10 DEF SignupInv, RewardsStored, Earned, OfCode
    <2>2. pc'[q] = "findActive" /\ mem'[q] = m
      BY DEF Put
    <2> QED
      BY <1>3, <1>7, <1>11, <2>1, <2>2 DEF SignupReady, RowSteps, PaySteps
  <1> QED
    BY <1>12, <1>13, <1>14, <1>15 DEF SignupInv

LEMMA SaveReferralStep ==
    ASSUME Base, ReferralInv, ReferralHistory, NEW q \in Requests, SaveReferral(q),
           UNCHANGED <<rewards, programs, receipts, restated, lowered>>
    PROVE  ReferralInv'
  <1> PICK m : m = mem[q]
    OBVIOUS
  <1>1. pc[q] = "saveReferral"
    BY DEF SaveReferral, At
  <1>2. CASE Answer(q) /\ UNCHANGED <<referrals, signups>>
    BY <1>1, <1>2, ReferralAnswers DEF referralTables
  <1>3. CASE ~(Answer(q) /\ UNCHANGED <<referrals, signups>>)
    <2> PICK row : row = [m.row EXCEPT !.referee = m.user, !.status = "COMPLETED"]
      OBVIOUS
    <2>1. /\ referrals' = [referrals EXCEPT ![m.code] = row]
          /\ signups' = signups \cup {<<m.code, m.user>>}
          /\ Put(q, "findActive", m)
      BY <1>3, GotoPuts DEF SaveReferral, Base
    <2>2. m \in [user : Users, code : Codes, row : Referral]
      BY <1>1 DEF ReferralInv, ReferralTypes, ReferralHeld, RowSteps
    <2>3. row \in Referral /\ row.referrer = m.row.referrer /\ row.referee = m.user
      BY <2>2 DEF Referral
    <2>4. contested \subseteq contested' /\ (reshuffled => reshuffled') /\ ReferralPairs'
      BY ReferralHistoryNotes
    <2>5. ReferralHeld("findActive", m) /\ ProgramReady("findActive", m)
      BY <2>2 DEF ReferralHeld, RowSteps, PaySteps, ProgramReady, SaveRowSteps
    <2>6. ReferralTypes'
      <3>1. ReferralTypes /\ reshuffled' \in BOOLEAN
        BY ReferralHistoryTyped DEF ReferralInv
      <3>2. referrals' \in [Codes -> Referral \cup {None}] /\ signups' \subseteq Codes \X Users
        BY <2>1, <2>2, <2>3, <3>1 DEF ReferralTypes
      <3>3. /\ programs' \in [Programs -> Program \cup {None}]
            /\ rewards' \in Seq(Reward) /\ receipts' \in Seq(Nat) /\ Len(receipts') = Len(rewards')
        BY <3>1 DEF ReferralTypes
      <3> QED
        BY <2>1, <2>5, <3>1, <3>2, <3>3, ReferralTypesKept
    <2>7. SignupInv'
      BY <1>1, <2>1, <2>3, <2>4, SignupStored DEF ReferralInv
    <2>8. ProgramInv'
      <3>1. SameWorth
        BY DEF SameWorth
      <3> QED
        BY <1>1, <2>1, <2>4, <2>5, <3>1, ProgramMoves DEF ReferralInv
    <2> QED
      BY <2>4, <2>6, <2>7, <2>8 DEF ReferralInv
  <1> QED
    BY <1>2, <1>3

------------------------------------------------------------------------------
LEMMA TwoMore ==
    ASSUME NEW n \in Nat
    PROVE  1 .. (n + 2) = (1 .. n) \cup {n + 1, n + 2}
  <1>1. ASSUME NEW i \in 1 .. (n + 2) PROVE i \in (1 .. n) \cup {n + 1, n + 2}
    <2>1. i \in Int /\ 1 <= i /\ (i <= n \/ i = n + 1 \/ i = n + 2)
      OBVIOUS
    <2> QED
      BY <2>1
  <1>2. ASSUME NEW i \in (1 .. n) \cup {n + 1, n + 2} PROVE i \in 1 .. (n + 2)
    OBVIOUS
  <1> QED
    BY <1>1, <1>2

\* Rewards a and b are appended to the n there are.
Appended(n, a, b) ==
    /\ rewards' \in Seq(Reward) /\ receipts' \in Seq(Nat) /\ Len(receipts') = Len(rewards')
    /\ n \in Nat /\ DOMAIN rewards = 1 .. n /\ DOMAIN rewards' = (1 .. n) \cup {n + 1, n + 2}
    /\ \A i \in 1 .. n : rewards'[i] = rewards[i] /\ receipts'[i] = receipts[i]
    /\ rewards'[n + 1] = a /\ rewards'[n + 2] = b /\ receipts'[n + 1] = 0 /\ receipts'[n + 2] = 0

LEMMA RewardsAppended ==
    ASSUME ReferralTypes, NEW a \in Reward, NEW b \in Reward,
           rewards' = rewards \o <<a, b>>, receipts' = receipts \o <<0, 0>>,
           NEW n, n = Len(rewards)
    PROVE  Appended(n, a, b)
  <1>1. rewards \in Seq(Reward) /\ receipts \in Seq(Nat) /\ Len(receipts) = n /\ n \in Nat
    BY DEF ReferralTypes
  <1>2. <<a, b>> \in Seq(Reward) /\ Len(<<a, b>>) = 2 /\ <<0, 0>> \in Seq(Nat)
    OBVIOUS
  <1>3. rewards' \in Seq(Reward) /\ receipts' \in Seq(Nat) /\ Len(rewards') = n + 2 /\ Len(receipts') = n + 2
    BY <1>1, <1>2
  <1>4. DOMAIN rewards = 1 .. n /\ DOMAIN rewards' = 1 .. (n + 2)
    BY <1>1, <1>3
  <1>5. 1 .. (n + 2) = (1 .. n) \cup {n + 1, n + 2}
    BY <1>1, TwoMore
  <1>6. \A i \in 1 .. n : rewards'[i] = rewards[i] /\ receipts'[i] = receipts[i]
    BY <1>1
  <1>7. rewards'[n + 1] = a /\ rewards'[n + 2] = b /\ receipts'[n + 1] = 0 /\ receipts'[n + 2] = 0
    BY <1>1
  <1> QED
    BY <1>1, <1>3, <1>4, <1>5, <1>6, <1>7 DEF Appended

\* The pair of rewards of a signup: what is stored of signups and rewards.
LEMMA RewardsSaved ==
    ASSUME ReferralTypes, ReferralPairs, SignupInv, NEW q \in Requests, pc[q] = "saveRewards",
           NEW c, c = mem[q].code, NEW a, NEW b, NEW n, Appended(n, a, b),
           a.code = c, b.code = c, a.type = "REFERRER", b.type = "REFEREE",
           a.user = mem[q].referrer, b.user = mem[q].user,
           Put(q, "saveProgram", mem[q]), contested \subseteq contested', UNCHANGED <<referrals, signups>>
    PROVE  SignupInv'
  <1> /\ n \in Nat /\ DOMAIN rewards = 1 .. n /\ DOMAIN rewards' = (1 .. n) \cup {n + 1, n + 2}
      /\ \A i \in 1 .. n : rewards'[i] = rewards[i] /\ receipts'[i] = receipts[i]
      /\ rewards'[n + 1] = a /\ rewards'[n + 2] = b /\ receipts'[n + 1] = 0 /\ receipts'[n + 2] = 0
    BY DEF Appended
  <1>1. SignupReady("saveRewards", mem[q])
    BY DEF SignupInv
  <1>2. /\ c \in Issued /\ mem[q].referrer = referrals[c].referrer /\ <<c, mem[q].user>> \in signups
        /\ c \notin contested => OfCode(c) = {}
    BY <1>1 DEF SignupReady
  <1>3. Issued' = Issued /\ \A d : Signed(d)' = Signed(d)
    BY DEF Issued, Signed
  <1>4. SignupsStored'
    BY <1>3 DEF SignupInv, SignupsStored
  <1>5. mem[q].user \in Users
    BY DEF ReferralTypes, ReferralHeld
  <1>6. Earned(a) /\ Earned(b)
    BY <1>2, <1>5 DEF Earned, Signed
  <1>7. \A r : Earned(r)' = Earned(r)
    BY <1>3 DEF Earned
  <1>8. n + 1 \notin 1 .. n /\ n + 2 \notin 1 .. n
    OBVIOUS
  <1>9. \A d : d # c => OfCode(d)' = OfCode(d)
    BY DEF OfCode
  <1>10. OfCode(c) = {} => OfCode(c)' = {n + 1, n + 2}
    BY DEF OfCode
  <1>11. RewardsStored'
    <2>1. \A i \in DOMAIN rewards' : Earned(rewards'[i])
      BY <1>6 DEF SignupInv, RewardsStored
    <2>2. \A i \in DOMAIN rewards' :
             /\ rewards'[i].status = "PENDING" => receipts'[i] = 0
             /\ i \notin contested' => receipts'[i] <= 1
      BY DEF SignupInv, RewardsStored
    <2>3. ASSUME NEW d \in Codes \ contested' PROVE Cardinality(OfCode(d)') \in 0 .. 2
      <3>1. CASE d # c
        <4>1. Cardinality(OfCode(d)) \in 0 .. 2
          BY DEF SignupInv, RewardsStored
        <4> QED
          BY <1>9, <3>1, <4>1
      <3>2. CASE d = c
        <4>1. OfCode(d)' = {n + 1, n + 2} /\ n + 2 \notin {n + 1}
          BY <1>2, <1>10, <3>2
        <4>2. IsFiniteSet({n + 1}) /\ Cardinality({n + 1}) = 1
          BY FS_Singleton
        <4>3. Cardinality({n + 1} \cup {n + 2}) = Cardinality({n + 1}) + 1
          BY <4>1, <4>2, FS_AddElement
        <4>4. {n + 1} \cup {n + 2} = {n + 1, n + 2}
          OBVIOUS
        <4> QED
          BY <4>1, <4>2, <4>3, <4>4
      <3> QED
        BY <3>1, <3>2
    <2>4. (\A i \in DOMAIN rewards : Earned(rewards[i]))'
      BY <1>7, <2>1
    <2> QED
      BY <2>2, <2>3, <2>4 DEF RewardsStored
  <1>12. \A r \in Requests \ {q} : SignupReady(pc[r], mem[r])'
    <2> SUFFICES ASSUME NEW r \in Requests \ {q} PROVE SignupReady(pc[r], mem[r])'
      OBVIOUS
    <2>1. pc'[r] = pc[r] /\ mem'[r] = mem[r] /\ SignupReady(pc[r], mem[r])
      BY DEF Put, SignupInv
    <2>2. pc[r] \in SignupSteps /\ mem[r].code = c => c \in contested'
      BY DEF ReferralPairs, SignupSteps
    <2>3. pc[r] \in {"findActive", "saveRewards"} /\ mem[r].code \notin contested' => OfCode(mem[r].code)' = {}
      BY <1>9, <2>1, <2>2 DEF SignupReady, SignupSteps
    <2>4. /\ pc[r] \in PaySteps => mem[r].reward \in 1 .. n
          /\ pc[r] = "saveReward" /\ mem[r].reward \notin contested' => rewards[mem[r].reward].status = "PENDING"
      BY <2>1 DEF SignupReady
    <2>5. /\ pc[r] \in PaySteps => mem[r].reward \in DOMAIN rewards'
          /\ pc[r] = "saveReward" /\ mem[r].reward \notin contested' => rewards'[mem[r].reward].status = "PENDING"
      BY <2>4 DEF PaySteps
    <2> QED
      BY <1>3, <2>1, <2>3, <2>5 DEF SignupReady
  <1>13. SignupReady(pc[q], mem[q])'
    BY DEF Put, SignupReady, RowSteps, PaySteps
  <1> QED
    BY <1>4, <1>11, <1>12, <1>13 DEF SignupInv

\* What the pair adds to what is promised.
LEMMA PairAdded ==
    ASSUME ReferralTypes, NEW p, NEW a \in Reward, NEW b \in Reward, NEW n, Appended(n, a, b),
           a.program = p, b.program = p, NEW gain, a.amount + b.amount = gain
    PROVE  Promised(p)' = Promised(p) + gain /\ \A r : r # p => Promised(r)' = Promised(r)
  <1> /\ n \in Nat /\ DOMAIN rewards = 1 .. n /\ DOMAIN rewards' = (1 .. n) \cup {n + 1, n + 2}
      /\ \A i \in 1 .. n : rewards'[i] = rewards[i]
      /\ rewards'[n + 1] = a /\ rewards'[n + 2] = b
    BY DEF Appended
  <1> PICK w : w = Worth'
    OBVIOUS
  <1> PICK two : two = {n + 1, n + 2}
    OBVIOUS
  <1>1. /\ n + 1 \notin 1 .. n /\ n + 2 \notin 1 .. n /\ n + 1 # n + 2
        /\ a.amount \in Nat /\ b.amount \in Nat
    BY DEF Reward
  <1>2. /\ \A i \in 1 .. n : w[i] = Worth[i] /\ w[i] \in Nat
        /\ w[n + 1] = a.amount /\ w[n + 2] = b.amount
    <2>1. \A i \in 1 .. n : rewards[i] \in Reward
      BY DEF ReferralTypes
    <2>2. \A i \in 1 .. n : rewards[i].amount \in Nat
      BY <2>1 DEF Reward
    <2>3. /\ w = [i \in DOMAIN rewards' |-> rewards'[i].amount]
          /\ Worth = [i \in DOMAIN rewards |-> rewards[i].amount]
      BY DEF Worth
    <2> QED
      BY <1>1, <2>2, <2>3
  <1>3. \A r : OfProgram(r) \subseteq 1 .. n /\ IsFiniteSet(OfProgram(r)) /\ Promised(r) \in Nat
    BY PromisedCounted DEF OfProgram
  <1>4. \A r : Sum(w, OfProgram(r)) = Promised(r)
    <2> SUFFICES ASSUME NEW r PROVE Sum(w, OfProgram(r)) = Promised(r)
      OBVIOUS
    <2> PICK S : S = OfProgram(r)
      OBVIOUS
    <2> PICK v : v = Worth
      OBVIOUS
    <2>1. IsFiniteSet(S) /\ \A i \in S : w[i] = v[i]
      BY <1>2, <1>3
    <2>2. Sum(w, S) = Sum(v, S)
      BY <2>1, SumSame
    <2> QED
      BY <2>2, PromisedIs
  <1>5. \A r : Promised(r)' = Sum(w, OfProgram(r)')
    BY PromisedNextIs
  <1>6. \A r : r # p => OfProgram(r)' = OfProgram(r)
    BY <1>1 DEF OfProgram
  <1>7. OfProgram(p)' = OfProgram(p) \cup two
    BY <1>1 DEF OfProgram
  <1>8. IsFiniteSet(two) /\ Sum(w, two) = gain
    <2>1. IsFiniteSet(two) /\ n + 1 \in two /\ \A y \in two : w[y] \in Nat
      <3>1. IsFiniteSet({n + 1}) /\ {n + 1} \cup {n + 2} = two
        BY FS_Singleton
      <3>2. IsFiniteSet({n + 1} \cup {n + 2})
        BY <3>1, FS_AddElement
      <3> QED
        BY <1>1, <1>2, <3>1, <3>2
    <2>2. Sum(w, two) = w[n + 1] + Sum(w, two \ {n + 1})
      BY <2>1, SumWithout
    <2>3. two \ {n + 1} = {n + 2} /\ {n + 2} \ {n + 2} = {}
      BY <1>1
    <2>4. IsFiniteSet({n + 2}) /\ n + 2 \in {n + 2} /\ \A y \in {n + 2} : w[y] \in Nat
      BY <2>1, FS_Singleton
    <2>5. Sum(w, {n + 2}) = w[n + 2] + Sum(w, {n + 2} \ {n + 2})
      BY <2>4, SumWithout
    <2>6. Sum(w, {}) = 0
      BY SumEmpty
    <2>7. Sum(w, two) = a.amount + (b.amount + 0)
      BY <1>2, <2>2, <2>3, <2>5, <2>6
    <2> QED
      BY <1>1, <2>1, <2>7
  <1>9. Sum(w, OfProgram(p) \cup two) = Sum(w, OfProgram(p)) + Sum(w, two)
    <2> PICK S : S = OfProgram(p)
      OBVIOUS
    <2>1. IsFiniteSet(S) /\ S \cap two = {} /\ \A x \in S \cup two : w[x] \in Nat
      BY <1>1, <1>2, <1>3
    <2> QED
      BY <1>8, <2>1, SumUnion
  <1> QED
    BY <1>4, <1>5, <1>6, <1>7, <1>8, <1>9

\* The same pair, for the budget of the programme.
LEMMA PairPromised ==
    ASSUME ReferralTypes, ReferralPairs, ProgramInv, NEW q \in Requests, pc[q] = "saveRewards",
           NEW p, p = mem[q].program, NEW a \in Reward, NEW b \in Reward, NEW n, Appended(n, a, b),
           a.program = p, b.program = p, a.amount + b.amount = Pair(mem[q].row),
           Put(q, "saveProgram", mem[q]), reshuffled => reshuffled', UNCHANGED <<programs, restated, lowered>>
    PROVE  ProgramInv'
  <1> /\ n \in Nat /\ DOMAIN rewards = 1 .. n /\ DOMAIN rewards' = (1 .. n) \cup {n + 1, n + 2}
      /\ \A i \in 1 .. n : rewards'[i] = rewards[i] /\ receipts'[i] = receipts[i]
      /\ rewards'[n + 1] = a /\ rewards'[n + 2] = b /\ receipts'[n + 1] = 0 /\ receipts'[n + 2] = 0
    BY DEF Appended
  <1> PICK row : row = mem[q].row
    OBVIOUS
  <1>1. p \in Programs /\ row \in Program /\ row.used \in Nat /\ row.total \in Nat \cup {None} /\ Pair(row) \in Nat
    BY DEF ReferralTypes, ReferralHeld, Program, Pair
  <1>2. ProgramReady("saveRewards", mem[q])
    BY DEF ProgramInv
  <1>3. p \in Stored /\ (p \notin restated => row.used + 0 <= Promised(p))
    BY <1>2 DEF ProgramReady, SaveRowSteps
  <1>4. ~reshuffled => row = programs[p] /\ (row.total # None => row.used + Pair(row) <= row.total)
    BY <1>2 DEF ProgramReady, SaveRowSteps
  <1>5. Stored' = Stored /\ Active' = Active
    BY DEF Stored, Active
  <1>6. \A r : IsFiniteSet(OfProgram(r)) /\ Promised(r) \in Nat
    BY PromisedCounted
  <1>9. \A r : r # p => OfProgram(r)' = OfProgram(r)
    BY DEF OfProgram
  <1>12. Promised(p)' = Promised(p) + Pair(mem[q].row) /\ \A r : r # p => Promised(r)' = Promised(r)
    BY PairAdded
  <1>13. \A r \in Requests \ {q} : pc'[r] = pc[r] /\ mem'[r] = mem[r] /\ (pc[r] \in ProgramSteps => reshuffled')
    BY DEF Put, ReferralPairs, ProgramSteps
  <1>14. ~reshuffled' => Counting(p)' /\ (\A r : r # p => ~Counting(r)') /\ \A r : ~Counting(r)
    BY <1>13 DEF Counting, Put, ProgramSteps
  <1>15. \A r \in Stored : programs[r].used \in Nat
    BY StoredProgram
  <1>16. BudgetsKept'
    <2>1. ASSUME NEW r \in Stored \ restated
          PROVE  /\ programs'[r].used <= Promised(r)'
                 /\ ~reshuffled' => programs'[r].used + Uncounted(r)' = Promised(r)' /\ Covered(r)'
      <3>1. /\ programs[r].used <= Promised(r)
            /\ ~reshuffled => programs[r].used + Uncounted(r) = Promised(r) /\ Covered(r)
        BY DEF ProgramInv, BudgetsKept
      <3>2. ~reshuffled' => programs[r].used + 0 = Promised(r) /\ Covered(r)
        BY <1>14, <3>1 DEF Uncounted
      <3>3. CASE r # p
        BY <1>12, <1>14, <3>1, <3>2, <3>3 DEF Uncounted, Covered
      <3>4. CASE r = p
        <4>1. programs[r].used <= Promised(r) + Pair(row)
          BY <1>1, <1>6, <1>15, <3>1
        <4>2. ~reshuffled' => /\ Uncounted(r)' = Pair(row) /\ programs[r].used + Pair(row) = Promised(r) + Pair(row)
          BY <1>1, <1>4, <1>6, <1>14, <1>15, <3>2, <3>4 DEF Uncounted
        <4>3. ~reshuffled' => Covered(r)'
          BY <1>1, <1>4, <1>6, <1>12, <1>15, <3>2, <3>4 DEF Covered
        <4> QED
          BY <1>12, <3>4, <4>1, <4>2, <4>3
      <3> QED
        BY <3>3, <3>4
    <2> QED
      BY <1>5, <2>1 DEF BudgetsKept
  <1>17. Unpromised'
    BY <1>3, <1>5, <1>9 DEF ProgramInv, Unpromised
  <1>18. OneAtMost'
    BY <1>5 DEF ProgramInv, OneAtMost
  <1>19. \A r \in Requests \ {q} : ProgramReady(pc[r], mem[r])'
    <2> SUFFICES ASSUME NEW r \in Requests \ {q} PROVE ProgramReady(pc[r], mem[r])'
      OBVIOUS
    <2>1. pc'[r] = pc[r] /\ mem'[r] = mem[r] /\ ProgramReady(pc[r], mem[r]) /\ ReferralHeld(pc[r], mem[r])
      BY <1>13 DEF ProgramInv, ReferralTypes
    <2>2. ~reshuffled' => pc[r] \notin ProgramSteps
      BY <1>13
    <2>3. pc[r] \in SaveRowSteps => mem[r].row.used \in Nat /\ Pair(mem[r].row) \in Nat
      BY <2>1 DEF ReferralHeld, SaveRowSteps, Program, Pair
    <2> PICK held : held = mem[r]
      OBVIOUS
    <2>4. pc[r] \in SaveRowSteps /\ held.program \notin restated =>
             held.row.used + (IF pc[r] = "saveProgram" THEN Pair(held.row) ELSE 0) <= Promised(held.program)'
      <3>1. pc[r] \in SaveRowSteps /\ held.program \notin restated =>
               held.row.used + (IF pc[r] = "saveProgram" THEN Pair(held.row) ELSE 0) <= Promised(held.program)
        BY <2>1 DEF ProgramReady
      <3>2. /\ Promised(held.program) \in Nat /\ Pair(row) \in Nat
            /\ Promised(held.program)' \in {Promised(held.program), Promised(held.program) + Pair(row)}
        BY <1>1, <1>6, <1>12
      <3>3. IF pc[r] = "saveProgram" THEN pc[r] \in SaveRowSteps ELSE TRUE
        BY DEF SaveRowSteps
      <3> QED
        BY <2>3, <3>1, <3>2
    <2> QED
      BY <1>5, <2>1, <2>2, <2>4 DEF ProgramReady, SaveRowSteps, ProgramSteps
  <1>20. ProgramReady(pc[q], mem[q])'
    <2>1. p \notin restated => row.used + Pair(row) <= Promised(p)'
      BY <1>1, <1>3, <1>6, <1>12
    <2>2. pc'[q] = "saveProgram" /\ mem'[q] = mem[q]
      BY DEF Put
    <2> QED
      BY <1>3, <1>4, <1>5, <2>1, <2>2 DEF ProgramReady, SaveRowSteps
  <1> QED
    BY <1>16, <1>17, <1>18, <1>19, <1>20 DEF ProgramInv

------------------------------------------------------------------------------
LEMMA SaveRewardsStep ==
    ASSUME Base, ReferralInv, ReferralHistory, NEW q \in Requests, SaveRewards(q),
           UNCHANGED <<referrals, programs, signups, restated, lowered>>
    PROVE  ReferralInv'
  <1> PICK m : m = mem[q]
    OBVIOUS
  <1> PICK n : n = Len(rewards)
    OBVIOUS
  <1> PICK a : a = NewReward(q, m.referrer, "REFERRER")
    OBVIOUS
  <1> PICK b : b = NewReward(q, m.user, "REFEREE")
    OBVIOUS
  <1>1. /\ pc[q] = "saveRewards" /\ Put(q, "saveProgram", m)
        /\ rewards' = rewards \o <<a, b>> /\ receipts' = receipts \o <<0, 0>>
    BY GotoPuts DEF SaveRewards, At, Base
  <1>2. ReferralHeld("saveRewards", m)
    BY <1>1 DEF ReferralInv, ReferralTypes
  <1>3. m \in [user : Users, code : Codes, referrer : Users, program : Programs, row : Program]
    BY <1>2 DEF ReferralHeld
  <1>4. /\ a \in Reward /\ a.code = m.code /\ a.user = m.referrer /\ a.type = "REFERRER" /\ a.program = m.program
        /\ b \in Reward /\ b.code = m.code /\ b.user = m.user /\ b.type = "REFEREE" /\ b.program = m.program
        /\ a.amount + b.amount = Pair(m.row)
    <2>1. /\ m.code \in Codes /\ m.user \in Users /\ m.referrer \in Users /\ m.program \in Programs
          /\ m.row.referrerReward \in Nat /\ m.row.refereeReward \in Nat
      BY <1>3 DEF Program
    <2>2. /\ a = [code |-> m.code, user |-> m.referrer, type |-> "REFERRER", program |-> m.program,
                  status |-> "PENDING", amount |-> m.row.referrerReward]
          /\ b = [code |-> m.code, user |-> m.user, type |-> "REFEREE", program |-> m.program,
                  status |-> "PENDING", amount |-> m.row.refereeReward]
      BY DEF NewReward
    <2>3. a \in Reward /\ b \in Reward
      BY <2>1, <2>2 DEF Reward
    <2> QED
      BY <2>2, <2>3 DEF Pair
  <1> a \in Reward /\ b \in Reward /\ ReferralTypes /\ ReferralPairs /\ SignupInv /\ ProgramInv
    BY <1>4 DEF ReferralInv
  <1>5. Appended(n, a, b)
    BY <1>1, RewardsAppended
  <1>6. contested \subseteq contested' /\ (reshuffled => reshuffled') /\ ReferralPairs'
    BY ReferralHistoryNotes
  <1>7. ReferralTypes'
    <2>1. ReferralTypes /\ reshuffled' \in BOOLEAN /\ ReferralHeld("saveProgram", m)
      BY <1>3, ReferralHistoryTyped DEF ReferralInv, ReferralHeld, RowSteps, PaySteps
    <2>2. /\ referrals' \in [Codes -> Referral \cup {None}] /\ programs' \in [Programs -> Program \cup {None}]
          /\ signups' \subseteq Codes \X Users
      BY <2>1 DEF ReferralTypes
    <2>3. rewards' \in Seq(Reward) /\ receipts' \in Seq(Nat) /\ Len(receipts') = Len(rewards')
      BY <1>5 DEF Appended
    <2> QED
      BY <1>1, <2>1, <2>2, <2>3, ReferralTypesKept
  <1>8. SignupInv'
    BY <1>1, <1>4, <1>5, <1>6, RewardsSaved
  <1>9. ProgramInv'
    BY <1>1, <1>4, <1>5, <1>6, PairPromised
  <1> QED
    BY <1>6, <1>7, <1>8, <1>9 DEF ReferralInv

LEMMA SaveRewardStep ==
    ASSUME Base, ReferralInv, ReferralHistory, NEW q \in Requests, SaveReward(q),
           UNCHANGED <<referrals, programs, signups, restated, lowered>>
    PROVE  ReferralInv'
  <1> PICK i : i = mem[q].reward
    OBVIOUS
  <1>1. /\ pc[q] = "saveReward" /\ Put(q, "idle", NoMemory)
        /\ rewards' = [rewards EXCEPT ![i].status = "PAID"] /\ receipts' = [receipts EXCEPT ![i] = @ + 1]
    BY AnswerPuts DEF SaveReward, At, Base
  <1>2. contested \subseteq contested' /\ (reshuffled => reshuffled') /\ ReferralPairs'
    BY ReferralHistoryNotes
  <1>3. SignupReady("saveReward", mem[q])
    BY <1>1 DEF ReferralInv, SignupInv
  <1>4. i \in DOMAIN rewards /\ (i \notin contested => rewards[i].status = "PENDING")
    BY <1>3 DEF SignupReady, PaySteps
  <1>5. /\ rewards \in Seq(Reward) /\ receipts \in Seq(Nat) /\ DOMAIN receipts = DOMAIN rewards
        /\ rewards[i] \in Reward /\ receipts[i] \in Nat
    BY <1>4 DEF ReferralInv, ReferralTypes
  <1> PICK paid : paid = [rewards[i] EXCEPT !.status = "PAID"]
    OBVIOUS
  <1>6. /\ paid \in Reward /\ paid.code = rewards[i].code /\ paid.user = rewards[i].user
        /\ paid.type = rewards[i].type /\ paid.program = rewards[i].program /\ paid.status = "PAID"
        /\ paid.amount = rewards[i].amount
    BY <1>5 DEF Reward
  <1>7. rewards' = [rewards EXCEPT ![i] = paid]
    BY <1>1, <1>4
  <1>8. /\ rewards' \in Seq(Reward) /\ receipts' \in Seq(Nat) /\ Len(rewards') = Len(rewards)
        /\ Len(receipts') = Len(receipts) /\ DOMAIN rewards' = DOMAIN rewards
        /\ rewards'[i] = paid /\ receipts'[i] = receipts[i] + 1
        /\ \A j \in DOMAIN rewards \ {i} : rewards'[j] = rewards[j] /\ receipts'[j] = receipts[j]
    BY <1>1, <1>4, <1>5, <1>6, <1>7
  <1>9. \A j \in DOMAIN rewards : /\ rewards'[j].code = rewards[j].code /\ rewards'[j].user = rewards[j].user
                                  /\ rewards'[j].type = rewards[j].type
                                  /\ rewards'[j].program = rewards[j].program
                                  /\ rewards'[j].amount = rewards[j].amount
    BY <1>6, <1>8
  <1>10. \A c : OfCode(c)' = OfCode(c) /\ Signed(c)' = Signed(c)
    BY <1>8, <1>9 DEF OfCode, Signed
  <1>11. SameWorth
    BY <1>8, <1>9 DEF SameWorth
  <1>12. ReferralTypes'
    <2>1. ReferralTypes /\ reshuffled' \in BOOLEAN
      BY ReferralHistoryTyped DEF ReferralInv
    <2>2. /\ referrals' \in [Codes -> Referral \cup {None}] /\ programs' \in [Programs -> Program \cup {None}]
          /\ signups' \subseteq Codes \X Users /\ Len(receipts') = Len(rewards')
      BY <1>8, <2>1 DEF ReferralTypes
    <2> QED
      BY <1>1, <1>8, <2>1, <2>2, ReferralRests, ReferralTypesKept
  <1>13. SignupInv'
    <2>1. SignupsStored'
      BY <1>2 DEF ReferralInv, SignupInv, SignupsStored, Issued
    <2>2. \A j \in DOMAIN rewards' : Earned(rewards[j]) /\ Earned(rewards'[j])
      BY <1>8, <1>9 DEF ReferralInv, SignupInv, RewardsStored, Earned
    <2>3. \A r : Earned(r)' = Earned(r)
      BY <1>10 DEF Earned, Issued
    <2>4. (\A j \in DOMAIN rewards : Earned(rewards[j]))'
      BY <2>2, <2>3
    <2>5. ASSUME NEW j \in DOMAIN rewards
          PROVE  /\ rewards'[j].status = "PENDING" => receipts'[j] = 0
                 /\ j \notin contested' => receipts'[j] <= 1
      <3>1. /\ rewards[j].status = "PENDING" => receipts[j] = 0
            /\ j \notin contested => receipts[j] <= 1
        BY DEF ReferralInv, SignupInv, RewardsStored
      <3>2. CASE j = i
        <4>1. j \notin contested' => receipts[j] = 0
          BY <1>2, <1>4, <3>1, <3>2
        <4>2. receipts'[j] = receipts[j] + 1 /\ rewards'[j].status = "PAID"
          BY <1>6, <1>8, <3>2
        <4> QED
          BY <4>1, <4>2
      <3>3. CASE j # i
        BY <1>2, <1>8, <3>1, <3>3
      <3> QED
        BY <3>2, <3>3
    <2>6. \A c \in Codes \ contested' : Cardinality(OfCode(c)') \in 0 .. 2
      BY <1>2, <1>10 DEF ReferralInv, SignupInv, RewardsStored
    <2>7. RewardsStored'
      BY <1>8, <2>4, <2>5, <2>6 DEF RewardsStored
    <2>8. \A r \in Requests \ {q} : SignupReady(pc[r], mem[r])'
      <3> SUFFICES ASSUME NEW r \in Requests \ {q} PROVE SignupReady(pc[r], mem[r])'
        OBVIOUS
      <3> PICK held : held = mem[r]
        OBVIOUS
      <3>1. pc'[r] = pc[r] /\ mem'[r] = held /\ SignupReady(pc[r], held)
        BY <1>1 DEF Put, ReferralInv, SignupInv
      <3>2. pc[r] \in PaySteps /\ held.reward = i => i \in contested'
        BY <1>1, <1>2 DEF ReferralInv, ReferralPairs, PaySteps
      <3>3. /\ pc[r] \in PaySteps => held.reward \in DOMAIN rewards'
            /\ pc[r] = "saveReward" /\ held.reward \notin contested' => rewards'[held.reward].status = "PENDING"
        BY <1>2, <1>8, <3>1, <3>2 DEF SignupReady, PaySteps
      <3>4. OfCode(held.code)' = OfCode(held.code) /\ Signed(held.code)' = Signed(held.code) /\ Issued' = Issued
        BY <1>10 DEF Issued
      <3> QED
        BY <1>2, <3>1, <3>3, <3>4 DEF SignupReady
    <2>9. SignupReady(pc[q], mem[q])'
      BY <1>1 DEF Put, SignupReady, RowSteps, PaySteps
    <2> QED
      BY <2>1, <2>7, <2>8, <2>9 DEF SignupInv
  <1>14. ProgramInv'
    BY <1>1, <1>2, <1>11, ReferralRests, ProgramMoves DEF ReferralInv
  <1> QED
    BY <1>2, <1>12, <1>13, <1>14 DEF ReferralInv

------------------------------------------------------------------------------
\* A request that writes a programme, or is about to read one, is the only one at work on them.
LEMMA NobodyCounts ==
    ASSUME ReferralTypes, ReferralPairs, ReferralPairs', ProgramInv, NEW q \in Requests, NEW step, NEW m,
           Put(q, step, m), pc[q] \in ProgramSteps \/ step \in ProgramSteps,
           reshuffled => reshuffled', ~reshuffled'
    PROVE  /\ \A p : Counting(p) => pc[q] = "saveProgram" /\ mem[q].program = p
           /\ \A p \in Stored \ restated :
                 /\ ~Counting(p) => programs[p].used = Promised(p)
                 /\ Counting(p) => programs[p].used + Pair(programs[p]) = Promised(p)
                 /\ Covered(p)
  <1>1. \A r \in Requests \ {q} : pc[r] \notin ProgramSteps
    BY DEF Put, ReferralPairs
  <1>2. \A p : Counting(p) => pc[q] = "saveProgram" /\ mem[q].program = p
    BY <1>1 DEF Counting, ProgramSteps
  <1>3. ASSUME NEW p \in Stored \ restated
        PROVE  /\ ~Counting(p) => programs[p].used = Promised(p)
               /\ Counting(p) => programs[p].used + Pair(programs[p]) = Promised(p)
               /\ Covered(p)
    <2>1. programs[p].used + Uncounted(p) = Promised(p) /\ Covered(p)
      BY DEF ProgramInv, BudgetsKept
    <2>2. programs[p].used \in Nat
      BY StoredProgram
    <2> QED
      BY <2>1, <2>2 DEF Uncounted
  <1> QED
    BY <1>2, <1>3

\* One row is written, and its programme has become active only if none was.
LEMMA RowWritten ==
    ASSUME ReferralTypes, ReferralPairs, ReferralPairs', ProgramInv, NEW q \in Requests,
           pc[q] \in ProgramSteps, Put(q, "idle", NoMemory), reshuffled => reshuffled', UNCHANGED rewards,
           NEW p \in Stored, NEW new \in Program, programs' = [programs EXCEPT ![p] = new],
           restated \subseteq restated', lowered \subseteq lowered' \cup {p},
           p \notin restated' =>
              /\ new.used <= Promised(p)
              /\ ~reshuffled' => /\ new.used = Promised(p)
                                 /\ p \notin lowered' /\ new.total # None => Promised(p) <= new.total,
           pc[q] = "saveProgram" => mem[q].program = p,
           ~reshuffled' => new.status \in {programs[p].status, "INACTIVE", "DRAFT"} \/ Active = {}
    PROVE  ProgramInv' /\ programs' \in [Programs -> Program \cup {None}]
  <1>1. new # None /\ new.used \in Nat
    BY ReferralAssumption DEF Program
  <1>2. p \in Programs /\ programs' \in [Programs -> Program \cup {None}]
    BY DEF ReferralTypes, Stored
  <1>3. programs'[p] = new /\ \A r \in Programs \ {p} : programs'[r] = programs[r]
    BY <1>2 DEF ReferralTypes
  <1>4. Stored' = Stored
    BY <1>1, <1>3 DEF Stored
  <1>5. ASSUME NEW r \in Stored \ restated'
        PROVE  /\ programs'[r].used \in Nat /\ programs'[r].used <= Promised(r)
               /\ ~reshuffled' =>
                     /\ programs'[r].used = Promised(r)
                     /\ r \notin lowered' /\ programs'[r].total # None => Promised(r) <= programs'[r].total
    <2>1. CASE r = p
      BY <1>1, <1>3, <1>5, <2>1
    <2>2. CASE r # p
      <3>1. programs'[r] = programs[r] /\ programs[r].used \in Nat
        BY <1>3, <2>2, StoredProgram DEF Stored
      <3>2. r \in Stored \ restated /\ programs[r].used <= Promised(r)
        BY <1>5 DEF ProgramInv, BudgetsKept
      <3>3. ~reshuffled' => ~Counting(r) /\ programs[r].used = Promised(r) /\ Covered(r)
        BY <2>2, <3>2, NobodyCounts
      <3>4. r \notin lowered' => r \notin lowered
        BY <2>2
      <3> QED
        BY <3>1, <3>2, <3>3, <3>4 DEF Covered
    <2> QED
      BY <2>1, <2>2
  <1>6. OneAtMost'
    <2> SUFFICES ASSUME ~reshuffled' PROVE (\A r, s \in Active : r = s)'
      BY DEF OneAtMost
    <2>1. \A r, s \in Active : r = s
      BY DEF ProgramInv, OneAtMost
    <2>2. \A r \in Active' : r \in Active \/ (r = p /\ Active = {})
      BY <1>3, <1>4 DEF Active, Stored
    <2>3. Active' \subseteq Active \/ Active' \subseteq {p}
      BY <2>2
    <2> QED
      BY <2>1, <2>3
  <1>7. ProgramReady("idle", NoMemory)'
    BY DEF ProgramReady, SaveRowSteps
  <1>8. ProgramInv'
    BY <1>4, <1>5, <1>6, <1>7, ProgramsWritten
  <1> QED
    BY <1>2, <1>8

\* No programme is active any more.
LEMMA OthersInactive ==
    ASSUME ReferralTypes, programs' = Others("INACTIVE")
    PROVE  /\ programs' \in [Programs -> Program \cup {None}] /\ Stored' = Stored /\ Active' = {}
           /\ \A p \in Stored : programs'[p].used = programs[p].used /\ programs'[p].total = programs[p].total
  <1>1. ASSUME NEW p \in Programs
        PROVE  /\ programs'[p] \in Program \cup {None}
               /\ p \in Stored' <=> p \in Stored
               /\ p \in Stored => /\ programs'[p].used = programs[p].used
                                  /\ programs'[p].total = programs[p].total /\ programs'[p].status # "ACTIVE"
    <2>1. programs'[p] = IF p \in Active THEN [programs[p] EXCEPT !.status = "INACTIVE"] ELSE programs[p]
      BY DEF Others
    <2>2. CASE p \in Active
      <3>1. p \in Stored /\ programs[p] \in Program
        BY <2>2, StoredProgram DEF Active
      <3>2. /\ programs'[p] \in Program /\ programs'[p].used = programs[p].used
            /\ programs'[p].total = programs[p].total /\ programs'[p].status = "INACTIVE"
        BY <2>1, <2>2, <3>1 DEF Program
      <3>3. programs'[p] # None
        BY <3>2, ReferralAssumption
      <3> QED
        BY <3>1, <3>2, <3>3 DEF Stored
    <2>3. CASE p \notin Active
      BY <2>1, <2>3 DEF Active, Stored, ReferralTypes
    <2> QED
      BY <2>2, <2>3
  <1>2. programs' \in [Programs -> Program \cup {None}]
    BY <1>1 DEF Others
  <1>3. Stored' = Stored
    BY <1>1 DEF Stored
  <1> QED
    BY <1>1, <1>2, <1>3 DEF Stored, Active

\* The types and the signups after a step that writes programmes only.
LEMMA ProgramsTyped ==
    ASSUME ReferralInv, ReferralHistory, NEW q \in Requests, NEW step \in {"idle", "getProgram", "updateProgram"},
           NEW m, Put(q, step, m), ReferralHeld(step, m), programs' \in [Programs -> Program \cup {None}],
           UNCHANGED <<referrals, rewards, signups, receipts>>, ProgramInv'
    PROVE  ReferralInv'
  <1>1. contested \subseteq contested' /\ (reshuffled => reshuffled') /\ ReferralPairs'
    BY ReferralHistoryNotes
  <1>2. ReferralTypes'
    <2>1. ReferralTypes /\ reshuffled' \in BOOLEAN
      BY ReferralHistoryTyped DEF ReferralInv
    <2>2. /\ referrals' \in [Codes -> Referral \cup {None}]
          /\ rewards' \in Seq(Reward) /\ receipts' \in Seq(Nat) /\ Len(receipts') = Len(rewards')
          /\ signups' \subseteq Codes \X Users
      BY <2>1 DEF ReferralTypes
    <2> QED
      BY <2>1, <2>2, ReferralTypesKept
  <1>3. SignupInv'
    <2>1. SignupReady(step, m)
      BY DEF SignupReady, RowSteps, PaySteps
    <2>2. \A c \in Issued : c \in Issued' /\ referrals'[c] = referrals[c]
      BY DEF Issued
    <2> QED
      BY <1>1, <2>1, <2>2, SignupMoves DEF ReferralInv
  <1> QED
    BY <1>1, <1>2, <1>3 DEF ReferralInv

LEMMA SaveRowStep ==
    ASSUME Base, ReferralInv, ReferralHistory, NEW q \in Requests,
           \/ UpdateProgram(q)
           \/ /\ SaveProgram(q) \/ SaveActiveProgram(q) \/ SaveInactiveProgram(q)
              /\ UNCHANGED <<restated, lowered>>,
           UNCHANGED <<referrals, rewards, signups, receipts>>
    PROVE  ReferralInv'
  <1> PICK m : m = mem[q]
    OBVIOUS
  <1> PICK p : p = m.program
    OBVIOUS
  <1>1. contested \subseteq contested' /\ (reshuffled => reshuffled') /\ ReferralPairs'
    BY ReferralHistoryNotes
  <1> ReferralTypes /\ ReferralPairs /\ ProgramInv /\ ProgramReady(pc[q], m) /\ ReferralHeld(pc[q], m)
    BY DEF ReferralInv, ProgramInv, ReferralTypes
  <1>2. /\ pc[q] \in {"saveProgram", "saveActive", "saveInactive", "updateProgram"}
        /\ Put(q, "idle", NoMemory)
    BY AnswerPuts DEF SaveProgram, SaveActiveProgram, SaveInactiveProgram, UpdateProgram, At, Base
  <1>3. /\ p \in Stored
        /\ pc[q] \in SaveRowSteps /\ p \notin restated =>
              m.row.used + (IF pc[q] = "saveProgram" THEN Pair(m.row) ELSE 0) <= Promised(p)
        /\ pc[q] \in SaveRowSteps /\ ~reshuffled' => m.row = programs[p]
    BY <1>1, <1>2 DEF ProgramReady, SaveRowSteps
  <1>4. /\ programs[p] \in Program /\ programs[p].used \in Nat
        /\ p \notin restated => programs[p].used <= Promised(p)
        /\ Promised(p) \in Nat
    BY <1>3, StoredProgram, PromisedCounted DEF ProgramInv, BudgetsKept
  <1>5. ~reshuffled' =>
           /\ Counting(p) => pc[q] = "saveProgram"
           /\ p \notin restated =>
                 /\ ~Counting(p) => programs[p].used = Promised(p)
                 /\ Counting(p) => programs[p].used + Pair(programs[p]) = Promised(p)
                 /\ Covered(p)
    BY <1>1, <1>2, <1>3, NobodyCounts DEF ProgramSteps
  <1>6. ReferralHeld("idle", NoMemory)
    BY ReferralRests
  <1>7. ASSUME NEW new \in Program, programs' = [programs EXCEPT ![p] = new],
               restated \subseteq restated', lowered \subseteq lowered' \cup {p},
               p \notin restated' =>
                  /\ new.used <= Promised(p)
                  /\ ~reshuffled' => /\ new.used = Promised(p)
                                     /\ p \notin lowered' /\ new.total # None => Promised(p) <= new.total,
               ~reshuffled' => new.status \in {programs[p].status, "INACTIVE", "DRAFT"} \/ Active = {}
        PROVE  ReferralInv'
    <2>1. ProgramInv' /\ programs' \in [Programs -> Program \cup {None}]
      BY <1>1, <1>2, <1>3, <1>7, RowWritten DEF ProgramSteps
    <2> QED
      BY <1>2, <1>6, <2>1, ProgramsTyped
  <1>8. pc[q] \in SaveRowSteps => m.row \in Program /\ m.row.used \in Nat /\ Pair(m.row) \in Nat
    BY DEF ReferralHeld, SaveRowSteps, Program, Pair
  <1>9. CASE SaveProgram(q) /\ UNCHANGED <<restated, lowered>>
    <2> PICK new : new = [m.row EXCEPT !.used = @ + Pair(m.row)]
      OBVIOUS
    <2>1. pc[q] = "saveProgram" /\ programs' = [programs EXCEPT ![p] = new]
      BY <1>9 DEF SaveProgram, At
    <2>2. /\ new \in Program /\ new.used = m.row.used + Pair(m.row)
          /\ new.status = m.row.status /\ new.total = m.row.total
      BY <1>8, <2>1 DEF SaveRowSteps, Program
    <2>3. p \notin restated => m.row.used + Pair(m.row) <= Promised(p)
      BY <1>3, <2>1 DEF SaveRowSteps
    <2>4. Counting(p)
      BY <2>1 DEF Counting
    <2>5. ~reshuffled' => /\ m.row = programs[p]
                          /\ p \notin restated =>
                                programs[p].used + Pair(programs[p]) = Promised(p) /\ Covered(p)
      BY <1>3, <1>5, <2>1, <2>4 DEF SaveRowSteps
    <2> QED
      BY <1>7, <1>9, <2>1, <2>2, <2>3, <2>5 DEF Covered
  <1>10. CASE (SaveActiveProgram(q) \/ SaveInactiveProgram(q)) /\ UNCHANGED <<restated, lowered>>
    <2>1. PICK st \in {"ACTIVE", "INACTIVE"} :
             /\ programs' = [programs EXCEPT ![p] = [m.row EXCEPT !.status = st]]
             /\ pc[q] = IF st = "ACTIVE" THEN "saveActive" ELSE "saveInactive"
      BY <1>10 DEF SaveActiveProgram, SaveInactiveProgram, At
    <2> PICK new : new = [m.row EXCEPT !.status = st]
      OBVIOUS
    <2>2. pc[q] \in SaveRowSteps /\ pc[q] # "saveProgram"
      BY <2>1 DEF SaveRowSteps
    <2>3. new \in Program /\ new.used = m.row.used /\ new.status = st /\ new.total = m.row.total
      BY <1>8, <2>2 DEF Program
    <2>4. p \notin restated => m.row.used + 0 <= Promised(p)
      BY <1>3, <2>2
    <2>5. p \notin restated => m.row.used <= Promised(p)
      BY <1>8, <2>2, <2>4
    <2>6. ~reshuffled' => /\ m.row = programs[p]
                          /\ p \notin restated => programs[p].used = Promised(p) /\ Covered(p)
      BY <1>3, <1>5, <2>2
    <2>7. ~reshuffled' /\ st = "ACTIVE" => Active = {}
      BY <1>1, <2>1 DEF ProgramReady
    <2> QED
      BY <1>7, <1>10, <2>1, <2>3, <2>5, <2>6, <2>7 DEF Covered
  <1>11. CASE UpdateProgram(q)
    <2> PICK body : body = m.body
      OBVIOUS
    <2> PICK old : old = programs[p]
      OBVIOUS
    <2> PICK new : new = Assigned(old, body)
      OBVIOUS
    <2>1. /\ pc[q] = "updateProgram"
          /\ programs' = [programs EXCEPT ![p] = Assigned(@, body)]
          /\ restated' = IF "used" \in DOMAIN body THEN restated \cup {p} ELSE restated
          /\ lowered' = CASE "total" \notin DOMAIN body -> lowered
                           [] "total" \in DOMAIN body /\ body.total < old.used -> lowered \cup {p}
                           [] OTHER -> lowered \ {p}
      BY <1>11 DEF UpdateProgram, At
    <2>2. body \in ProgramBodies
      BY <2>1 DEF ReferralHeld
    <2>3. programs' = [programs EXCEPT ![p] = new]
      BY <1>3, <2>1 DEF ReferralTypes, Stored
    <2>4. /\ new \in Program
          /\ new.status = IF "status" \in DOMAIN body THEN body.status ELSE old.status
          /\ new.used = IF "used" \in DOMAIN body THEN body.used ELSE old.used
          /\ new.total = IF "total" \in DOMAIN body THEN body.total ELSE old.total
          /\ "total" \in DOMAIN body => body.total \in Nat
      BY <1>4, <2>2, AssignedProgram
    <2>5. /\ restated \subseteq restated' /\ (p \notin restated' => p \notin restated /\ new.used = old.used)
          /\ lowered \subseteq lowered' \cup {p}
      BY <2>1, <2>4
    <2>6. /\ "total" \notin DOMAIN body => lowered' = lowered /\ new.total = old.total
          /\ "total" \in DOMAIN body /\ p \notin lowered' => old.used <= new.total
      BY <1>4, <2>1, <2>4
    <2>7. ~reshuffled' /\ p \notin restated => old.used = Promised(p) /\ Covered(p)
      BY <1>5, <2>1
    <2>8. ~reshuffled' /\ p \notin restated' /\ p \notin lowered' /\ new.total # None => Promised(p) <= new.total
      BY <2>5, <2>6, <2>7 DEF Covered
    <2>9. new.status \in {old.status, "INACTIVE", "DRAFT"} \/ Activates(body)
      <3>1. new.status \in {"DRAFT", "ACTIVE", "INACTIVE"}
        BY <2>4 DEF Program
      <3> QED
        BY <2>4, <3>1 DEF Activates
    <2>10. ~reshuffled' /\ Activates(body) => Active = {}
      BY <1>1, <2>1 DEF ProgramReady
    <2> QED
      BY <1>4, <1>7, <2>3, <2>4, <2>5, <2>7, <2>8, <2>9, <2>10
  <1> QED
    BY <1>9, <1>10, <1>11

------------------------------------------------------------------------------
LEMMA OthersStep ==
    ASSUME Base, ReferralInv, ReferralHistory, NEW q \in Requests, DeactivateOthers(q) \/ ActivateProgram(q),
           UNCHANGED <<referrals, rewards, signups, receipts, restated, lowered>>
    PROVE  ReferralInv'
  <1>1. contested \subseteq contested' /\ (reshuffled => reshuffled') /\ ReferralPairs'
    BY ReferralHistoryNotes
  <1> ReferralTypes /\ ReferralPairs /\ ProgramInv
    BY DEF ReferralInv
  <1>2. PICK step, m :
           /\ step \in {"getProgram", "updateProgram"}
           /\ Put(q, step, m) /\ ReferralHeld(step, m) /\ pc[q] # "saveProgram"
           /\ step = "updateProgram" => m.program \in Stored
           /\ pc[q] \in ProgramSteps \/ step \in ProgramSteps
    <2>1. CASE DeactivateOthers(q)
      <3>1. pc[q] = "deactivateOthers" /\ Put(q, "updateProgram", mem[q])
        BY <2>1, GotoPuts DEF DeactivateOthers, At, Base
      <3>2. ReferralHeld("deactivateOthers", mem[q]) /\ ProgramReady("deactivateOthers", mem[q])
        BY <3>1 DEF ReferralTypes, ProgramInv
      <3>3. ReferralHeld("updateProgram", mem[q]) /\ mem[q].program \in Stored
        BY <3>2 DEF ReferralHeld, RowSteps, PaySteps, ProgramReady
      <3> QED
        BY <3>1, <3>3 DEF ProgramSteps
    <2>2. CASE ActivateProgram(q)
      <3>1. PICK p \in Programs : Receive(q, "referrals", "getProgram", [program |-> p])
        BY <2>2 DEF ActivateProgram
      <3>2. Put(q, "getProgram", [program |-> p]) /\ pc[q] = "idle"
        BY <3>1, ReceivePuts DEF Base
      <3>3. ReferralHeld("getProgram", [program |-> p])
        BY DEF ReferralHeld, RowSteps, PaySteps
      <3> QED
        BY <3>2, <3>3 DEF ProgramSteps
    <2> QED
      BY <2>1, <2>2
  <1>3. programs' = Others("INACTIVE")
    BY DEF DeactivateOthers, ActivateProgram
  <1>4. /\ programs' \in [Programs -> Program \cup {None}] /\ Stored' = Stored /\ Active' = {}
        /\ \A p \in Stored : programs'[p].used = programs[p].used /\ programs'[p].total = programs[p].total
    BY <1>3, OthersInactive
  <1>5. ASSUME NEW p \in Stored \ restated'
        PROVE  /\ programs'[p].used \in Nat /\ programs'[p].used <= Promised(p)
               /\ ~reshuffled' =>
                     /\ programs'[p].used = Promised(p)
                     /\ p \notin lowered' /\ programs'[p].total # None => Promised(p) <= programs'[p].total
    <2>1. programs[p].used \in Nat /\ programs[p].used <= Promised(p)
      BY StoredProgram DEF ProgramInv, BudgetsKept
    <2>2. ~reshuffled' => programs[p].used = Promised(p) /\ Covered(p)
      BY <1>1, <1>2, NobodyCounts
    <2> QED
      BY <1>4, <2>1, <2>2 DEF Covered
  <1>6. OneAtMost'
    BY <1>4 DEF OneAtMost
  <1>7. ProgramReady(step, m)'
    BY <1>2, <1>4 DEF ProgramReady, SaveRowSteps
  <1>8. ProgramInv'
    BY <1>1, <1>2, <1>4, <1>5, <1>6, <1>7, ProgramsWritten
  <1> QED
    BY <1>2, <1>4, <1>8, ProgramsTyped

LEMMA CreateProgramStep ==
    ASSUME Base, ReferralInv, ReferralHistory, NEW q \in Requests, CreateProgram(q),
           UNCHANGED <<referrals, rewards, signups, receipts, restated, lowered>>
    PROVE  ReferralInv'
  <1> PICK new : new = Draft(mem[q].body)
    OBVIOUS
  <1>1. PICK p \in Programs \ Stored : programs' = [programs EXCEPT ![p] = new]
    BY DEF CreateProgram
  <1>2. pc[q] = "insertProgram" /\ Put(q, "idle", NoMemory)
    BY AnswerPuts DEF CreateProgram, At, Base
  <1>3. contested \subseteq contested' /\ (reshuffled => reshuffled') /\ ReferralPairs'
    BY ReferralHistoryNotes
  <1> ReferralTypes /\ ReferralPairs /\ ProgramInv
    BY DEF ReferralInv
  <1>4. /\ new \in Program /\ new # None /\ new.used = 0 /\ new.status = "DRAFT"
        /\ new.total \in Nat \cup {None}
    <2>1. mem[q].body \in Offers
      BY <1>2 DEF ReferralTypes, ReferralHeld
    <2> QED
      BY <2>1, DraftTyped, ReferralAssumption DEF Program
  <1>5. /\ programs' \in [Programs -> Program \cup {None}] /\ programs'[p] = new
        /\ \A r \in Programs \ {p} : programs'[r] = programs[r]
    BY <1>1, <1>4 DEF ReferralTypes
  <1>6. Stored' = Stored \cup {p} /\ Active' = Active
    BY <1>1, <1>4, <1>5 DEF Stored, Active
  <1>7. SameWorth
    BY DEF SameWorth
  <1>8. \A r : OfProgram(r)' = OfProgram(r) /\ Promised(r)' = Promised(r)
    BY <1>7, PromisedKept
  <1>9. \A r : Counting(r)' <=> Counting(r)
    BY <1>2 DEF Counting, Put
  <1>10. ~Counting(p)
    BY <1>1 DEF Counting, ProgramInv, ProgramReady, SaveRowSteps
  <1>11. Promised(p) = 0
    <2>1. OfProgram(p) = {}
      BY <1>1 DEF ProgramInv, Unpromised
    <2> QED
      BY <2>1, PromisedIs, SumEmpty
  <1>12. BudgetsKept'
    <2>1. ASSUME NEW r \in Stored' \ restated
          PROVE  /\ programs'[r].used <= Promised(r)
                 /\ ~reshuffled' => programs'[r].used + Uncounted(r)' = Promised(r) /\ Covered(r)'
      <3>1. CASE r = p
        <4>1. Uncounted(r)' = 0
          BY <1>9, <1>10, <3>1 DEF Uncounted
        <4> QED
          BY <1>4, <1>5, <1>8, <1>11, <3>1, <4>1 DEF Covered
      <3>2. CASE r # p
        <4>1. r \in Stored \ restated /\ programs'[r] = programs[r]
          BY <1>5, <1>6, <2>1, <3>2 DEF Stored
        <4>2. Uncounted(r)' = Uncounted(r) /\ (Covered(r)' <=> Covered(r))
          BY <1>8, <1>9, <4>1 DEF Uncounted, Covered
        <4> QED
          BY <1>3, <4>1, <4>2 DEF ProgramInv, BudgetsKept
      <3> QED
        BY <3>1, <3>2
    <2> QED
      BY <1>8, <2>1 DEF BudgetsKept
  <1>13. Unpromised' /\ OneAtMost'
    BY <1>3, <1>6, <1>8 DEF ProgramInv, Unpromised, OneAtMost
  <1>14. \A r \in Requests \ {q} : ProgramReady(pc[r], mem[r])'
    <2> SUFFICES ASSUME NEW r \in Requests \ {q} PROVE ProgramReady(pc[r], mem[r])'
      OBVIOUS
    <2> PICK held : held = mem[r]
      OBVIOUS
    <2>1. pc'[r] = pc[r] /\ mem'[r] = held /\ ProgramReady(pc[r], held)
      BY <1>2 DEF Put, ProgramInv
    <2>2. held.program \in Stored => programs'[held.program] = programs[held.program]
      BY <1>1, <1>5 DEF Stored
    <2>3. Promised(held.program)' = Promised(held.program)
      BY <1>8
    <2> QED
      BY <1>3, <1>6, <2>1, <2>2, <2>3 DEF ProgramReady
  <1>15. ProgramReady(pc[q], mem[q])'
    BY <1>2 DEF Put, ProgramReady, SaveRowSteps
  <1>16. ProgramInv'
    BY <1>12, <1>13, <1>14, <1>15 DEF ProgramInv
  <1> QED
    BY <1>2, <1>5, <1>16, ReferralRests, ProgramsTyped

LEMMA ReferralNextInv == Base /\ ReferralInv /\ [Next]_vars => ReferralInv'
  <1> SUFFICES ASSUME Base, ReferralInv, [Next]_vars PROVE ReferralInv'
    OBVIOUS
  <1>1. CASE ReferralStep
    <2>1. PICK q \in Requests :
             ((ReferralReads(q) \/ ReferralWrites(q)) /\ ReferralHistory) \/ ReferralInterrupted(q)
      BY <1>1 DEF ReferralStep, ReferralNext
    <2>2. CASE ReferralReads(q) /\ ReferralHistory
      BY <2>2, CodeReadStep, FindReferralStep, FindRefereeStep, FindActiveProgramStep, RewardReadStep,
         ProgramReadStep DEF ReferralReads
    <2>3. CASE ReferralWrites(q) /\ ReferralHistory
      BY <2>3, CreateReferralStep, SaveReferralStep, SaveRewardsStep, SaveRewardStep, SaveRowStep, OthersStep,
         CreateProgramStep DEF ReferralWrites
    <2> QED
      BY <2>1, <2>2, <2>3, ReferralInterruptedStep
  <1>2. CASE ~ReferralStep
    <2>1. UNCHANGED referralVars /\ Apart(ReferralSteps)
      BY <1>2, ReferralApart
    <2>2. UNCHANGED <<referrals, rewards, programs, signups, receipts, contested, reshuffled, restated, lowered>>
      BY <2>1 DEF referralVars
    <2>3. \A q \in Requests : pc[q] \in ReferralSteps \/ pc'[q] \in ReferralSteps => pc'[q] = pc[q] /\ mem'[q] = mem[q]
      BY <2>1 DEF Apart
    <2>4. ReferralTypes'
      <3>1. \A q \in Requests : ReferralHeld(pc'[q], mem'[q])
        BY <2>3 DEF ReferralInv, ReferralTypes, ReferralHeld, RowSteps, PaySteps, ReferralSteps, SignupSteps, ProgramSteps
      <3>2. (\A q \in Requests : ReferralHeld(pc[q], mem[q]))'
        BY <3>1 DEF ReferralHeld
      <3> QED
        BY <2>2, <3>2 DEF ReferralInv, ReferralTypes
    <2>5. ReferralPairs'
      BY <2>2, <2>3 DEF ReferralInv, ReferralPairs, PaySteps, ReferralSteps, SignupSteps, ProgramSteps
    <2>6. Issued' = Issued /\ Stored' = Stored /\ Active' = Active
      BY <2>2 DEF Issued, Stored, Active
    <2>7. \A c : OfCode(c)' = OfCode(c) /\ Signed(c)' = Signed(c)
      BY <2>2 DEF OfCode, Signed
    <2>8. \A p : OfProgram(p)' = OfProgram(p) /\ Promised(p)' = Promised(p)
      BY <2>2, PromisedKept DEF SameWorth, ReferralInv
    <2>9. \A p : Counting(p)' <=> Counting(p)
      BY <2>3 DEF Counting, ReferralSteps, SignupSteps
    <2>10. SignupInv'
      <3>1. SignupsStored' /\ RewardsStored'
        BY <2>2, <2>6, <2>7 DEF ReferralInv, SignupInv, SignupsStored, RewardsStored, Earned
      <3>2. \A q \in Requests : SignupReady(pc'[q], mem'[q])
        BY <2>3 DEF ReferralInv, SignupInv, SignupReady, RowSteps, PaySteps, ReferralSteps, SignupSteps, ProgramSteps
      <3>3. (\A q \in Requests : SignupReady(pc[q], mem[q]))'
        BY <2>2, <2>6, <2>7, <3>2 DEF SignupReady
      <3> QED
        BY <3>1, <3>3 DEF SignupInv
    <2>11. ProgramInv'
      <3>1. BudgetsKept' /\ Unpromised' /\ OneAtMost'
        BY <2>2, <2>6, <2>8, <2>9 DEF ReferralInv, ProgramInv, BudgetsKept, Uncounted, Covered, Unpromised, OneAtMost
      <3>2. \A q \in Requests : ProgramReady(pc'[q], mem'[q])
        BY <2>3 DEF ReferralInv, ProgramInv, ProgramReady, SaveRowSteps, ReferralSteps, SignupSteps, ProgramSteps
      <3>3. (\A q \in Requests : ProgramReady(pc[q], mem[q]))'
        BY <2>2, <2>6, <2>8, <3>2 DEF ProgramReady
      <3> QED
        BY <3>1, <3>3 DEF ProgramInv
    <2> QED
      BY <2>4, <2>5, <2>10, <2>11 DEF ReferralInv
  <1> QED
    BY <1>1, <1>2

LEMMA ReferralInvariant == Spec => []ReferralInv
  BY BaseInit, BaseStep, ReferralInitInv, ReferralNextInv, PTL DEF Spec

\* The requests that have a pair of rewards to count.
Counters(p) == {q \in Requests : At(q, "saveProgram") /\ mem[q].program = p}
Gains == [q \in Requests |-> Pair(mem[q].row)]
GainRecursion(g, S) ==
    g = [s \in SUBSET S |-> IF s = {} THEN 0 ELSE Pair(mem[Chosen(s)].row) + g[s \ {Chosen(s)}]]

LEMMA InProgressIs ==
    ASSUME NEW p
    PROVE  InProgress(p) = Sum(Gains, Counters(p))
  <1>1. InProgress(p) = (CHOOSE g : GainRecursion(g, Counters(p)))[Counters(p)]
    BY DEF InProgress, MapThenSumSet, MapThenFoldSet, Chosen, GainRecursion, Counters
  <1>2. \A s \in SUBSET Counters(p) : s # {} => Chosen(s) \in Requests
    BY DEF Chosen, Counters
  <1>3. \A g : GainRecursion(g, Counters(p)) <=> Recursion(g, Gains, Counters(p))
    BY <1>2 DEF GainRecursion, Recursion, Gains
  <1>4. (CHOOSE g : GainRecursion(g, Counters(p))) = (CHOOSE g : Recursion(g, Gains, Counters(p)))
    BY <1>3, Zenon
  <1> QED
    BY <1>1, <1>4, SumIs

\* While no two requests hold programmes they are one or none, which holds the stored row.
LEMMA CountingOnce ==
    ASSUME ReferralInv, ~reshuffled, NEW p
    PROVE  InProgress(p) = Uncounted(p)
  <1> PICK S : S = Counters(p)
    OBVIOUS
  <1>1. CASE ~Counting(p)
    <2>1. S = {}
      BY <1>1 DEF Counting, Counters, At
    <2> QED
      BY <1>1, <2>1, SumEmpty, InProgressIs DEF Uncounted
  <1>2. CASE Counting(p)
    <2>1. PICK q \in Requests : pc[q] = "saveProgram" /\ mem[q].program = p
      BY <1>2 DEF Counting
    <2>2. \A r \in Requests \ {q} : pc[r] # "saveProgram"
      BY <2>1 DEF ReferralInv, ReferralPairs, ProgramSteps
    <2>3. S = {q} /\ S \ {q} = {}
      BY <2>1, <2>2 DEF Counters, At
    <2>4. mem[q].row = programs[p] /\ mem[q].row \in Program
      BY <2>1 DEF ReferralInv, ProgramInv, ProgramReady, SaveRowSteps, ReferralTypes, ReferralHeld
    <2> PICK w : w = Gains
      OBVIOUS
    <2>5. w[q] = Pair(programs[p]) /\ w[q] \in Nat
      BY <2>4 DEF Gains, Pair, Program
    <2>6. Sum(w, {q}) = w[q] + Sum(w, {q} \ {q})
      BY <2>5, FS_Singleton, SumWithout
    <2>7. Sum(w, {}) = 0
      BY SumEmpty
    <2>8. Sum(w, S) = Pair(programs[p])
      BY <2>3, <2>5, <2>6, <2>7
    <2> QED
      BY <1>2, <2>8, InProgressIs DEF Uncounted
  <1> QED
    BY <1>1, <1>2

\* Rewards follow the signups, budgets the rewards, and one programme is active at most, but
\* for requests that overlapped or were cut off: whatever the users, the codes, the
\* programmes, their rewards and budgets, and the columns that requests assign (ReferralService.ts
\* lines 76 to 158 and 237 to 255, ReferralProgramService.ts lines 54 to 120).
THEOREM ReferralsAlwaysHold == Spec => []ReferralsHold
  <1>1. ASSUME ReferralInv PROVE ReferralsHold
    <2> ReferralTypes /\ SignupInv /\ ProgramInv
      BY <1>1 DEF ReferralInv
    <2>1. RewardsFollowSignups
      <3>1. ASSUME NEW i \in DOMAIN rewards
            PROVE  /\ rewards[i].type = "REFEREE" => <<rewards[i].code, rewards[i].user>> \in signups
                   /\ rewards[i].type = "REFERRER" => rewards[i].user = referrals[rewards[i].code].referrer
                   /\ receipts[i] > 1 => i \in contested
        <4>1. receipts[i] \in Nat
          BY DEF ReferralTypes
        <4> QED
          BY <4>1 DEF SignupInv, RewardsStored, Earned
      <3>2. \A c \in Codes \ contested : Cardinality({i \in DOMAIN rewards : rewards[i].code = c}) <= 2
        BY DEF SignupInv, RewardsStored, OfCode
      <3>3. \A s, t \in signups : s # t =>
              /\ s[1] = t[1] => s[1] \in contested
              /\ s[2] = t[2] => {s[1], s[2], t[1]} \cap contested # {}
        BY DEF SignupInv, SignupsStored
      <3>4. \A i \in DOMAIN rewards : LET r == rewards[i] IN
               /\ r.type = "REFEREE" => <<r.code, r.user>> \in signups
               /\ r.type = "REFERRER" => r.user = referrals[r.code].referrer
               /\ receipts[i] > 1 => i \in contested
        BY <3>1
      <3> QED
        BY <3>2, <3>3, <3>4 DEF RewardsFollowSignups
    <2>2. BudgetFollowsRewards
      BY <1>1, CountingOnce DEF ProgramInv, BudgetsKept, Covered, BudgetFollowsRewards
    <2>3. OneActiveProgram
      <3> SUFFICES ASSUME ~reshuffled PROVE Cardinality(Active) <= 1
        BY DEF OneActiveProgram
      <3>1. \A p, r \in Active : p = r
        BY DEF ProgramInv, OneAtMost
      <3>2. CASE Active = {}
        <4>1. Cardinality({}) = 0
          BY FS_EmptySet
        <4> QED
          BY <3>2, <4>1
      <3>3. CASE Active # {}
        <4>1. PICK p : p \in Active
          BY <3>3
        <4>2. Active = {p}
          BY <3>1, <4>1
        <4>3. Cardinality({p}) = 1
          BY FS_Singleton
        <4> QED
          BY <4>2, <4>3
      <3> QED
        BY <3>2, <3>3
    <2> QED
      BY <2>1, <2>2, <2>3 DEF ReferralsHold
  <1> QED
    BY <1>1, ReferralInvariant, PTL

------------------------------------------------------------------------------
\* Dependency d was alerted, at time t or some time before.
Alerted(d, t) == \E x \in warnings : x.key = Down[d] /\ x.at <= t /\ t - x.at < AlertInterval

Statuses == [Dependencies -> [status : {"OK", "FAIL"}, at : Nat]]
StatusAlerted(st) == \A d \in Dependencies : st[d].status = "FAIL" => Alerted(d, st[d].at)

\* The time kept of an alert is that of the last one of the process.
AlertInv ==
    /\ clock \in Nat
    /\ alertedAt \in [AlertKeys -> Nat \cup {None}]
    /\ \A k \in AlertKeys : alertedAt[k] # None =>
          alertedAt[k] <= clock /\ \E x \in warnings : x.key = k /\ x.at = alertedAt[k]
    /\ \A x \in warnings :
          /\ x \in [key : AlertKeys, at : Nat]
          /\ alertedAt[x.key] # None /\ x.at <= alertedAt[x.key]
    /\ AlertsAreSparse

\* A failure that is shown, or held by a request that goes on to the next check, was alerted.
Probed(step, m) == step \in ProbeSteps =>
    "status" \in DOMAIN m /\ m.status \in Statuses /\ StatusAlerted(m.status)

MonitorInv ==
    /\ AlertInv
    /\ external \in Statuses /\ StatusAlerted(external)
    /\ \A q \in Requests : Probed(pc[q], mem[q])

LEMMA MonitorNames ==
    /\ None \notin Nat
    /\ AllOk \in Statuses /\ StatusAlerted(AllOk)
    /\ \A d \in Dependencies : Down[d] \in AlertKeys
    /\ Dependencies = {"database", "redis", "stellar"}
  <1>1. Dependencies = {"database", "redis", "stellar"}
    BY DEF Dependencies, Down
  <1>2. \A d \in Dependencies : AllOk[d].status = "OK" /\ AllOk[d].at = 0
    BY DEF AllOk, OkStatus
  <1>3. AllOk \in Statuses
    BY DEF AllOk, OkStatus, Statuses
  <1>4. StatusAlerted(AllOk)
    BY <1>2 DEF StatusAlerted
  <1>5. \A d \in Dependencies : Down[d] \in AlertKeys
    BY DEF AlertKeys
  <1> QED
    BY <1>1, <1>3, <1>4, <1>5, FlagAssumption

LEMMA MonitorInitInv == Init => MonitorInv
  <1> SUFFICES ASSUME Init PROVE MonitorInv
    OBVIOUS
  <1>1. \A q \in Requests : pc[q] = "idle"
    BY InitPerRequest DEF Init
  <1>2. clock = 0 /\ alertedAt = NoAlerts /\ external = AllOk /\ warnings = {}
    BY DEF Init, MonitorInit
  <1>3. AlertInv
    BY <1>2 DEF AlertInv, NoAlerts, AlertsAreSparse
  <1>4. \A q \in Requests : Probed(pc[q], mem[q])
    BY <1>1 DEF Probed, ProbeSteps
  <1> QED
    BY <1>2, <1>3, <1>4, MonitorNames DEF MonitorInv

\* An alert is sent, or one was sent not long ago.
LEMMA TriggerAlertKeeps ==
    ASSUME AlertInv, NEW k \in AlertKeys, TriggerAlert(k), UNCHANGED clock
    PROVE  /\ AlertInv' /\ warnings \subseteq warnings'
           /\ \E x \in warnings' : x.key = k /\ x.at <= clock /\ clock - x.at < AlertInterval
  <1>1. CASE alertedAt' = [alertedAt EXCEPT ![k] = clock] /\ warnings' = warnings \cup {[key |-> k, at |-> clock]}
             /\ (alertedAt[k] # None => ~(clock - alertedAt[k] < AlertInterval))
    <2> PICK y : y = [key |-> k, at |-> clock]
      OBVIOUS
    <2>1. /\ clock \in Nat /\ clock # None /\ AlertInterval \in Nat /\ AlertInterval > 0
          /\ alertedAt \in [AlertKeys -> Nat \cup {None}]
      BY MonitorNames, MonitorAssumption DEF AlertInv
    <2>2. /\ y \in [key : AlertKeys, at : Nat] /\ y.key = k /\ y.at = clock /\ warnings' = warnings \cup {y}
      BY <1>1, <2>1
    <2>3. /\ alertedAt' \in [AlertKeys -> Nat \cup {None}] /\ alertedAt'[k] = clock
          /\ \A l \in AlertKeys \ {k} : alertedAt'[l] = alertedAt[l]
      BY <1>1, <2>1
    <2>4. \A x \in warnings :
             /\ x \in [key : AlertKeys, at : Nat] /\ x.key \in AlertKeys /\ x.at \in Nat
             /\ alertedAt[x.key] # None /\ alertedAt[x.key] \in Nat
             /\ x.at <= alertedAt[x.key] /\ alertedAt[x.key] <= clock
      BY <2>1 DEF AlertInv
    <2>5. \A x \in warnings : x.key = k => clock - x.at >= AlertInterval /\ x.at < clock
      <3> SUFFICES ASSUME NEW x \in warnings, x.key = k PROVE clock - x.at >= AlertInterval /\ x.at < clock
        OBVIOUS
      <3>1. /\ alertedAt[k] # None /\ alertedAt[k] \in Nat /\ x.at \in Nat /\ x.at <= alertedAt[k]
            /\ ~(clock - alertedAt[k] < AlertInterval)
        BY <1>1, <2>4
      <3> QED
        BY <2>1, <3>1
    <2>6. \A x \in warnings' :
             /\ x \in [key : AlertKeys, at : Nat]
             /\ alertedAt'[x.key] # None /\ x.at <= alertedAt'[x.key]
      <3> SUFFICES ASSUME NEW x \in warnings'
                   PROVE  /\ x \in [key : AlertKeys, at : Nat]
                          /\ alertedAt'[x.key] # None /\ x.at <= alertedAt'[x.key]
        OBVIOUS
      <3>1. CASE x = y
        BY <2>1, <2>2, <2>3, <3>1
      <3>2. CASE x \in warnings /\ x.key = k
        BY <2>1, <2>3, <2>4, <2>5, <3>2
      <3>3. CASE x \in warnings /\ x.key # k
        BY <2>3, <2>4, <3>3
      <3> QED
        BY <2>2, <3>1, <3>2, <3>3
    <2>7. ASSUME NEW l \in AlertKeys, alertedAt'[l] # None
          PROVE  alertedAt'[l] <= clock /\ \E x \in warnings' : x.key = l /\ x.at = alertedAt'[l]
      <3>1. CASE l = k
        BY <2>1, <2>2, <2>3, <3>1
      <3>2. CASE l # k
        BY <2>2, <2>3, <2>7, <3>2 DEF AlertInv
      <3> QED
        BY <3>1, <3>2
    <2>8. AlertsAreSparse'
      <3> SUFFICES ASSUME NEW x \in warnings', NEW z \in warnings', x.key = z.key, x.at <= z.at
                   PROVE  x = z \/ z.at - x.at >= AlertInterval
        BY DEF AlertsAreSparse
      <3>1. CASE x \in warnings /\ z \in warnings
        BY <3>1 DEF AlertInv, AlertsAreSparse
      <3>2. CASE x \in warnings /\ z = y
        BY <2>2, <2>5, <3>2
      <3>3. CASE x = y /\ z \in warnings
        <4>1. z.at < clock /\ clock <= z.at /\ z.at \in Nat
          BY <2>2, <2>4, <2>5, <3>3
        <4> QED
          BY <2>1, <4>1
      <3> QED
        BY <2>2, <3>1, <3>2, <3>3
    <2>9. AlertInv'
      BY <2>1, <2>3, <2>6, <2>7, <2>8 DEF AlertInv
    <2>10. clock - clock < AlertInterval /\ clock <= clock
      BY <2>1
    <2> QED
      BY <2>2, <2>9, <2>10
  <1>2. CASE /\ alertedAt[k] # None /\ clock - alertedAt[k] < AlertInterval
             /\ UNCHANGED <<alertedAt, warnings>>
    <2>1. AlertInv'
      BY <1>2 DEF AlertInv, AlertsAreSparse
    <2>2. PICK x \in warnings : x.key = k /\ x.at = alertedAt[k]
      BY <1>2 DEF AlertInv
    <2>3. alertedAt[k] <= clock
      BY <1>2 DEF AlertInv
    <2> QED
      BY <1>2, <2>1, <2>2, <2>3
  <1> QED
    BY <1>1, <1>2 DEF TriggerAlert

LEMMA StatusStaysAlerted ==
    ASSUME warnings \subseteq warnings'
    PROVE  /\ \A st : StatusAlerted(st) => StatusAlerted(st)'
           /\ \A step, m : Probed(step, m) => Probed(step, m)'
  BY DEF StatusAlerted, Alerted, Probed

\* A step after which a request holds m, and what was shown is shown still.
LEMMA MonitorMoves ==
    ASSUME MonitorInv, NEW q \in Requests, NEW step, NEW m, Put(q, step, m), AlertInv',
           warnings \subseteq warnings', UNCHANGED external, Probed(step, m)'
    PROVE  MonitorInv'
  <1>1. external' \in Statuses /\ StatusAlerted(external)'
    BY StatusStaysAlerted DEF MonitorInv
  <1>2. \A r \in Requests \ {q} : Probed(pc[r], mem[r])'
    <2> SUFFICES ASSUME NEW r \in Requests \ {q} PROVE Probed(pc[r], mem[r])'
      OBVIOUS
    <2> PICK held : held = mem[r]
      OBVIOUS
    <2> PICK s : s = pc[r]
      OBVIOUS
    <2>1. pc'[r] = s /\ mem'[r] = held /\ Probed(s, held)
      BY DEF Put, MonitorInv
    <2>2. Probed(s, held)'
      BY <2>1, StatusStaysAlerted
    <2> QED
      BY <2>1, <2>2 DEF Probed
  <1>3. Probed(pc[q], mem[q])'
    BY DEF Put, Probed
  <1> QED
    BY <1>1, <1>2, <1>3 DEF MonitorInv

------------------------------------------------------------------------------
LEMMA AlertsStay ==
    ASSUME AlertInv, UNCHANGED <<alertedAt, warnings>>, clock' \in {clock, clock + 1}
    PROVE  AlertInv' /\ warnings \subseteq warnings'
  <1>1. \A k \in AlertKeys : alertedAt[k] # None => alertedAt[k] <= clock'
    BY DEF AlertInv
  <1> QED
    BY <1>1 DEF AlertInv, AlertsAreSparse

LEMMA AlertIfKeeps ==
    ASSUME AlertInv, NEW exceeded, NEW k \in AlertKeys, AlertIf(exceeded, k), UNCHANGED clock
    PROVE  AlertInv' /\ warnings \subseteq warnings'
  <1>1. CASE TriggerAlert(k)
    BY <1>1, TriggerAlertKeeps
  <1>2. CASE UNCHANGED <<alertedAt, warnings>>
    BY <1>2, AlertsStay
  <1> QED
    BY <1>1, <1>2 DEF AlertIf

\* The status of a dependency is put in: its failure was alerted.
LEMMA StatusFound ==
    ASSUME clock \in Nat, NEW st \in Statuses, StatusAlerted(st), warnings \subseteq warnings',
           NEW d \in Dependencies, NEW s \in {"OK", "FAIL"},
           s = "FAIL" => \E x \in warnings' : x.key = Down[d] /\ x.at <= clock /\ clock - x.at < AlertInterval,
           NEW new, new = [st EXCEPT ![d] = [status |-> s, at |-> clock]]
    PROVE  new \in Statuses /\ StatusAlerted(new)'
  <1> PICK found : found = [status |-> s, at |-> clock]
    OBVIOUS
  <1>1. found \in [status : {"OK", "FAIL"}, at : Nat] /\ found.status = s /\ found.at = clock
    OBVIOUS
  <1>2. new \in Statuses /\ new[d] = found /\ \A e \in Dependencies \ {d} : new[e] = st[e]
    BY <1>1 DEF Statuses
  <1>3. StatusAlerted(st)'
    BY StatusStaysAlerted
  <1>4. ASSUME NEW e \in Dependencies, new[e].status = "FAIL" PROVE Alerted(e, new[e].at)'
    <2>1. CASE e = d
      BY <1>1, <1>2, <1>4, <2>1 DEF Alerted
    <2>2. CASE e # d
      BY <1>2, <1>3, <1>4, <2>2 DEF StatusAlerted
    <2> QED
      BY <2>1, <2>2
  <1> QED
    BY <1>2, <1>4 DEF StatusAlerted, Alerted

\* A check finds that a dependency is up, or down, and goes on.
LEMMA CheckFinds ==
    ASSUME Base, MonitorInv, NEW q \in Requests, pc[q] \in ProbeSteps,
           NEW d \in Dependencies, NEW s \in {"OK", "FAIL"}, NEW latency, NEW step, Finds(q, d, s, latency, step),
           UNCHANGED <<clock, external>>,
           \/ s = "OK" /\ UNCHANGED <<alertedAt, warnings>>
           \/ TriggerAlert(Down[d])
    PROVE  MonitorInv'
  <1> PICK held : held = mem[q]
    OBVIOUS
  <1> PICK m : m = [held EXCEPT !.latency = latency, !.status[d] = [status |-> s, at |-> clock]]
    OBVIOUS
  <1>1. Put(q, step, m)
    BY GotoPuts DEF Finds, Base
  <1>2. "status" \in DOMAIN held /\ held.status \in Statuses /\ StatusAlerted(held.status) /\ AlertInv /\ clock \in Nat
    BY DEF MonitorInv, Probed, AlertInv
  <1>3. "status" \in DOMAIN m /\ m.status = [held.status EXCEPT ![d] = [status |-> s, at |-> clock]]
    BY <1>2
  <1>4. /\ AlertInv' /\ warnings \subseteq warnings'
        /\ s = "FAIL" => \E x \in warnings' : x.key = Down[d] /\ x.at <= clock /\ clock - x.at < AlertInterval
    <2>1. CASE TriggerAlert(Down[d])
      BY <1>2, <2>1, MonitorNames, TriggerAlertKeeps
    <2>2. CASE s = "OK" /\ UNCHANGED <<alertedAt, warnings>>
      BY <1>2, <2>2, AlertsStay
    <2> QED
      BY <2>1, <2>2
  <1>5. m.status \in Statuses /\ StatusAlerted(m.status)'
    <2> PICK new : new = m.status
      OBVIOUS
    <2>1. new \in Statuses /\ StatusAlerted(new)'
      BY <1>2, <1>3, <1>4, StatusFound
    <2> QED
      BY <2>1
  <1>6. Probed(step, m)'
    BY <1>3, <1>5 DEF Probed
  <1> QED
    BY <1>1, <1>4, <1>6, MonitorMoves

LEMMA AnswerRests == Probed("idle", NoMemory)' /\ \A m : Probed("latencyThreshold", m)'
  BY DEF Probed, ProbeSteps

LEMMA RequestStep ==
    ASSUME Base, MonitorInv, NEW q \in Requests, ObserveRequest(q) \/ MaybeAlert(q)
    PROVE  MonitorInv'
  <1> AlertInv
    BY DEF MonitorInv
  <1>1. CASE ObserveRequest(q)
    <2>1. PICK duration : Receive(q, "monitoring", "latencyThreshold", duration)
      BY <1>1 DEF ObserveRequest
    <2>2. Put(q, "latencyThreshold", duration) /\ UNCHANGED <<clock, external, alertedAt, warnings>>
      BY <1>1, <2>1, ReceivePuts DEF ObserveRequest, Base
    <2>3. AlertInv' /\ warnings \subseteq warnings'
      BY <2>2, AlertsStay
    <2> QED
      BY <2>2, <2>3, AnswerRests, MonitorMoves
  <1>2. CASE MaybeAlert(q)
    <2>1. Put(q, "idle", NoMemory) /\ UNCHANGED <<clock, external>>
      BY <1>2, AnswerPuts DEF MaybeAlert, Base
    <2>2. AlertInv' /\ warnings \subseteq warnings'
      <3>1. "api_latency" \in AlertKeys
        BY DEF AlertKeys
      <3>2. CASE AlertIf(mem[q] > LatencyThreshold, "api_latency")
        BY <2>1, <3>1, <3>2, AlertIfKeeps
      <3>3. CASE UNCHANGED <<alertedAt, warnings>>
        BY <2>1, <3>3, AlertsStay
      <3> QED
        BY <1>2, <3>2, <3>3 DEF MaybeAlert
    <2> QED
      BY <2>1, <2>2, AnswerRests, MonitorMoves
  <1> QED
    BY <1>1, <1>2

\* A request keeps the statuses it holds.
LEMMA StatusesHeld ==
    ASSUME MonitorInv, NEW q \in Requests, pc[q] \in ProbeSteps, warnings \subseteq warnings',
           NEW step, NEW m, "status" \in DOMAIN m, m.status = mem[q].status
    PROVE  Probed(step, m)'
  <1> PICK st : st = m.status
    OBVIOUS
  <1>1. st \in Statuses /\ StatusAlerted(st)
    BY DEF MonitorInv, Probed
  <1>2. StatusAlerted(st)'
    BY <1>1, StatusStaysAlerted
  <1> QED
    BY <1>1, <1>2 DEF Probed

LEMMA SampleStep ==
    ASSUME Base, MonitorInv, NEW q \in Requests,
           GetSummary(q) \/ CollectSystemResources(q) \/ CompareCpu(q) \/ CompareMemory(q)
    PROVE  MonitorInv'
  <1> AlertInv
    BY DEF MonitorInv
  <1>1. CASE GetSummary(q)
    <2> PICK m : m = [cpu |-> 0, heap |-> 0, latency |-> 0, status |-> AllOk]
      OBVIOUS
    <2>1. Put(q, "sampleSystem", m) /\ UNCHANGED <<clock, external, alertedAt, warnings>>
      BY <1>1, ReceivePuts DEF GetSummary, monitorVars, Base
    <2>2. AlertInv' /\ warnings \subseteq warnings'
      BY <2>1, AlertsStay
    <2>3. "status" \in DOMAIN m /\ m.status = AllOk
      OBVIOUS
    <2>4. StatusAlerted(AllOk)'
      BY <2>2, MonitorNames, StatusStaysAlerted
    <2>5. Probed("sampleSystem", m)'
      BY <2>3, <2>4, MonitorNames DEF Probed, AllOk
    <2> QED
      BY <2>1, <2>2, <2>5, MonitorMoves
  <1> PICK held : held = mem[q]
    OBVIOUS
  <1>2. CASE CollectSystemResources(q)
    <2>1. pc[q] \in ProbeSteps /\ UNCHANGED <<clock, external, alertedAt, warnings>>
      BY <1>2 DEF CollectSystemResources, At, ProbeSteps
    <2>2. PICK x : Goto(q, "cpuThreshold", [held EXCEPT !.cpu = x.cpu, !.heap = x.heap])
      BY <1>2 DEF CollectSystemResources
    <2> PICK m : m = [held EXCEPT !.cpu = x.cpu, !.heap = x.heap]
      OBVIOUS
    <2>3. Put(q, "cpuThreshold", m)
      BY <2>2, GotoPuts DEF Base
    <2>4. "status" \in DOMAIN held
      BY <2>1 DEF MonitorInv, Probed
    <2>5. "status" \in DOMAIN m /\ m.status = held.status
      BY <2>4
    <2>6. AlertInv' /\ warnings \subseteq warnings'
      BY <2>1, AlertsStay
    <2>7. Probed("cpuThreshold", m)'
      BY <2>1, <2>5, <2>6, StatusesHeld
    <2> QED
      BY <2>1, <2>3, <2>6, <2>7, MonitorMoves
  <1>3. CASE CompareCpu(q)
    <2> PICK m : m = [held EXCEPT !.cpu = 0]
      OBVIOUS
    <2>1. pc[q] \in ProbeSteps /\ UNCHANGED <<clock, external>> /\ Put(q, "memoryThreshold", m)
      BY <1>3, GotoPuts DEF CompareCpu, At, ProbeSteps, Base
    <2>2. "status" \in DOMAIN held
      BY <2>1 DEF MonitorInv, Probed
    <2>3. "status" \in DOMAIN m /\ m.status = held.status
      BY <2>2
    <2>4. "cpu_threshold" \in AlertKeys
      BY DEF AlertKeys
    <2>5. AlertInv' /\ warnings \subseteq warnings'
      BY <1>3, <2>1, <2>4, AlertIfKeeps DEF CompareCpu
    <2>6. Probed("memoryThreshold", m)'
      BY <2>1, <2>3, <2>5, StatusesHeld
    <2> QED
      BY <2>1, <2>5, <2>6, MonitorMoves
  <1>4. CASE CompareMemory(q)
    <2> PICK m : m = [held EXCEPT !.heap = 0]
      OBVIOUS
    <2>1. pc[q] \in ProbeSteps /\ UNCHANGED <<clock, external>> /\ Put(q, "checkDatabase", m)
      BY <1>4, GotoPuts DEF CompareMemory, At, ProbeSteps, Base
    <2>2. "status" \in DOMAIN held
      BY <2>1 DEF MonitorInv, Probed
    <2>3. "status" \in DOMAIN m /\ m.status = held.status
      BY <2>2
    <2>4. "memory_threshold" \in AlertKeys
      BY DEF AlertKeys
    <2>5. AlertInv' /\ warnings \subseteq warnings'
      BY <1>4, <2>1, <2>4, AlertIfKeeps DEF CompareMemory
    <2>6. Probed("checkDatabase", m)'
      BY <2>1, <2>3, <2>5, StatusesHeld
    <2> QED
      BY <2>1, <2>5, <2>6, MonitorMoves
  <1> QED
    BY <1>1, <1>2, <1>3, <1>4

LEMMA CheckStep ==
    ASSUME Base, MonitorInv, NEW q \in Requests, CheckDatabase(q) \/ CompareDatabase(q) \/ CheckRedis(q)
    PROVE  MonitorInv'
  <1>1. pc[q] \in ProbeSteps /\ UNCHANGED <<clock, external>>
    BY DEF CheckDatabase, CompareDatabase, CheckRedis, At, ProbeSteps
  <1>2. ASSUME NEW d \in Dependencies, NEW step, Fails(q, d, step) PROVE MonitorInv'
    BY <1>1, <1>2, CheckFinds DEF Fails
  <1>3. ASSUME NEW d \in Dependencies, NEW step, NEW latency, Finds(q, d, "OK", latency, step),
               UNCHANGED <<alertedAt, warnings>>
        PROVE  MonitorInv'
    BY <1>1, <1>3, CheckFinds
  <1>4. "database" \in Dependencies /\ "redis" \in Dependencies
    BY MonitorNames
  <1>5. CASE CheckDatabase(q)
    BY <1>2, <1>3, <1>4, <1>5 DEF CheckDatabase
  <1>6. CASE CheckRedis(q)
    BY <1>2, <1>3, <1>4, <1>6 DEF CheckRedis
  <1>7. CASE CompareDatabase(q)
    <2>1. CASE Fails(q, "database", "checkRedis")
      BY <1>2, <1>4, <2>1
    <2>2. CASE /\ AlertIf(mem[q].latency > DatabaseThreshold, "db_latency")
               /\ Goto(q, "checkRedis", [mem[q] EXCEPT !.latency = 0])
      <3> PICK held : held = mem[q]
        OBVIOUS
      <3> PICK m : m = [held EXCEPT !.latency = 0]
        OBVIOUS
      <3>1. Put(q, "checkRedis", m)
        BY <2>2, GotoPuts DEF Base
      <3>2. "status" \in DOMAIN held /\ AlertInv
        BY <1>1 DEF MonitorInv, Probed
      <3>3. "status" \in DOMAIN m /\ m.status = held.status
        BY <3>2
      <3>4. "db_latency" \in AlertKeys
        BY DEF AlertKeys
      <3>5. AlertInv' /\ warnings \subseteq warnings'
        BY <1>1, <2>2, <3>2, <3>4, AlertIfKeeps
      <3>6. Probed("checkRedis", m)'
        BY <1>1, <3>3, <3>5, StatusesHeld
      <3> QED
        BY <1>1, <3>1, <3>5, <3>6, MonitorMoves
    <2> QED
      BY <1>7, <2>1, <2>2 DEF CompareDatabase
  <1> QED
    BY <1>5, <1>6, <1>7

------------------------------------------------------------------------------
LEMMA CheckStellarStep ==
    ASSUME Base, MonitorInv, NEW q \in Requests, CheckStellar(q)
    PROVE  MonitorInv'
  <1> PICK st : st = mem[q].status
    OBVIOUS
  <1>1. pc[q] \in ProbeSteps /\ UNCHANGED clock /\ Put(q, "idle", NoMemory)
    BY AnswerPuts DEF CheckStellar, At, ProbeSteps, Base
  <1>2. st \in Statuses /\ StatusAlerted(st) /\ AlertInv /\ clock \in Nat
    BY <1>1 DEF MonitorInv, Probed, AlertInv
  <1>3. PICK s \in {"OK", "FAIL"} :
           /\ external' = [st EXCEPT !["stellar"] = [status |-> s, at |-> clock]]
           /\ (s = "OK" /\ UNCHANGED <<alertedAt, warnings>>) \/ TriggerAlert(Down["stellar"])
    BY DEF CheckStellar
  <1>4. "stellar" \in Dependencies /\ Down["stellar"] \in AlertKeys
    BY MonitorNames
  <1>5. /\ AlertInv' /\ warnings \subseteq warnings'
        /\ s = "FAIL" => \E x \in warnings' : x.key = Down["stellar"] /\ x.at <= clock /\ clock - x.at < AlertInterval
    <2>1. CASE TriggerAlert(Down["stellar"])
      BY <1>1, <1>2, <1>4, <2>1, TriggerAlertKeeps
    <2>2. CASE s = "OK" /\ UNCHANGED <<alertedAt, warnings>>
      BY <1>1, <1>2, <2>2, AlertsStay
    <2> QED
      BY <1>3, <2>1, <2>2
  <1>6. external' \in Statuses /\ StatusAlerted(external)'
    <2> PICK new : new = external'
      OBVIOUS
    <2>1. new \in Statuses /\ StatusAlerted(new)'
      BY <1>2, <1>3, <1>4, <1>5, StatusFound
    <2> QED
      BY <2>1 DEF StatusAlerted, Alerted
  <1>7. \A r \in Requests \ {q} : Probed(pc[r], mem[r])'
    <2> SUFFICES ASSUME NEW r \in Requests \ {q} PROVE Probed(pc[r], mem[r])'
      OBVIOUS
    <2> PICK held : held = mem[r]
      OBVIOUS
    <2> PICK step : step = pc[r]
      OBVIOUS
    <2>1. pc'[r] = step /\ mem'[r] = held /\ Probed(step, held)
      BY <1>1 DEF Put, MonitorInv
    <2>2. Probed(step, held)'
      BY <1>5, <2>1, StatusStaysAlerted
    <2> QED
      BY <2>1, <2>2 DEF Probed
  <1>8. Probed(pc[q], mem[q])'
    BY <1>1 DEF Put, Probed, ProbeSteps
  <1> QED
    BY <1>5, <1>6, <1>7, <1>8 DEF MonitorInv

LEMMA RestartStep ==
    ASSUME MonitorInv, Restart
    PROVE  MonitorInv'
  <1>1. clock' \in Nat /\ alertedAt' = NoAlerts /\ external' = AllOk /\ warnings' = {}
    BY DEF Restart, MonitorInv, AlertInv
  <1>2. AlertInv'
    BY <1>1 DEF AlertInv, NoAlerts, AlertsAreSparse
  <1>3. \A d \in Dependencies : AllOk[d].status = "OK"
    BY DEF AllOk, OkStatus
  <1>4. external' \in Statuses /\ StatusAlerted(external)'
    BY <1>1, <1>3, MonitorNames DEF StatusAlerted
  <1>5. \A q \in Requests : Probed(pc[q], mem[q])'
    BY DEF Restart, Probed, ProbeSteps
  <1> QED
    BY <1>2, <1>4, <1>5 DEF MonitorInv

\* The component, or the others, leave requests and warnings alone.
LEMMA MonitorStays ==
    ASSUME MonitorInv, UNCHANGED <<external, alertedAt, warnings>>, clock' \in {clock, clock + 1},
           \A q \in Requests : pc[q] \in ProbeSteps \/ pc'[q] \in ProbeSteps => pc'[q] = pc[q] /\ mem'[q] = mem[q]
    PROVE  MonitorInv'
  <1>1. AlertInv' /\ warnings \subseteq warnings'
    BY AlertsStay DEF MonitorInv
  <1>2. external' \in Statuses /\ StatusAlerted(external)'
    BY DEF MonitorInv, StatusAlerted, Alerted
  <1>3. \A q \in Requests : Probed(pc[q], mem[q])'
    BY DEF MonitorInv, Probed, StatusAlerted, Alerted
  <1> QED
    BY <1>1, <1>2, <1>3 DEF MonitorInv

LEMMA MonitorNextInv == Base /\ MonitorInv /\ [Next]_vars => MonitorInv'
  <1> SUFFICES ASSUME Base, MonitorInv, [Next]_vars PROVE MonitorInv'
    OBVIOUS
  <1>1. CASE MonitorStep
    <2>1. CASE Pass
      BY <2>1, MonitorStays DEF Pass, handlerVars
    <2>2. ASSUME NEW q \in Requests,
                 \/ ObserveRequest(q) \/ MaybeAlert(q)
                 \/ GetSummary(q) \/ CollectSystemResources(q) \/ CompareCpu(q) \/ CompareMemory(q)
                 \/ ThresholdUnreadable(q)
                 \/ CheckDatabase(q) \/ CompareDatabase(q) \/ CheckRedis(q) \/ CheckStellar(q)
                 \/ MonitorInterrupted(q)
          PROVE  MonitorInv'
      BY <2>2, RequestStep, SampleStep, CheckStep, CheckStellarStep, RestartStep
         DEF ThresholdUnreadable, MonitorInterrupted
    <2> QED
      BY <1>1, <2>1, <2>2 DEF MonitorStep, MonitorNext
  <1>2. CASE ~MonitorStep
    BY <1>2, MonitorApart, MonitorStays DEF monitorVars, Apart, MonitorSteps
  <1> QED
    BY <1>1, <1>2

LEMMA MonitorInvariant == Spec => []MonitorInv
  BY BaseInit, BaseStep, MonitorInitInv, MonitorNextInv, PTL DEF Spec

\* One alert of a kind in an interval at most, and no failure shown that was not alerted
\* within one before it was found: whatever the samples, the latencies, the interval and the
\* requests, the process being restarted at any time (MetricsService.ts lines 229 to 347
\* and 476 to 506).
THEOREM AlertsAlwaysHold == Spec => []AlertsHold
  <1>1. MonitorInv => AlertsHold
    BY DEF MonitorInv, AlertInv, StatusAlerted, Alerted, AlertsHold, FailuresAreAlerted
  <1> QED
    BY <1>1, MonitorInvariant, PTL

------------------------------------------------------------------------------
\* The sums of the model are sums of functions.
Amounts == [p \in Payments |-> sales[p].amount]
AmountRecursion(g, S) ==
    g = [s \in SUBSET S |-> IF s = {} THEN 0 ELSE sales[Chosen(s)].amount + g[s \ {Chosen(s)}]]

LEMMA AmountIs ==
    ASSUME NEW S, S \subseteq Payments
    PROVE  Amount(S) = Sum(Amounts, S)
  <1>1. Amount(S) = (CHOOSE g : AmountRecursion(g, S))[S]
    BY DEF Amount, MapThenSumSet, MapThenFoldSet, Chosen, AmountRecursion
  <1>2. \A s \in SUBSET S : s # {} => Chosen(s) \in Payments
    BY DEF Chosen
  <1>3. \A g : AmountRecursion(g, S) <=> Recursion(g, Amounts, S)
    BY <1>2 DEF AmountRecursion, Recursion, Amounts
  <1>4. (CHOOSE g : AmountRecursion(g, S)) = (CHOOSE g : Recursion(g, Amounts, S))
    BY <1>3, Zenon
  <1> QED
    BY <1>1, <1>4, SumIs

LEMMA AddUpIs ==
    ASSUME NEW f
    PROVE  AddUp(f) = Sum(f, DOMAIN f)
  BY DEF AddUp, Sum

\* The tables the figures are taken from.
Tables2 == sales \in [Payments -> Sale] /\ links \subseteq Links

LEMMA CompletedIs ==
    ASSUME Tables2, NEW from, NEW to
    PROVE  /\ Completed(from, to) \subseteq Payments /\ IsFiniteSet(Completed(from, to))
           /\ \A p \in Completed(from, to) : Amounts[p] \in Nat /\ sales[p].age \in Ages
           /\ Amount(Completed(from, to)) = Sum(Amounts, Completed(from, to))
           /\ Amount(Completed(from, to)) \in Nat
  <1>1. Completed(from, to) \subseteq Payments
    BY DEF Completed
  <1>2. IsFiniteSet(Completed(from, to))
    BY <1>1, ReportAssumption, FS_Subset
  <1>3. \A p \in Completed(from, to) : Amounts[p] \in Nat /\ sales[p].age \in Ages
    BY <1>1 DEF Tables2, Sale, Amounts
  <1>4. Amount(Completed(from, to)) = Sum(Amounts, Completed(from, to))
    BY <1>1, AmountIs
  <1> QED
    BY <1>1, <1>2, <1>3, <1>4, SumType

\* Sums by the value of k add up to the sum of the payments they are of.
LEMMA GroupsAddUp ==
    ASSUME Tables2, NEW S, S \subseteq Payments, IsFiniteSet(S), \A p \in S : Amounts[p] \in Nat,
           NEW k, NEW f, f = [a \in {k[p] : p \in S} |-> Amount({p \in S : k[p] = a})]
    PROVE  /\ Sum(f, DOMAIN f) = Sum(Amounts, S)
           /\ IsFiniteSet(DOMAIN f) /\ \A a \in DOMAIN f : f[a] \in Nat
  <1>1. DOMAIN f = ValuesOn(k, S)
    BY DEF ValuesOn
  <1>2. ASSUME NEW a \in ValuesOn(k, S)
        PROVE  f[a] = Sum(Amounts, {x \in S : k[x] = a}) /\ f[a] \in Nat
    <2>1. f[a] = Amount({x \in S : k[x] = a})
      BY <1>2 DEF ValuesOn
    <2>2. {x \in S : k[x] = a} \subseteq Payments /\ {x \in S : k[x] = a} \subseteq S
      OBVIOUS
    <2>3. IsFiniteSet({x \in S : k[x] = a})
      BY <2>2, FS_Subset
    <2>4. \A x \in {y \in S : k[y] = a} : Amounts[x] \in Nat
      OBVIOUS
    <2> QED
      BY <2>1, <2>2, <2>3, <2>4, AmountIs, SumType
  <1>3. SumsOn(f, Amounts, k, S)
    BY <1>2 DEF SumsOn
  <1>4. IsFiniteSet(ValuesOn(k, S))
    <2>1. [x \in S |-> k[x]] \in Surjection(S, ValuesOn(k, S))
      BY DEF Surjection, ValuesOn
    <2> QED
      BY <2>1, FS_Surjection
  <1>5. Sum(f, ValuesOn(k, S)) = Sum(Amounts, S)
    BY <1>3, SumGrouped
  <1> QED
    BY <1>1, <1>2, <1>4, <1>5

LEMMA ByTimeAddsUp ==
    ASSUME Tables2, NEW from, NEW to, NEW kind
    PROVE  AddUp(SalesByTimePeriod(from, to, kind)) = Amount(Completed(Since(from, kind), Until(to)))
  <1> DEFINE S == Completed(Since(from, kind), Until(to))
             ages == [p \in Payments |-> sales[p].age]
             f == SalesByTimePeriod(from, to, kind)
  <1>1. /\ S \subseteq Payments /\ IsFiniteSet(S) /\ \A p \in S : Amounts[p] \in Nat
        /\ Amount(S) = Sum(Amounts, S)
    BY CompletedIs
  <1>2. f = [a \in {ages[p] : p \in S} |-> Amount({p \in S : ages[p] = a})]
    <2>1. {ages[p] : p \in S} = {sales[p].age : p \in S}
      BY <1>1
    <2>2. \A a : {p \in S : ages[p] = a} = {p \in S : sales[p].age = a}
      BY <1>1
    <2> QED
      BY <2>1, <2>2 DEF SalesByTimePeriod
  <1> HIDE DEF S, ages, f
  <1>3. Sum(f, DOMAIN f) = Amount(S)
    BY <1>1, <1>2, GroupsAddUp
  <1>4. AddUp(f) = Amount(S)
    BY <1>3, AddUpIs
  <1> QED
    BY <1>4 DEF f, S

LEMMA ByProductAddsUp ==
    ASSUME Tables2, NEW from, NEW to
    PROVE  LET sold == SalesByProduct(from, to) IN
           /\ IsFiniteSet(DOMAIN sold) /\ \A n \in DOMAIN sold : sold[n] \in Nat
           /\ Sum(sold, DOMAIN sold) = IF from = None /\ to = None THEN 0
                                       ELSE Amount(Completed(Since(from, "top"), Until(to)))
  <1> DEFINE S == IF from = None /\ to = None THEN {} ELSE Completed(Since(from, "top"), Until(to))
             products == [p \in Payments |-> Product(sales[p].link)]
             f == SalesByProduct(from, to)
  <1>1. S \subseteq Payments /\ IsFiniteSet(S) /\ \A p \in S : Amounts[p] \in Nat
    BY CompletedIs, FS_EmptySet
  <1>2. f = [a \in {products[p] : p \in S} |-> Amount({p \in S : products[p] = a})]
    <2>1. {products[p] : p \in S} = {Product(sales[p].link) : p \in S}
      BY <1>1
    <2>2. \A a : {p \in S : products[p] = a} = {p \in S : Product(sales[p].link) = a}
      BY <1>1
    <2> QED
      BY <2>1, <2>2 DEF SalesByProduct
  <1>3. Sum(Amounts, S) = IF from = None /\ to = None THEN 0
                          ELSE Amount(Completed(Since(from, "top"), Until(to)))
    BY CompletedIs, SumEmpty
  <1> HIDE DEF S, products, f
  <1>4. Sum(f, DOMAIN f) = Sum(Amounts, S) /\ IsFiniteSet(DOMAIN f) /\ \A n \in DOMAIN f : f[n] \in Nat
    BY <1>1, <1>2, GroupsAddUp
  <1> QED
    BY <1>3, <1>4 DEF f

\* What is listed is part of what was sold, and all of it unless the list is full.
LEMMA ListIsPart ==
    ASSUME Tables2, NEW from, NEW to, NEW list \in TopSellingProducts(from, to)
    PROVE  LET sold == SalesByProduct(from, to) IN
           /\ AddUp(list) <= Sum(sold, DOMAIN sold) /\ AddUp(list) \in Nat
           /\ Cardinality(DOMAIN list) < BestSellers => AddUp(list) = Sum(sold, DOMAIN sold)
  <1> DEFINE sold == SalesByProduct(from, to)
             Best(T) == /\ IF Cardinality(DOMAIN sold) <= BestSellers THEN T = DOMAIN sold
                           ELSE Cardinality(T) = BestSellers
                        /\ \A n \in T, o \in DOMAIN sold \ T : sold[o] <= sold[n]
  <1>1. IsFiniteSet(DOMAIN sold) /\ \A n \in DOMAIN sold : sold[n] \in Nat
    BY ByProductAddsUp
  <1>2. PICK T \in SUBSET DOMAIN sold : Best(T) /\ list = [n \in T |-> sold[n]]
    BY DEF TopSellingProducts
  <1>3. IsFiniteSet(T) /\ DOMAIN list = T /\ (\A n \in T : list[n] = sold[n] /\ sold[n] \in Nat)
    BY <1>1, <1>2, FS_Subset
  <1>4. Cardinality(T) \in Nat /\ BestSellers \in Nat
    BY <1>3, FS_CardinalityType, ReportAssumption
  <1>5. Cardinality(T) < BestSellers => T = DOMAIN sold
    BY <1>2, <1>4
  <1> HIDE DEF sold, Best
  <1>6. AddUp(list) = Sum(sold, T)
    BY <1>3, AddUpIs, SumSame
  <1>7. Sum(sold, T) <= Sum(sold, DOMAIN sold) /\ Sum(sold, T) \in Nat
    BY <1>1, <1>2, <1>3, SumOfPart, SumType
  <1> QED
    BY <1>3, <1>5, <1>6, <1>7 DEF sold

LEMMA LaterIsPart ==
    ASSUME Tables2, NEW a \in Int, NEW b \in Int, a <= b, NEW c \in Int
    PROVE  Amount(Completed(a, c)) <= Amount(Completed(b, c))
  <1>1. Completed(a, c) \subseteq Completed(b, c)
    BY DEF Completed, Tables2, Sale, Ages
  <1> QED
    BY <1>1, CompletedIs, SumOfPart

\* The figures of one moment agree.
AddsUp(total, daily, monthly, list, from, to) ==
    LET top == AddUp(list) IN
    IF from = None
    THEN /\ daily <= monthly /\ top <= monthly /\ monthly <= total
         /\ to = None => top = 0
    ELSE /\ daily = total /\ monthly = total /\ top <= total
         /\ Cardinality(DOMAIN list) < BestSellers => top = total

LEMMA FiguresOfAMoment ==
    ASSUME Tables2, NEW from, NEW to \in Ages \cup {None},
           NEW total \in Answers("total", from, to), NEW daily \in Answers("daily", from, to),
           NEW monthly \in Answers("monthly", from, to), NEW list \in Answers("top", from, to)
    PROVE  AddsUp(total, daily, monthly, list, from, to)
  <1> DEFINE sold == SalesByProduct(from, to)
             all == Sum(sold, DOMAIN sold)
  <1>1. /\ daily = Amount(Completed(Since(from, "daily"), Until(to)))
        /\ monthly = Amount(Completed(Since(from, "monthly"), Until(to)))
        /\ total = Amount(Completed(IF from = None THEN 4 ELSE from, Until(to)))
        /\ list \in TopSellingProducts(from, to)
    BY ByTimeAddsUp DEF Answers, TotalSales
  <1>2. /\ AddUp(list) <= all /\ AddUp(list) \in Nat
        /\ Cardinality(DOMAIN list) < BestSellers => AddUp(list) = all
    BY <1>1, ListIsPart
  <1>3. all = IF from = None /\ to = None THEN 0
              ELSE Amount(Completed(Since(from, "top"), Until(to)))
    BY ByProductAddsUp
  <1>4. \A f, t : Amount(Completed(f, t)) \in Nat
    BY CompletedIs
  <1>5. Until(to) \in Int
    BY DEF Until, Ages
  <1> HIDE DEF all
  <1>6. CASE from = None
    <2>1. Since(from, "daily") = 0 /\ Since(from, "monthly") = 3 /\ Since(from, "top") = 2
      BY <1>6 DEF Since, Default
    <2>2. /\ Amount(Completed(0, Until(to))) <= Amount(Completed(3, Until(to)))
          /\ Amount(Completed(2, Until(to))) <= Amount(Completed(3, Until(to)))
          /\ Amount(Completed(3, Until(to))) <= Amount(Completed(4, Until(to)))
      BY <1>5, LaterIsPart
    <2>3. daily <= monthly /\ monthly <= total
      BY <1>1, <1>6, <2>1, <2>2
    <2>4. all <= monthly /\ all \in Nat /\ (to = None => all = 0)
      BY <1>1, <1>3, <1>4, <1>6, <2>1, <2>2
    <2> QED
      BY <1>1, <1>2, <1>4, <1>6, <2>3, <2>4 DEF AddsUp
  <1>7. CASE from # None
    <2>1. daily = total /\ monthly = total /\ all = total
      BY <1>1, <1>3, <1>7 DEF Since
    <2> QED
      BY <1>2, <1>7, <2>1 DEF AddsUp
  <1> QED
    BY <1>6, <1>7

------------------------------------------------------------------------------
\* What a summary has so far: unless the sales changed since it began, its figures are
\* those a query would find now.
Gathered(step, m, changed) ==
    step = "salesSummary" =>
        /\ m = [from |-> m.from, to |-> m.to, figures |-> m.figures]
        /\ m.to \in Ages \cup {None}
        /\ DOMAIN m.figures \subseteq Figures
        /\ m.figures = [n \in DOMAIN m.figures |-> m.figures[n]]
        /\ changed \/ \A n \in DOMAIN m.figures : m.figures[n] \in Answers(n, m.from, m.to)

ReportInv ==
    /\ ReportTypeOK
    /\ \A q \in Requests : Gathered(pc[q], mem[q], q \in moved)
    /\ SummaryAddsUp

LEMMA ReportInitInv == Init => ReportInv
  <1> SUFFICES ASSUME Init PROVE ReportInv
    OBVIOUS
  <1>1. \A q \in Requests : Gathered(pc[q], mem[q], q \in moved)
    BY InitPerRequest DEF Init, Gathered
  <1>2. summary = None
    BY DEF Init, ReportInit, ReportIdle
  <1>3. sales \in [Payments -> Sale] /\ links \subseteq Links
    <2>1. CASE ReportInit
      BY <2>1, ReportAssumption DEF ReportInit
    <2>2. CASE ReportIdle
      <3>1. (CHOOSE l \in Links : TRUE) \in Links
        BY ReportAssumption
      <3> QED
        BY <2>2, <3>1 DEF ReportIdle, Sale, Ages
    <2> QED
      BY <2>1, <2>2 DEF Init
  <1> QED
    BY <1>1, <1>2, <1>3 DEF ReportInv, ReportTypeOK, SummaryAddsUp

\* What is added up and found as long as the tables stay.
LEMMA FiguresStay ==
    ASSUME UNCHANGED <<sales, links>>
    PROVE  \A n, from, to : Answers(n, from, to)' = Answers(n, from, to)
  <1>1. ASSUME NEW S PROVE Amount(S)' = Amount(S)
    <2>1. /\ Amount(S) = (CHOOSE g : AmountRecursion(g, S))[S]
          /\ Amount(S)' = (CHOOSE g : AmountRecursion(g, S)')[S]
      BY DEF Amount, MapThenSumSet, MapThenFoldSet, Chosen, AmountRecursion
    <2>2. \A g : AmountRecursion(g, S)' <=> AmountRecursion(g, S)
      BY DEF AmountRecursion
    <2>3. (CHOOSE g : AmountRecursion(g, S)') = (CHOOSE g : AmountRecursion(g, S))
      BY <2>2, Zenon
    <2> QED
      BY <2>1, <2>3
  <1>2. \A from, to : Completed(from, to)' = Completed(from, to)
    BY DEF Completed
  <1>3. ASSUME NEW from, NEW to, NEW kind
        PROVE  SalesByTimePeriod(from, to, kind)' = SalesByTimePeriod(from, to, kind)
    BY <1>1, <1>2 DEF SalesByTimePeriod
  <1>4. ASSUME NEW from, NEW to PROVE TopSellingProducts(from, to)' = TopSellingProducts(from, to)
    <2>1. SalesByProduct(from, to)' = SalesByProduct(from, to)
      BY <1>1, <1>2 DEF SalesByProduct
    <2> QED
      BY <2>1 DEF TopSellingProducts
  <1>5. \A from, to : TotalSales(from, to)' = TotalSales(from, to)
    BY <1>1, <1>2 DEF TotalSales
  <1> QED
    BY <1>3, <1>4, <1>5, AddUpIs DEF Answers

\* The tables and the requests that read them stay, or all of these have had the sales
\* change under them.
LEMMA ReportStays ==
    ASSUME ReportInv, UNCHANGED summary, sales' \in [Payments -> Sale], links' \subseteq Links,
           \/ UNCHANGED <<sales, links, moved>>
           \/ moved' = moved \cup Reading,
           \A q \in Requests : pc[q] = "salesSummary" \/ pc'[q] = "salesSummary"
                                  => pc'[q] = pc[q] /\ mem'[q] = mem[q]
    PROVE  ReportInv'
  <1>1. ReportTypeOK' /\ SummaryAddsUp'
    BY DEF ReportInv, ReportTypeOK, SummaryAddsUp
  <1>2. ASSUME NEW q \in Requests PROVE Gathered(pc[q], mem[q], q \in moved)'
    <2> SUFFICES ASSUME pc'[q] = "salesSummary" PROVE Gathered(pc[q], mem[q], q \in moved)'
      BY DEF Gathered
    <2>1. pc'[q] = pc[q] /\ mem'[q] = mem[q] /\ pc[q] = "salesSummary" /\ Gathered(pc[q], mem[q], q \in moved)
      BY DEF ReportInv
    <2>2. CASE UNCHANGED <<sales, links, moved>>
      <3>1. \A n, from, to : Answers(n, from, to)' = Answers(n, from, to)
        BY <2>2, FiguresStay
      <3> QED
        BY <2>1, <2>2, <3>1 DEF Gathered
    <2>3. CASE moved' = moved \cup Reading
      <3>1. q \in moved'
        BY <2>1, <2>3 DEF Reading, At
      <3> QED
        BY <2>1, <3>1 DEF Gathered
    <2> QED
      BY <2>2, <2>3
  <1> QED
    BY <1>1, <1>2 DEF ReportInv

LEMMA GetSalesSummaryInv ==
    ASSUME PerRequest, ReportInv, NEW q \in Requests, GetSalesSummary(q)
    PROVE  ReportInv'
  <1> DEFINE Begun(from, to) == [from |-> from, to |-> to, figures |-> [n \in {} |-> 0]]
  <1> PICK from \in Dates, to \in Dates : Receive(q, "reports", "salesSummary", Begun(from, to))
    BY DEF GetSalesSummary
  <1>1. Put(q, "salesSummary", Begun(from, to))
    BY ReceivePuts
  <1>2. moved' = moved \ {q} /\ UNCHANGED <<sales, links, summary>>
    BY DEF GetSalesSummary
  <1>3. \A n, f, t : Answers(n, f, t)' = Answers(n, f, t)
    BY <1>2, FiguresStay
  <1>4. Gathered("salesSummary", Begun(from, to), FALSE)'
    BY ReportAssumption DEF Gathered
  <1> HIDE DEF Begun
  <1>5. \A r \in Requests : Gathered(pc[r], mem[r], r \in moved)'
    BY <1>1, <1>2, <1>3, <1>4 DEF ReportInv, Put, Gathered
  <1> QED
    BY <1>2, <1>5 DEF ReportInv, ReportTypeOK, SummaryAddsUp

------------------------------------------------------------------------------
LEMMA QueryFigureInv ==
    ASSUME PerRequest, ReportInv, NEW q \in Requests, QueryFigure(q)
    PROVE  ReportInv'
  <1> DEFINE Sent(figures) ==
                [n2 \in Figures \cup {"from", "to", "moved"} |->
                    CASE n2 = "from" -> mem[q].from
                      [] n2 = "to" -> mem[q].to
                      [] n2 = "moved" -> q \in moved
                      [] OTHER -> figures[n2]]
  <1> PICK n, answer, figures :
          /\ n \in Figures \ DOMAIN mem[q].figures
          /\ answer \in Answers(n, mem[q].from, mem[q].to)
          /\ figures = [m \in DOMAIN mem[q].figures \cup {n} |->
                IF m = n THEN answer ELSE mem[q].figures[m]]
          /\ \/ /\ DOMAIN figures # Figures
                /\ Goto(q, "salesSummary", [mem[q] EXCEPT !.figures = figures])
                /\ UNCHANGED summary
             \/ /\ DOMAIN figures = Figures
                /\ summary' = Sent(figures)
                /\ Answer(q)
    BY DEF QueryFigure
  <1> PICK o : o = [mem[q] EXCEPT !.figures = figures]
    OBVIOUS
  <1> PICK sent : sent = Sent(figures)
    OBVIOUS
  <1>s. /\ DOMAIN sent = Figures \cup {"from", "to", "moved"}
        /\ sent.from = mem[q].from /\ sent.to = mem[q].to /\ sent.moved = (q \in moved)
        /\ \A m \in Figures : sent[m] = figures[m]
    BY DEF Figures
  <1> HIDE DEF Sent
  <1>0. UNCHANGED <<sales, links, moved>> /\ Gathered("salesSummary", mem[q], q \in moved)
    BY DEF QueryFigure, At, ReportInv
  <1>1. /\ DOMAIN figures \subseteq Figures /\ figures = [m \in DOMAIN figures |-> figures[m]]
        /\ q \in moved \/ \A m \in DOMAIN figures : figures[m] \in Answers(m, mem[q].from, mem[q].to)
    BY <1>0 DEF Gathered
  <1>2. o = [from |-> mem[q].from, to |-> mem[q].to, figures |-> figures]
    BY <1>0 DEF Gathered
  <1>3. Gathered("salesSummary", o, q \in moved)'
    BY <1>0, <1>1, <1>2, FiguresStay DEF Gathered
  <1>4. \A step, m, c : Gathered(step, m, c)' <=> Gathered(step, m, c)
    BY <1>0, FiguresStay DEF Gathered
  <1>5. (sales \in [Payments -> Sale] /\ links \subseteq Links)'
    BY <1>0 DEF ReportInv, ReportTypeOK
  <1>6. CASE Goto(q, "salesSummary", o) /\ UNCHANGED summary
    <2>1. \A r \in Requests : Gathered(pc[r], mem[r], r \in moved)'
      BY <1>0, <1>3, <1>4, <1>6, GotoPuts DEF ReportInv, Put
    <2> QED
      BY <1>5, <1>6, <2>1 DEF ReportInv, ReportTypeOK, SummaryAddsUp
  <1>7. CASE DOMAIN figures = Figures /\ summary' = sent /\ Answer(q)
    <2>1. \A r \in Requests : Gathered(pc[r], mem[r], r \in moved)'
      <3>1. Gathered("idle", NoMemory, q \in moved)'
        BY DEF Gathered
      <3> QED
        BY <1>0, <1>4, <1>7, <3>1, AnswerPuts DEF ReportInv, Put
    <2>2. DOMAIN summary' = Figures \cup {"from", "to", "moved"}
      BY <1>7, <1>s
    <2>3. SummaryAddsUp'
      <3> SUFFICES ASSUME ~sent.moved PROVE SummaryAddsUp'
        BY <1>7 DEF SummaryAddsUp
      <3>1. q \notin moved
        BY <1>s
      <3>2. \A m \in Figures : sent[m] \in Answers(m, sent.from, sent.to)
        BY <1>1, <1>7, <1>s, <3>1
      <3>3. Tables2 /\ sent.to \in Ages \cup {None}
        BY <1>0, <1>s DEF Tables2, ReportInv, ReportTypeOK, Gathered
      <3>4. AddsUp(sent.total, sent.daily, sent.monthly, sent.top, sent.from, sent.to)
        BY <3>2, <3>3, FiguresOfAMoment DEF Figures
      <3>5. \A f : AddUp(f)' = AddUp(f)
        BY AddUpIs
      <3> QED
        BY <1>7, <3>4, <3>5 DEF SummaryAddsUp, AddsUp
    <2> QED
      BY <1>5, <2>1, <2>2, <2>3 DEF ReportInv, ReportTypeOK
  <1> QED
    BY <1>6, <1>7

LEMMA ReportNextInv == Base /\ ReportInv /\ [Next]_vars => ReportInv'
  <1> SUFFICES ASSUME Base, ReportInv, [Next]_vars PROVE ReportInv'
    OBVIOUS
  <1>0. PerRequest /\ sales \in [Payments -> Sale] /\ links \subseteq Links
    BY DEF Base, ReportInv, ReportTypeOK
  <1>1. CASE ReportStep
    <2> PICK q \in Requests : \/ GetSalesSummary(q) \/ QueryFigure(q) \/ QueryFails(q)
                              \/ UpdatePaymentStatus(q) \/ LinkIsDeleted(q)
      BY <1>1 DEF ReportStep, ReportNext
    <2>1. CASE QueryFails(q)
      <3>1. Put(q, "idle", NoMemory) /\ UNCHANGED reportVars
        BY <1>0, <2>1, AnswerPuts DEF QueryFails
      <3>2. \A n, from, to : Answers(n, from, to)' = Answers(n, from, to)
        BY <3>1, FiguresStay DEF reportVars
      <3>3. \A r \in Requests : Gathered(pc[r], mem[r], r \in moved)'
        BY <3>1, <3>2 DEF ReportInv, Put, Gathered, reportVars
      <3> QED
        BY <3>1, <3>3 DEF ReportInv, ReportTypeOK, SummaryAddsUp, reportVars
    <2>2. CASE UpdatePaymentStatus(q)
      <3>1. UNCHANGED <<pc, mem, links, summary>> /\ moved' = moved \cup Reading
        BY <2>2 DEF UpdatePaymentStatus, Serve
      <3>2. PICK p \in Payments, st \in {"pending", "completed", "failed"} :
                sales' = [sales EXCEPT ![p].status = st]
        BY <2>2 DEF UpdatePaymentStatus
      <3>3. [sales[p] EXCEPT !.status = st] \in Sale
        BY <1>0 DEF Sale
      <3>4. sales' \in [Payments -> Sale]
        BY <1>0, <3>2, <3>3
      <3> QED
        BY <1>0, <3>1, <3>4, ReportStays
    <2>3. CASE LinkIsDeleted(q)
      <3>1. UNCHANGED <<pc, mem, sales, summary>> /\ moved' = moved \cup Reading /\ links' \subseteq Links
        BY <1>0, <2>3 DEF LinkIsDeleted, Serve
      <3> QED
        BY <1>0, <3>1, ReportStays
    <2> QED
      BY <1>0, <2>1, <2>2, <2>3, GetSalesSummaryInv, QueryFigureInv
  <1>2. CASE ~ReportStep
    <2>1. UNCHANGED reportVars /\ Apart(ReportSteps)
      BY <1>2, ReportApart
    <2>2. \A q \in Requests : pc[q] = "salesSummary" \/ pc'[q] = "salesSummary"
                                 => pc'[q] = pc[q] /\ mem'[q] = mem[q]
      BY <2>1 DEF Apart, ReportSteps
    <2> QED
      BY <1>0, <2>1, <2>2, ReportStays DEF reportVars
  <1> QED
    BY <1>1, <1>2

LEMMA ReportInvariant == Spec => []ReportInv
  BY BaseInit, BaseStep, ReportInitInv, ReportNextInv, PTL DEF Spec

------------------------------------------------------------------------------
\* Everyone requests are made for, and the rows of a history as functions that are added up.
Anyone == Owners \cup {None}
Table == [Origins -> [Anyone -> [Spans -> Nat]]]
Cells(h, o) == [x \in Anyone \X Spans |-> h[o][x[1]][x[2]]]
RowsOf(h, o, owners, span) == Sum(Cells(h, o), owners \X (0 .. span))
TotalOf(h, owners, span) == Sum([o \in Origins |-> RowsOf(h, o, owners, span)], Origins)

RowRecursion(h, o, g, S) ==
    g = [s \in SUBSET S |-> IF s = {} THEN 0
                            ELSE h[o][Chosen(s)[1]][Chosen(s)[2]] + g[s \ {Chosen(s)}]]

LEMMA RowRecursionIs ==
    ASSUME NEW h, NEW o, NEW owners \in SUBSET Anyone, NEW span \in Spans
    PROVE  (CHOOSE g : RowRecursion(h, o, g, owners \X (0 .. span)))[owners \X (0 .. span)] = RowsOf(h, o, owners, span)
  <1> DEFINE S == owners \X (0 .. span)
  <1>1. S \subseteq Anyone \X Spans
    BY DEF Spans
  <1>2. \A s \in SUBSET S : s # {} => Chosen(s) \in Anyone \X Spans
    BY <1>1 DEF Chosen
  <1>3. \A g : RowRecursion(h, o, g, S) <=> Recursion(g, Cells(h, o), S)
    BY <1>2 DEF RowRecursion, Recursion, Cells
  <1>4. (CHOOSE g : RowRecursion(h, o, g, S)) = (CHOOSE g : Recursion(g, Cells(h, o), S))
    BY <1>3, Zenon
  <1> QED
    BY <1>4, SumIs DEF RowsOf

LEMMA RowsAre ==
    ASSUME NEW o, NEW owners \in SUBSET Anyone, NEW span \in Spans
    PROVE  /\ Rows(o, owners, span) = RowsOf(history, o, owners, span)
           /\ Rows(o, owners, span)' = RowsOf(history', o, owners, span)
  <1>1. Rows(o, owners, span)
        = (CHOOSE g : RowRecursion(history, o, g, owners \X (0 .. span)))[owners \X (0 .. span)]
    BY DEF Rows, MapThenSumSet, MapThenFoldSet, Chosen, RowRecursion
  <1>2. Rows(o, owners, span)'
        = (CHOOSE g : RowRecursion(history', o, g, owners \X (0 .. span)))[owners \X (0 .. span)]
    BY DEF Rows, MapThenSumSet, MapThenFoldSet, Chosen, RowRecursion
  <1> QED
    BY <1>1, <1>2, RowRecursionIs

\* The rows of all addresses.
RowsOfAll(owners, span) == MapThenSumSet(LAMBDA o : Rows(o, owners, span), Origins)

AllRecursion(owners, span, g, S) ==
    g = [s \in SUBSET S |-> IF s = {} THEN 0
                            ELSE Rows(Chosen(s), owners, span) + g[s \ {Chosen(s)}]]

LEMMA RowsOfAllAre ==
    ASSUME NEW owners \in SUBSET Anyone, NEW span \in Spans
    PROVE  RowsOfAll(owners, span) = TotalOf(history, owners, span)
  <1> PICK w : w = [o \in Origins |-> RowsOf(history, o, owners, span)]
    OBVIOUS
  <1>1. RowsOfAll(owners, span) = (CHOOSE g : AllRecursion(owners, span, g, Origins))[Origins]
    BY DEF RowsOfAll, MapThenSumSet, MapThenFoldSet, Chosen, AllRecursion
  <1>2. \A s \in SUBSET Origins : s # {} => Rows(Chosen(s), owners, span) = w[Chosen(s)]
    BY RowsAre DEF Chosen
  <1>3. \A g : AllRecursion(owners, span, g, Origins) <=> Recursion(g, w, Origins)
    BY <1>2 DEF AllRecursion, Recursion
  <1>4. (CHOOSE g : AllRecursion(owners, span, g, Origins)) = (CHOOSE g : Recursion(g, w, Origins))
    BY <1>3, Zenon
  <1> QED
    BY <1>1, <1>4, SumIs DEF TotalOf

LEMMA CellsFinite ==
    ASSUME NEW owners \in SUBSET Anyone, NEW span \in Spans
    PROVE  /\ IsFiniteSet(owners \X (0 .. span))
           /\ owners \X (0 .. span) \subseteq Anyone \X Spans
  <1>1. IsFiniteSet(Anyone)
    BY UsageAssumption, FS_Singleton, FS_Union DEF Anyone
  <1>2. IsFiniteSet(owners) /\ IsFiniteSet(0 .. span)
    BY <1>1, FS_Subset, FS_Interval DEF Spans
  <1> QED
    BY <1>2, FS_Product DEF Spans

LEMMA RowsType ==
    ASSUME NEW h \in Table, NEW o \in Origins, NEW owners \in SUBSET Anyone, NEW span \in Spans
    PROVE  RowsOf(h, o, owners, span) \in Nat
  <1>1. \A x \in Anyone \X Spans : Cells(h, o)[x] \in Nat
    BY DEF Cells, Table
  <1>2. \A x \in owners \X (0 .. span) : Cells(h, o)[x] \in Nat
    BY <1>1, CellsFinite
  <1> QED
    BY <1>2, CellsFinite, SumType DEF RowsOf

------------------------------------------------------------------------------
\* More owners, a longer time or more rows: no fewer are counted.
LEMMA RowsOfPart ==
    ASSUME NEW h \in Table, NEW o \in Origins, NEW owners \in SUBSET Anyone,
           NEW more \in Spans, NEW span \in 0 .. more
    PROVE  RowsOf(h, o, owners, span) <= RowsOf(h, o, Anyone, more)
  <1>1. /\ IsFiniteSet(Anyone \X (0 .. more)) /\ Anyone \X (0 .. more) \subseteq Anyone \X Spans
        /\ owners \X (0 .. span) \subseteq Anyone \X (0 .. more)
    <2>1. IsFiniteSet(Anyone \X (0 .. more)) /\ Anyone \X (0 .. more) \subseteq Anyone \X Spans
      BY CellsFinite, Anyone \in SUBSET Anyone
    <2>2. 0 .. span \subseteq 0 .. more
      BY DEF Spans
    <2> QED
      BY <2>1, <2>2
  <1>2. \A x \in Anyone \X (0 .. more) : Cells(h, o)[x] \in Nat
    BY <1>1 DEF Cells, Table
  <1> QED
    BY <1>1, <1>2, SumOfPart DEF RowsOf

LEMMA RowsOfOne ==
    ASSUME NEW h \in Table, NEW o \in Origins, NEW w \in Anyone
    PROVE  h[o][w][0] <= RowsOf(h, o, Anyone, 3)
  <1>1. IsFiniteSet(Anyone \X (0 .. 3)) /\ Anyone \X (0 .. 3) \subseteq Anyone \X Spans
    <2>1. 3 \in Spans /\ Anyone \in SUBSET Anyone
      BY DEF Spans
    <2> QED
      BY <2>1, CellsFinite
  <1>2. \A x \in Anyone \X (0 .. 3) : Cells(h, o)[x] \in Nat
    BY <1>1 DEF Cells, Table
  <1>3. Cells(h, o)[<<w, 0>>] <= Sum(Cells(h, o), Anyone \X (0 .. 3))
    BY <1>1, <1>2, SumOfOne
  <1>4. Cells(h, o)[<<w, 0>>] = h[o][w][0]
    BY DEF Cells, Spans
  <1> QED
    BY <1>3, <1>4 DEF RowsOf

Grown(h, more) == \A o \in Origins, w \in Anyone, a \in Spans : h[o][w][a] <= more[o][w][a]

LEMMA RowsGrow ==
    ASSUME NEW h \in Table, NEW more \in Table, Grown(h, more),
           NEW o \in Origins, NEW span \in Spans
    PROVE  RowsOf(h, o, Anyone, span) <= RowsOf(more, o, Anyone, span)
  <1>1. IsFiniteSet(Anyone \X (0 .. span)) /\ Anyone \X (0 .. span) \subseteq Anyone \X Spans
    BY CellsFinite
  <1>2. ASSUME NEW x \in Anyone \X (0 .. span)
        PROVE  /\ Cells(h, o)[x] \in Nat /\ Cells(more, o)[x] \in Nat
               /\ Cells(h, o)[x] <= Cells(more, o)[x]
    <2>1. x[1] \in Anyone /\ x[2] \in Spans /\ x \in Anyone \X Spans
      BY <1>1
    <2>2. Cells(h, o)[x] = h[o][x[1]][x[2]] /\ Cells(more, o)[x] = more[o][x[1]][x[2]]
      BY <2>1 DEF Cells
    <2>3. h[o][x[1]][x[2]] \in Nat /\ more[o][x[1]][x[2]] \in Nat
      BY <2>1 DEF Table
    <2>4. h[o][x[1]][x[2]] <= more[o][x[1]][x[2]]
      BY <2>1 DEF Grown
    <2> QED
      BY <2>2, <2>3, <2>4
  <1> QED
    BY <1>1, <1>2, SumAtMost DEF RowsOf

LEMMA TotalType ==
    ASSUME NEW h \in Table, NEW owners \in SUBSET Anyone, NEW span \in Spans
    PROVE  TotalOf(h, owners, span) \in Nat
  BY RowsType, UsageAssumption, SumType DEF TotalOf

LEMMA TotalOfPart ==
    ASSUME NEW h \in Table, NEW owners \in SUBSET Anyone, NEW span \in Spans
    PROVE  TotalOf(h, owners, span) <= TotalOf(h, Anyone, span)
  <1> PICK v, w : /\ v = [o \in Origins |-> RowsOf(h, o, owners, span)]
                  /\ w = [o \in Origins |-> RowsOf(h, o, Anyone, span)]
    OBVIOUS
  <1>1. \A o \in Origins : v[o] \in Nat /\ w[o] \in Nat /\ v[o] <= w[o]
    BY RowsType, RowsOfPart DEF Spans
  <1> QED
    BY <1>1, UsageAssumption, SumAtMost DEF TotalOf

LEMMA TotalGrows ==
    ASSUME NEW h \in Table, NEW more \in Table, Grown(h, more), NEW span \in Spans
    PROVE  TotalOf(h, Anyone, span) <= TotalOf(more, Anyone, span)
  <1> PICK v, w : /\ v = [o \in Origins |-> RowsOf(h, o, Anyone, span)]
                  /\ w = [o \in Origins |-> RowsOf(more, o, Anyone, span)]
    OBVIOUS
  <1>1. \A o \in Origins : v[o] \in Nat /\ w[o] \in Nat /\ v[o] <= w[o]
    BY RowsType, RowsGrow
  <1> QED
    BY <1>1, UsageAssumption, SumAtMost DEF TotalOf

------------------------------------------------------------------------------
\* The addresses with rows.
Refused(h) == {o \in Origins : RowsOf(h, o, Anyone, 3) > 0}

UsageHeld(step, m) ==
    /\ step = "saveHistory" => m \in [origin: Origins, owner: Anyone]
    /\ step = "countHistory" => m \in [owners: SUBSET Anyone, span: 0 .. 2]
    /\ step = "topIPs" =>
          /\ m \in [owners: SUBSET Anyone, span: 0 .. 2, total: Nat]
          /\ m.total <= TotalOf(history, Anyone, m.span)

\* The last report and the last status, by the rows there are.
ReportHolds ==
    /\ metrics # None => /\ DOMAIN metrics.top \subseteq Origins
                         /\ \A o \in Origins : o \in DOMAIN metrics.top => 
                               /\ metrics.top[o] \in Nat
                               /\ metrics.top[o] <= RowsOf(history, o, Anyone, 3)
    /\ metrics # None /\ metrics.complete => metrics.total <= Sum(metrics.top, DOMAIN metrics.top)

UsageInv ==
    /\ history \in Table
    /\ remembered \subseteq Refused(history)
    /\ \A q \in Requests : UsageHeld(pc[q], mem[q])
    /\ ReportHolds
    /\ status # None => /\ status.recentEvents \in Nat
                        /\ status.recentEvents <= Cardinality(Refused(history))

LEMMA RefusalsHold == UsageInv => RefusalsAddUp
  <1> SUFFICES ASSUME UsageInv PROVE RefusalsAddUp
    OBVIOUS
  <1>1. \A o : Rows(o, Anyone, 3) = RowsOf(history, o, Anyone, 3)
    BY RowsAre DEF Spans
  <1>2. {o \in Origins : Rows(o, Anyone, 3) > 0} = Refused(history)
    BY <1>1 DEF Refused
  <1>3. metrics # None /\ metrics.complete =>
            metrics.total <= MapThenSumSet(LAMBDA o : metrics.top[o], DOMAIN metrics.top)
    BY DEF UsageInv, ReportHolds, Sum
  <1>4. metrics # None => \A o \in DOMAIN metrics.top : metrics.top[o] <= Rows(o, Anyone, 3)
    BY <1>1 DEF UsageInv, ReportHolds
  <1> QED
    BY <1>2, <1>3, <1>4 DEF RefusalsAddUp, UsageInv, Anyone

LEMMA UsageInitInv == Init => UsageInv
  <1> SUFFICES ASSUME Init PROVE UsageInv
    OBVIOUS
  <1>1. \A q \in Requests : UsageHeld(pc[q], mem[q])
    BY InitPerRequest DEF Init, UsageHeld
  <1>2. history \in Table /\ remembered = {} /\ metrics = None /\ status = None
    <2>1. CASE UsageInit
      BY <2>1, UsageAssumption DEF UsageInit, Table, Anyone
    <2>2. CASE UsageIdle
      BY <2>2 DEF UsageIdle, Table, Anyone
    <2> QED
      BY <2>1, <2>2 DEF Init
  <1> QED
    BY <1>1, <1>2 DEF UsageInv, ReportHolds

------------------------------------------------------------------------------
LEMMA HeldGrows ==
    ASSUME history \in Table, history' \in Table, Grown(history, history'), NEW step, NEW m, UsageHeld(step, m)
    PROVE  UsageHeld(step, m)'
  <1>1. CASE step = "topIPs"
    <2> PICK span, total : span = m.span /\ total = m.total
      OBVIOUS
    <2>1. m \in [owners: SUBSET Anyone, span: 0 .. 2, total: Nat] /\ span \in Spans /\ total \in Nat
          /\ total <= TotalOf(history, Anyone, span)
      BY <1>1 DEF UsageHeld, Spans
    <2>2. Anyone \in SUBSET Anyone
      OBVIOUS
    <2>3. TotalOf(history, Anyone, span) \in Nat /\ TotalOf(history', Anyone, span) \in Nat
          /\ TotalOf(history, Anyone, span) <= TotalOf(history', Anyone, span)
      BY <2>1, <2>2, TotalType, TotalGrows
    <2>4. total <= TotalOf(history', Anyone, span)
      BY <2>1, <2>3
    <2> QED
      BY <1>1, <2>1, <2>4 DEF UsageHeld
  <1>2. CASE step # "topIPs"
    BY <1>2 DEF UsageHeld
  <1> QED
    BY <1>1, <1>2

LEMMA RefusedFinite ==
    ASSUME NEW S \in SUBSET Origins
    PROVE  IsFiniteSet(S) /\ Cardinality(S) \in Nat
  BY UsageAssumption, FS_Subset, FS_CardinalityType

LEMMA RefusedGrow ==
    ASSUME NEW h \in Table, NEW more \in Table, Grown(h, more)
    PROVE  /\ Refused(h) \subseteq Refused(more)
           /\ Cardinality(Refused(h)) <= Cardinality(Refused(more))
           /\ Cardinality(Refused(h)) \in Nat /\ Cardinality(Refused(more)) \in Nat
  <1>1. Anyone \in SUBSET Anyone /\ 3 \in Spans
    BY DEF Spans
  <1>2. \A o \in Origins : /\ RowsOf(h, o, Anyone, 3) \in Nat /\ RowsOf(more, o, Anyone, 3) \in Nat
                           /\ RowsOf(h, o, Anyone, 3) <= RowsOf(more, o, Anyone, 3)
    BY <1>1, RowsType, RowsGrow
  <1>3. Refused(h) \subseteq Refused(more)
    BY <1>2 DEF Refused
  <1>4. Refused(h) \in SUBSET Origins /\ Refused(more) \in SUBSET Origins
    BY DEF Refused
  <1> QED
    BY <1>3, <1>4, RefusedFinite, FS_Subset

LEMMA ReportGrows ==
    ASSUME history \in Table, history' \in Table, Grown(history, history'), ReportHolds, UNCHANGED metrics
    PROVE  ReportHolds'
  <1>1. Anyone \in SUBSET Anyone /\ 3 \in Spans
    BY DEF Spans
  <1>2. \A o \in Origins : /\ RowsOf(history, o, Anyone, 3) \in Nat /\ RowsOf(history', o, Anyone, 3) \in Nat
                           /\ RowsOf(history, o, Anyone, 3) <= RowsOf(history', o, Anyone, 3)
    BY <1>1, RowsType, RowsGrow
  <1>3. ASSUME metrics # None, NEW o \in Origins, o \in DOMAIN metrics.top
        PROVE  metrics.top[o] \in Nat /\ metrics.top[o] <= RowsOf(history', o, Anyone, 3)
    <2>1. metrics.top[o] \in Nat /\ metrics.top[o] <= RowsOf(history, o, Anyone, 3)
      BY <1>3 DEF ReportHolds
    <2> QED
      BY <1>2, <2>1
  <1> QED
    BY <1>3 DEF ReportHolds

\* Rows are added, and the last answers stay.
LEMMA UsageGrows ==
    ASSUME UsageInv, history' \in Table, Grown(history, history'), remembered' \subseteq Refused(history'),
           UNCHANGED <<metrics, status>>, \A q \in Requests : UsageHeld(pc[q], mem[q])'
    PROVE  UsageInv'
  <1>1. ReportHolds'
    BY ReportGrows DEF UsageInv
  <1>2. status' # None => status'.recentEvents \in Nat /\ status'.recentEvents <= Cardinality(Refused(history'))
    <2> PICK n : n = status.recentEvents
      OBVIOUS
    <2> SUFFICES ASSUME status # None PROVE n \in Nat /\ n <= Cardinality(Refused(history'))
      OBVIOUS
    <2>1. n \in Nat /\ n <= Cardinality(Refused(history))
      BY DEF UsageInv
    <2> QED
      BY <2>1, RefusedGrow DEF UsageInv
  <1> QED
    BY <1>1, <1>2 DEF UsageInv

LEMMA Reflexive == ASSUME NEW h \in Table PROVE Grown(h, h)
  BY DEF Grown, Table

LEMMA SaveHistoryInv ==
    ASSUME PerRequest, UsageInv, NEW q \in Requests, SaveHistory(q)
    PROVE  UsageInv'
  <1> PICK o, w : o = mem[q].origin /\ w = mem[q].owner
    OBVIOUS
  <1>1. o \in Origins /\ w \in Anyone /\ history \in Table
    BY DEF SaveHistory, At, UsageInv, UsageHeld
  <1>2. history' = [history EXCEPT ![o][w][0] = @ + 1]
    BY DEF SaveHistory
  <1>3. 0 \in Spans
    BY DEF Spans
  <1>4. [history[o][w] EXCEPT ![0] = @ + 1] \in [Spans -> Nat]
    BY <1>1, <1>3 DEF Table
  <1> PICK ages, owned : /\ ages = [history[o][w] EXCEPT ![0] = @ + 1]
                         /\ owned = [history[o] EXCEPT ![w] = ages]
    OBVIOUS
  <1>5. owned \in [Anyone -> [Spans -> Nat]]
    <2>1. history[o] \in [Anyone -> [Spans -> Nat]] /\ ages \in [Spans -> Nat]
      BY <1>1, <1>4 DEF Table
    <2> QED
      BY <1>1, <2>1
  <1>6. history' \in Table
    <2>1. history' = [history EXCEPT ![o] = owned]
      BY <1>2
    <2> QED
      BY <1>1, <1>5, <2>1 DEF Table
  <1>7. Grown(history, history')
    BY <1>1, <1>2, <1>3 DEF Grown, Table
  <1>8. history'[o][w][0] = history[o][w][0] + 1 /\ history[o][w][0] \in Nat
    BY <1>1, <1>2, <1>3 DEF Table
  <1>9. o \in Refused(history')
    <2>1. history'[o][w][0] <= RowsOf(history', o, Anyone, 3)
      BY <1>1, <1>6, RowsOfOne
    <2>2. RowsOf(history', o, Anyone, 3) \in Nat
      <3>1. Anyone \in SUBSET Anyone /\ 3 \in Spans
        BY DEF Spans
      <3> QED
        BY <1>1, <1>6, <3>1, RowsType
    <2> QED
      BY <1>1, <1>8, <2>1, <2>2 DEF Refused
  <1>10. remembered' \subseteq Refused(history')
    <2>1. Refused(history) \subseteq Refused(history')
      BY <1>1, <1>6, <1>7, RefusedGrow
    <2>2. remembered' = remembered \cup {o} /\ remembered \subseteq Refused(history)
      BY DEF SaveHistory, UsageInv
    <2> QED
      BY <1>9, <2>1, <2>2
  <1>11. \A r \in Requests : UsageHeld(pc[r], mem[r])'
    <2>1. Put(q, "idle", NoMemory)
      BY AnswerPuts DEF SaveHistory
    <2>2. ASSUME NEW r \in Requests PROVE UsageHeld(pc[r], mem[r])'
      <3>1. CASE r = q
        BY <2>1, <3>1 DEF Put, UsageHeld
      <3>2. CASE r # q
        <4> PICK s, m : s = pc[r] /\ m = mem[r]
          OBVIOUS
        <4>1. UsageHeld(s, m)
          BY DEF UsageInv
        <4>2. UsageHeld(s, m)'
          BY <1>1, <1>6, <1>7, <4>1, HeldGrows
        <4> QED
          BY <2>1, <3>2, <4>2 DEF Put
      <3> QED
        BY <3>1, <3>2
    <2> QED
      BY <2>2
  <1>12. UNCHANGED <<metrics, status>>
    BY DEF SaveHistory
  <1> QED
    BY <1>6, <1>7, <1>10, <1>11, <1>12, UsageGrows

\* Request q moves, and the rows stay.
LEMMA UsageHeldAfter ==
    ASSUME UsageInv, NEW q \in Requests, NEW step, NEW m, Put(q, step, m), UNCHANGED history, UsageHeld(step, m)
    PROVE  \A r \in Requests : UsageHeld(pc[r], mem[r])'
  BY DEF UsageInv, UsageHeld, Put

LEMMA UsageMoves ==
    ASSUME UsageInv, NEW q \in Requests, NEW step, NEW m, Put(q, step, m), UNCHANGED usageVars,
           UsageHeld(step, m)
    PROVE  UsageInv'
  BY UsageHeldAfter DEF UsageInv, ReportHolds, usageVars

------------------------------------------------------------------------------
\* The list of a report, when it is complete, has all that was refused.
LEMMA CompleteAddsUp ==
    ASSUME history \in Table, NEW span \in Spans, NEW S \in SUBSET Origins,
           \A o \in Origins \ S : ~(RowsOf(history, o, Anyone, span) > 0), NEW top,
           top = [o \in S |-> RowsOf(history, o, Anyone, span)]
    PROVE  Sum(top, DOMAIN top) = TotalOf(history, Anyone, span)
  <1> PICK w : w = [o \in Origins |-> RowsOf(history, o, Anyone, span)]
    OBVIOUS
  <1>1. \A o \in Origins : w[o] \in Nat
    BY RowsType, Anyone \in SUBSET Anyone
  <1>2. \A o \in Origins \ S : w[o] = 0
    BY <1>1
  <1>3. Sum(w, S) = Sum(w, Origins)
    BY <1>1, <1>2, UsageAssumption, SumOfPart
  <1>4. DOMAIN top = S /\ IsFiniteSet(S)
    BY RefusedFinite
  <1>5. Sum(top, S) = Sum(w, S)
    BY <1>4, SumSame
  <1> QED
    BY <1>3, <1>4, <1>5 DEF TotalOf

LEMMA SendInv ==
    ASSUME PerRequest, UsageInv, NEW q \in Requests, At(q, "topIPs"), NEW top, NEW complete,
           Send(q, top, complete), DOMAIN top \subseteq Origins,
           \A o \in DOMAIN top : top[o] = RowsOf(history, o, Anyone, mem[q].span),
           complete => \A o \in Origins \ DOMAIN top : ~(RowsOf(history, o, Anyone, mem[q].span) > 0),
           complete \in BOOLEAN, top = [o \in DOMAIN top |-> top[o]]
    PROVE  UsageInv'
  <1> PICK span, total : span = mem[q].span /\ total = mem[q].total
    OBVIOUS
  <1>1. /\ history \in Table /\ span \in 0 .. 2 /\ span \in Spans /\ total \in Nat
        /\ total <= TotalOf(history, Anyone, span)
    BY DEF At, UsageInv, UsageHeld, Spans
  <1>2. /\ metrics' = [of |-> mem[q].owners, total |-> total, top |-> top, complete |-> complete]
        /\ UNCHANGED <<history, remembered, status>>
    BY DEF Send
  <1>3. \A r \in Requests : UsageHeld(pc[r], mem[r])'
    <2>1. Put(q, "idle", NoMemory)
      BY AnswerPuts DEF Send
    <2>2. UsageHeld("idle", NoMemory)
      BY DEF UsageHeld
    <2> QED
      BY <1>2, <2>1, <2>2, UsageHeldAfter
  <1>4. ASSUME NEW o \in Origins, o \in DOMAIN top
        PROVE  top[o] \in Nat /\ top[o] <= RowsOf(history, o, Anyone, 3)
    <2>1. 3 \in Spans /\ span \in 0 .. 3 /\ Anyone \in SUBSET Anyone
      BY <1>1 DEF Spans
    <2>2. RowsOf(history, o, Anyone, span) \in Nat
      BY <1>1, <2>1, RowsType
    <2>3. RowsOf(history, o, Anyone, span) <= RowsOf(history, o, Anyone, 3)
      BY <1>1, <2>1, RowsOfPart
    <2> QED
      BY <1>4, <2>2, <2>3
  <1>5. ASSUME complete PROVE total <= Sum(top, DOMAIN top)
    <2> PICK S : S = DOMAIN top
      OBVIOUS
    <2>1. top = [o \in S |-> RowsOf(history, o, Anyone, span)] /\ S \in SUBSET Origins
      OBVIOUS
    <2>2. \A o \in Origins \ S : ~(RowsOf(history, o, Anyone, span) > 0)
      BY <1>5
    <2>3. Sum(top, DOMAIN top) = TotalOf(history, Anyone, span)
      BY <1>1, <2>1, <2>2, CompleteAddsUp
    <2> QED
      BY <1>1, <2>3
  <1>6. ReportHolds'
    <2>1. metrics'.top = top /\ metrics'.total = total /\ metrics'.complete = complete /\ history' = history
      BY <1>2
    <2>2. \A o \in Origins : o \in DOMAIN top => top[o] \in Nat /\ top[o] <= RowsOf(history, o, Anyone, 3)
      BY <1>4
    <2> QED
      BY <1>5, <2>1, <2>2 DEF ReportHolds
  <1> QED
    BY <1>2, <1>3, <1>6 DEF UsageInv

LEMMA GetTopThrottledIPsInv ==
    ASSUME PerRequest, UsageInv, NEW q \in Requests, GetTopThrottledIPs(q)
    PROVE  UsageInv'
  <1> DEFINE Count(o) == Rows(o, Anyone, mem[q].span)
             All == {o \in Origins : Count(o) > 0}
  <1>1. /\ At(q, "topIPs") /\ mem[q].span \in Spans /\ Anyone \in SUBSET Anyone
    BY DEF GetTopThrottledIPs, At, UsageInv, UsageHeld, Spans
  <1>2. PICK L \in SUBSET All :
          /\ Cardinality(L) = IF Cardinality(All) < TopListed THEN Cardinality(All) ELSE TopListed
          /\ Send(q, [o \in L |-> Count(o)], Cardinality(All) <= TopListed)
    BY DEF GetTopThrottledIPs, Anyone
  <1>3. \A o : Count(o) = RowsOf(history, o, Anyone, mem[q].span)
    BY <1>1, RowsAre
  <1>4. IsFiniteSet(All) /\ Cardinality(All) \in Nat
    BY RefusedFinite
  <1> PICK top, complete : top = [o \in L |-> Count(o)] /\ complete = (Cardinality(All) <= TopListed)
    OBVIOUS
  <1>5. complete \in BOOLEAN /\ Send(q, top, complete) /\ DOMAIN top = L /\ L \subseteq Origins
        /\ top = [o \in DOMAIN top |-> top[o]]
    BY <1>2
  <1>6. \A o \in DOMAIN top : top[o] = RowsOf(history, o, Anyone, mem[q].span)
    BY <1>3, <1>5
  <1>7. complete => L = All
    <2> HIDE DEF All
    <2> PICK n, k : n = Cardinality(All) /\ k = Cardinality(L)
      OBVIOUS
    <2>0. n \in Nat /\ TopListed \in Nat /\ k = (IF n < TopListed THEN n ELSE TopListed) /\ complete = (n <= TopListed)
      <3>1. k = (IF n < TopListed THEN n ELSE TopListed)
        BY <1>2
      <3> QED
        BY <1>4, <3>1, UsageAssumption
    <2>1. ASSUME complete PROVE Cardinality(L) = Cardinality(All)
      <3>1. n <= TopListed
        BY <2>0, <2>1, Zenon
      <3> QED
        BY <2>0, <3>1
    <2> QED
      BY <1>4, <2>1, WholeByCount
  <1>8. complete => \A o \in Origins \ DOMAIN top : ~(RowsOf(history, o, Anyone, mem[q].span) > 0)
    BY <1>3, <1>5, <1>7
  <1> HIDE DEF All, Count
  <1> QED
    BY <1>1, <1>5, <1>6, <1>8, SendInv

LEMMA CountHistoryInv ==
    ASSUME PerRequest, UsageInv, NEW q \in Requests, CountHistory(q)
    PROVE  UsageInv'
  <1> PICK owners, span : owners = mem[q].owners /\ span = mem[q].span
    OBVIOUS
  <1>1. owners \in SUBSET Anyone /\ span \in 0 .. 2 /\ span \in Spans /\ history \in Table
    BY DEF CountHistory, At, UsageInv, UsageHeld, Spans
  <1> PICK total : total = RowsOfAll(owners, span)
    OBVIOUS
  <1>2. Goto(q, "topIPs", [owners |-> owners, span |-> span, total |-> total]) /\ UNCHANGED usageVars
    BY DEF CountHistory, RowsOfAll
  <1>3. total = TotalOf(history, owners, span)
    BY <1>1, RowsOfAllAre
  <1>4. total \in Nat /\ total <= TotalOf(history, Anyone, span)
    BY <1>1, <1>3, TotalType, TotalOfPart
  <1>5. UsageHeld("topIPs", [owners |-> owners, span |-> span, total |-> total])
    BY <1>1, <1>4 DEF UsageHeld
  <1> QED
    BY <1>2, <1>5, GotoPuts, UsageMoves

LEMMA StatusInv ==
    ASSUME PerRequest, UsageInv, NEW q \in Requests, Answer(q), UNCHANGED <<history, remembered, metrics>>,
           NEW active, NEW n \in Nat, n <= Cardinality(Refused(history)),
           status' = [active |-> active, recentEvents |-> n]
    PROVE  UsageInv'
  <1>1. \A r \in Requests : UsageHeld(pc[r], mem[r])'
    <2>1. UsageHeld("idle", NoMemory)
      BY DEF UsageHeld
    <2> QED
      BY <2>1, AnswerPuts, UsageHeldAfter
  <1>2. ReportHolds'
    BY DEF UsageInv, ReportHolds
  <1> QED
    BY <1>1, <1>2 DEF UsageInv

LEMMA UsageNextInv == Base /\ UsageInv /\ [Next]_vars => UsageInv'
  <1> SUFFICES ASSUME Base, UsageInv, [Next]_vars PROVE UsageInv'
    OBVIOUS
  <1>0. PerRequest /\ history \in Table
    BY DEF Base, UsageInv
  <1>1. ASSUME UNCHANGED usageVars,
               \A q \in Requests : (pc'[q] = pc[q] /\ mem'[q] = mem[q]) \/ pc'[q] \notin UsageSteps
        PROVE  UsageInv'
    BY <1>1 DEF UsageInv, UsageHeld, ReportHolds, usageVars, UsageSteps
  <1>2. CASE ~UsageStep
    BY <1>1, <1>2, UsageApart DEF Apart
  <1>3. CASE UsageStep
    <2>1. ASSUME NEW q \in Requests, LogRefusal(q) PROVE UsageInv'
      <3>1. PICK o \in Origins, w \in Anyone : Receive(q, "usage", "saveHistory", [origin |-> o, owner |-> w])
        BY <2>1 DEF LogRefusal, Anyone
      <3>2. UsageHeld("saveHistory", [origin |-> o, owner |-> w])
        BY DEF UsageHeld
      <3> QED
        BY <1>0, <2>1, <3>1, <3>2, ReceivePuts, UsageMoves DEF LogRefusal
    <2>2. ASSUME NEW q \in Requests, GetMetrics(q) \/ GetMerchantMetrics(q) PROVE UsageInv'
      <3>1. PICK owners \in SUBSET Anyone, span \in 0 .. 2 :
                Receive(q, "usage", "countHistory", [owners |-> owners, span |-> span])
        BY <2>2 DEF GetMetrics, GetMerchantMetrics, Anyone
      <3>2. UsageHeld("countHistory", [owners |-> owners, span |-> span])
        BY DEF UsageHeld
      <3> QED
        BY <1>0, <2>2, <3>1, <3>2, ReceivePuts, UsageMoves DEF GetMetrics, GetMerchantMetrics
    <2>3. ASSUME NEW q \in Requests, TopThrottledFails(q) PROVE UsageInv'
      <3> PICK top : top = [o \in {} |-> 0]
        OBVIOUS
      <3>1. Send(q, top, FALSE) /\ At(q, "topIPs")
        BY <2>3 DEF TopThrottledFails
      <3>2. DOMAIN top = {} /\ top = [o \in DOMAIN top |-> top[o]]
        OBVIOUS
      <3> QED
        BY <1>0, <3>1, <3>2, SendInv
    <2>4. ASSUME NEW q \in Requests, GetRealTimeStatus(q) PROVE UsageInv'
      <3> PICK m : Receive(q, "usage", "burstKeys", m)
        BY <2>4 DEF GetRealTimeStatus
      <3>1. UsageHeld("burstKeys", m)
        BY DEF UsageHeld
      <3> QED
        BY <1>0, <2>4, <3>1, ReceivePuts, UsageMoves DEF GetRealTimeStatus
    <2>5. ASSUME NEW q \in Requests, BurstKeys(q) PROVE UsageInv'
      <3> PICK n, active : n = Cardinality(remembered) /\ active = mem[q].active
        OBVIOUS
      <3>1. remembered \subseteq Refused(history) /\ Refused(history) \in SUBSET Origins
        BY DEF UsageInv, Refused
      <3>2. n \in Nat /\ n <= Cardinality(Refused(history))
        BY <3>1, RefusedFinite, FS_Subset
      <3> QED
        BY <1>0, <2>5, <3>2, StatusInv DEF BurstKeys
    <2>6. ASSUME NEW q \in Requests, StatusFails(q) PROVE UsageInv'
      <3>1. Cardinality(Refused(history)) \in Nat
        BY RefusedFinite DEF Refused
      <3>2. 0 \in Nat /\ 0 <= Cardinality(Refused(history))
        BY <3>1
      <3> QED
        BY <1>0, <2>6, <3>2, StatusInv DEF StatusFails
    <2>7. CASE ServerRestarts
      <3>1. Grown(history, history')
        BY <1>0, <2>7, Reflexive DEF ServerRestarts
      <3>2. \A q \in Requests : UsageHeld(pc[q], mem[q])'
        BY <2>7 DEF ServerRestarts, UsageInv, UsageHeld, handlerVars
      <3> QED
        BY <1>0, <2>7, <3>1, <3>2, UsageGrows DEF ServerRestarts
    <2>8. ASSUME NEW q \in Requests, UsageInterrupted(q) PROVE UsageInv'
      <3>1. UsageHeld("idle", NoMemory)
        BY DEF UsageHeld
      <3> QED
        BY <1>0, <2>8, <3>1, AnswerPuts, UsageMoves DEF UsageInterrupted, Interrupted
    <2> QED
      BY <1>0, <1>3, <2>1, <2>2, <2>3, <2>4, <2>5, <2>6, <2>7, <2>8,
         SaveHistoryInv, CountHistoryInv, GetTopThrottledIPsInv DEF UsageStep, UsageNext
  <1> QED
    BY <1>2, <1>3

LEMMA UsageInvariant == Spec => []UsageInv
  BY BaseInit, BaseStep, UsageInitInv, UsageNextInv, PTL DEF Spec

\* The figures of a summary agree unless the sales changed between its queries, and a
\* report of refused requests lists no less than its total, however many payments, links,
\* addresses and merchants there are and whatever the amounts, the requests and the
\* failures (SalesSummary.service.ts lines 65 to 306, rateLimitMonitoring.service.ts
\* lines 177 to 195, 311 to 457 and 492 to 543).
THEOREM FiguresAlwaysAddUp == Spec => []FiguresAddUp
  <1>1. ReportInv /\ UsageInv => FiguresAddUp
    BY RefusalsHold DEF ReportInv, FiguresAddUp
  <1> QED
    BY <1>1, ReportInvariant, UsageInvariant, PTL

------------------------------------------------------------------------------
\* The entries of an export.
Exports(g) ==
    g = [i \in 0 .. Len(Keys) |->
            IF i = 0 THEN <<>>
            ELSE IF configured[Keys[i]] = None THEN g[i - 1]
            ELSE Append(g[i - 1], Exported(Keys[i]))]

LEMMA ExportIs == ExportedEntries = (CHOOSE g : Exports(g))[Len(Keys)]
  BY DEF ExportedEntries, Exports

LEMMA ExportsExist == \E g : Exports(g)
  <1> PICK n, T : n = Len(Keys) /\ T = {Exported(k) : k \in KeySet}
    OBVIOUS
  <1>1. n \in Nat /\ \A i \in 1 .. n : Keys[i] \in KeySet
    BY SettingAssumption DEF KeySet
  <1> PICK next : next = [x \in Nat \X Seq(T) |->
         IF x[1] \in 1 .. n /\ configured[Keys[x[1]]] # None THEN Append(x[2], Exported(Keys[x[1]])) ELSE x[2]]
    OBVIOUS
  <1>2. next \in [Nat \X Seq(T) -> Seq(T)]
    <2>1. ASSUME NEW x \in Nat \X Seq(T) PROVE next[x] \in Seq(T)
      <3>1. x[2] \in Seq(T)
        OBVIOUS
      <3>2. x[1] \in 1 .. n => Exported(Keys[x[1]]) \in T
        BY <1>1
      <3> QED
        BY <3>1, <3>2
    <2> QED
      BY <2>1
  <1>3. PICK f : Steps(f, n, Seq(T), <<>>, next)
    <2>1. <<>> \in Seq(T)
      OBVIOUS
    <2> QED
      BY <1>1, <1>2, <2>1, StepsExist
  <1>4. ASSUME NEW i \in 1 .. n
        PROVE  f[i] = IF configured[Keys[i]] = None THEN f[i - 1] ELSE Append(f[i - 1], Exported(Keys[i]))
    <2>0. i \in Nat /\ i - 1 \in 0 .. n
      BY <1>1
    <2>1. f[i - 1] \in Seq(T) /\ f[i] = next[<<i, f[i - 1]>>] /\ i \in Nat
      BY <1>3, <2>0 DEF Steps
    <2>2. <<i, f[i - 1]>> \in Nat \X Seq(T)
      BY <2>1
    <2> QED
      BY <2>1, <2>2
  <1>5. f = [i \in 0 .. n |-> f[i]] /\ f[0] = <<>>
    BY <1>3 DEF Steps
  <1>6. Exports(f)
    BY <1>1, <1>4, <1>5 DEF Exports
  <1> QED
    BY <1>6

LEMMA ExportedAre ==
    /\ ExportedEntries \in Seq({Exported(k) : k \in {l \in KeySet : configured[l] # None}})
    /\ Len(ExportedEntries) <= Len(Keys)
  <1> PICK n, T : n = Len(Keys) /\ T = {Exported(k) : k \in {l \in KeySet : configured[l] # None}}
    OBVIOUS
  <1>1. n \in Nat /\ \A i \in 1 .. n : Keys[i] \in KeySet
    BY SettingAssumption DEF KeySet
  <1>2. PICK g : g = (CHOOSE h : Exports(h)) /\ Exports(g)
    BY ExportsExist
  <1>3. /\ g[0] = <<>>
        /\ \A i \in 1 .. n : g[i] = IF configured[Keys[i]] = None THEN g[i - 1]
                                   ELSE Append(g[i - 1], Exported(Keys[i]))
    <2>1. \A i \in 0 .. n : g[i] = IF i = 0 THEN <<>>
                                  ELSE IF configured[Keys[i]] = None THEN g[i - 1]
                                  ELSE Append(g[i - 1], Exported(Keys[i]))
      BY <1>2, Zenon DEF Exports
    <2>2. 0 \in 0 .. n /\ \A i \in 1 .. n : i \in 0 .. n /\ i # 0
      BY <1>1
    <2> QED
      BY <2>1, <2>2, Zenon
  <1> DEFINE C == {i \in 0 .. n : g[i] \in Seq(T) /\ Len(g[i]) <= i}
  <1>4. 0 \in C
    <2>1. <<>> \in Seq(T) /\ Len(<<>>) <= 0
      OBVIOUS
    <2>2. 0 \in 0 .. n
      BY <1>1
    <2> QED
      BY <1>3, <2>1, <2>2, Zenon
  <1>5. ASSUME NEW i \in 1 .. n, i - 1 \in C PROVE i \in C
    <2>1. g[i - 1] \in Seq(T) /\ Len(g[i - 1]) <= i - 1 /\ Len(g[i - 1]) \in Nat
      BY <1>5
    <2>2. CASE configured[Keys[i]] = None
      BY <1>1, <1>3, <2>1, <2>2
    <2>3. CASE configured[Keys[i]] # None
      <3>1. Exported(Keys[i]) \in T
        BY <1>1, <2>3
      <3>2. g[i] = Append(g[i - 1], Exported(Keys[i]))
        BY <1>3, <2>3
      <3>3. \A s \in Seq(T), t \in T : Append(s, t) \in Seq(T) /\ Len(Append(s, t)) = Len(s) + 1
        OBVIOUS
      <3>4. g[i] \in Seq(T) /\ Len(g[i]) = Len(g[i - 1]) + 1
        BY <2>1, <3>1, <3>2, <3>3
      <3> QED
        BY <1>1, <2>1, <3>4
    <2> QED
      BY <2>2, <2>3
  <1>6. n \in C
    <2> HIDE DEF C
    <2> QED
      BY <1>1, <1>4, <1>5, NumberInduction
  <1> QED
    BY <1>2, <1>6, ExportIs

------------------------------------------------------------------------------
\* The entries of the script: those of the last stage come last.
Stage(n) == DefaultEntries(Stages[n])
AllStages == [n \in 1 .. Len(Stages) |-> Stage(n)]
DefaultSet == {Stage(n)[i] : n \in 1 .. Len(Stages), i \in 1 .. Len(Defaults)}
LastEntries == {Stage(Len(Stages))[i] : i \in 1 .. Len(Defaults)}

LEMMA StageIs ==
    ASSUME NEW n \in 1 .. Len(Stages)
    PROVE  /\ Stage(n) \in Seq(DefaultSet) /\ Len(Stage(n)) = Len(Defaults)
           /\ \A i \in 1 .. Len(Defaults) : Stage(n)[i].key = Defaults[i].key
  <1>1. Stage(n) = [i \in 1 .. Len(Defaults) |-> Stage(n)[i]]
    BY DEF Stage, DefaultEntries
  <1>2. \A i \in 1 .. Len(Defaults) : Stage(n)[i] \in DefaultSet
    BY DEF DefaultSet
  <1>3. Len(Defaults) \in Nat
    BY SettingAssumption
  <1>4. [i \in 1 .. Len(Defaults) |-> Stage(n)[i]] \in Seq(DefaultSet)
        /\ Len([i \in 1 .. Len(Defaults) |-> Stage(n)[i]]) = Len(Defaults)
    <2> PICK k, e : k = Len(Defaults) /\ e = Stage(n)
      OBVIOUS
    <2> QED
      BY <1>2, <1>3
  <1>5. \A i \in 1 .. Len(Defaults) : Stage(n)[i].key = Defaults[i].key
    BY DEF Stage, DefaultEntries
  <1> QED
    BY <1>1, <1>4, <1>5

LEMMA FlattenIs ==
    ASSUME NEW s, Len(s) # 0
    PROVE  FlattenSeq(s) = (CHOOSE g : Flattens(g, s))[Len(s)]
  BY DEF FlattenSeq, Flattens

LEMMA FlattenAdds ==
    ASSUME NEW n \in Nat \ {0}, NEW T, NEW s \in [1 .. n -> Seq(T)], Len(s) = n
    PROVE  FlattenSeq(s) = s[n] \/ \E p \in Seq(T) : FlattenSeq(s) = p \o s[n]
  <1>1. PICK g : g = (CHOOSE h : Flattens(h, s)) /\ Flattens(g, s)
    BY FlattensExist
  <1>2. \A i \in 1 .. n : g[i] = IF i = 1 THEN s[i] ELSE g[i - 1] \o s[i]
    BY <1>1, Zenon DEF Flattens
  <1> DEFINE C == {i \in 0 .. n : i > 0 => g[i] \in Seq(T)}
  <1>3. 0 \in C
    OBVIOUS
  <1>4. ASSUME NEW i \in 1 .. n, i - 1 \in C PROVE i \in C
    <2>1. CASE i = 1
      BY <1>2, <2>1
    <2>2. CASE i # 1
      <3>1. g[i - 1] \in Seq(T) /\ s[i] \in Seq(T)
        BY <1>4, <2>2
      <3>2. g[i] = g[i - 1] \o s[i]
        BY <1>2, <2>2
      <3>3. g[i] \in Seq(T)
        BY <3>1, <3>2
      <3> QED
        BY <3>3
    <2> QED
      BY <2>1, <2>2
  <1>5. FlattenSeq(s) = g[n]
    BY <1>1, FlattenIs
  <1>6. CASE n = 1
    BY <1>2, <1>5, <1>6
  <1>7. CASE n # 1
    <2> PICK m : m = n - 1
      OBVIOUS
    <2>1. m \in Nat /\ m > 0 /\ m \in 0 .. n /\ n \in 1 .. n
      BY <1>7
    <2>2. m \in C
      <3>1. \A i \in 1 .. m : i \in 1 .. n
        BY <2>1
      <3> HIDE DEF C
      <3> QED
        BY <1>3, <1>4, <2>1, <3>1, NumberInduction
    <2>3. g[m] \in Seq(T)
      BY <2>1, <2>2
    <2>4. g[n] = g[m] \o s[n]
      BY <1>2, <1>7, <2>1
    <2> QED
      BY <1>5, <2>3, <2>4
  <1> QED
    BY <1>6, <1>7

------------------------------------------------------------------------------
Script == FlattenSeq(AllStages)

\* The value of a key that the script comes to last is that of the last stage.
EndsWithLast(todo) ==
    \A i \in DOMAIN todo : \/ todo[i] \in LastEntries
                           \/ \E j \in DOMAIN todo : j > i /\ todo[j].key = todo[i].key

LEMMA ScriptIs ==
    /\ Script \in Seq(DefaultSet) /\ Len(Script) > 0
    /\ EndsWithLast(Script)
  <1> PICK n, d, k : n = Len(Stages) /\ d = Stage(n) /\ k = Len(Defaults)
    OBVIOUS
  <1>1. n \in Nat \ {0} /\ k \in Nat \ {0} /\ n \in 1 .. n
    BY SettingAssumption
  <1>2. AllStages \in [1 .. n -> Seq(DefaultSet)] /\ Len(AllStages) = n /\ AllStages[n] = d
    <2>1. \A i \in 1 .. n : Stage(i) \in Seq(DefaultSet)
      BY StageIs
    <2> QED
      BY <1>1, <2>1 DEF AllStages
  <1>3. Script = d \/ \E p \in Seq(DefaultSet) : Script = p \o d
    <2> PICK s : s = AllStages
      OBVIOUS
    <2>1. n \in Nat \ {0} /\ s \in [1 .. n -> Seq(DefaultSet)] /\ Len(s) = n /\ s[n] = d
      BY <1>1, <1>2
    <2>2. FlattenSeq(s) = s[n] \/ \E p \in Seq(DefaultSet) : FlattenSeq(s) = p \o s[n]
      BY <2>1, FlattenAdds
    <2> QED
      BY <2>1, <2>2 DEF Script
  <1>4. /\ d \in Seq(DefaultSet) /\ Len(d) = k
        /\ \A i \in 1 .. k : d[i].key = Defaults[i].key /\ d[i] \in LastEntries
    BY <1>1, StageIs DEF LastEntries
  <1>5. CASE Script = d
    BY <1>1, <1>4, <1>5 DEF EndsWithLast
  <1>6. ASSUME NEW p \in Seq(DefaultSet), Script = p \o d
        PROVE  Script \in Seq(DefaultSet) /\ Len(Script) > 0 /\ EndsWithLast(Script)
    <2> PICK l : l = Len(p)
      OBVIOUS
    <2>1. /\ l \in Nat /\ Len(Script) = l + k /\ Script \in Seq(DefaultSet)
          /\ \A i \in 1 .. l : Script[i] = p[i] /\ p[i] \in DefaultSet
          /\ \A i \in 1 .. k : Script[l + i] = d[i]
      <3>1. \A s, t \in Seq(DefaultSet) :
              /\ s \o t \in Seq(DefaultSet) /\ Len(s \o t) = Len(s) + Len(t)
              /\ \A i \in 1 .. Len(s) : (s \o t)[i] = s[i] /\ s[i] \in DefaultSet
              /\ \A i \in 1 .. Len(t) : (s \o t)[Len(s) + i] = t[i]
        OBVIOUS
      <3> QED
        BY <1>4, <1>6, <3>1
    <2>2. ASSUME NEW i \in DOMAIN Script
          PROVE  \/ Script[i] \in LastEntries
                 \/ \E j \in DOMAIN Script : j > i /\ Script[j].key = Script[i].key
      <3>1. i \in 1 .. (l + k)
        BY <2>1, <2>2
      <3>2. CASE i <= l
        <4>1. PICK a \in 1 .. n, b \in 1 .. k : Script[i] = Stage(a)[b]
          <5>1. Script[i] \in DefaultSet
            BY <2>1, <3>1, <3>2
          <5> QED
            BY <5>1 DEF DefaultSet
        <4>2. Script[i].key = Defaults[b].key
          BY <4>1, StageIs
        <4>3. Script[l + b].key = Defaults[b].key
          BY <1>4, <2>1
        <4>4. l + b \in DOMAIN Script /\ l + b > i
          BY <1>1, <2>1, <3>1, <3>2
        <4> QED
          BY <4>2, <4>3, <4>4
      <3>3. CASE i > l
        <4>1. i - l \in 1 .. k /\ l + (i - l) = i
          BY <1>1, <2>1, <3>1, <3>3
        <4>2. Script[i] = d[i - l]
          BY <2>1, <4>1
        <4> QED
          BY <1>4, <4>1, <4>2
      <3> QED
        BY <2>1, <3>1, <3>2, <3>3
    <2>3. EndsWithLast(Script)
      BY <2>2 DEF EndsWithLast
    <2> QED
      BY <1>1, <2>1, <2>3
  <1> QED
    BY <1>1, <1>3, <1>4, <1>5, <1>6

\* What the entries of one key have in common, and that a server can start with them.
LEMMA DefaultsAlike ==
    /\ \A e \in DefaultSet : /\ e \in [key: KeySet, value: Texts, encrypted: BOOLEAN,
                                       required: BOOLEAN, allowed: Lists]
                             /\ e.required /\ e.allowed # NoList => ~e.encrypted /\ e.value \in e.allowed.values
    /\ \A e, f \in DefaultSet : e.key = f.key =>
          e.encrypted = f.encrypted /\ e.required = f.required /\ e.allowed = f.allowed
    /\ LastEntries \subseteq DefaultSet
    /\ \A e \in LastEntries : \E i \in 1 .. Len(Defaults) :
          Defaults[i].key = e.key /\ e.value = Defaults[i].values[Stages[Len(Stages)]]
  <1>1. ASSUME NEW n \in 1 .. Len(Stages), NEW i \in 1 .. Len(Defaults)
        PROVE  Stage(n)[i] = [key |-> Defaults[i].key, value |-> Defaults[i].values[Stages[n]],
                              encrypted |-> Defaults[i].encrypted, required |-> Defaults[i].required,
                              allowed |-> Defaults[i].allowed]
    BY DEF Stage, DefaultEntries
  <1>2. Len(Stages) \in 1 .. Len(Stages)
    BY SettingAssumption
  <1>3. ASSUME NEW e \in DefaultSet
        PROVE  /\ e \in [key: KeySet, value: Texts, encrypted: BOOLEAN, required: BOOLEAN, allowed: Lists]
               /\ e.required /\ e.allowed # NoList => ~e.encrypted /\ e.value \in e.allowed.values
    <2> PICK n \in 1 .. Len(Stages), i \in 1 .. Len(Defaults) : e = Stage(n)[i]
      BY DEF DefaultSet
    <2> PICK b : b = Defaults[i]
      OBVIOUS
    <2>1. /\ b.key \in KeySet /\ b.encrypted \in BOOLEAN /\ b.required \in BOOLEAN /\ b.allowed \in Lists
          /\ b.values[Stages[n]] \in Texts
          /\ b.required /\ b.allowed # NoList => ~b.encrypted /\ b.values[Stages[n]] \in b.allowed.values
      BY SettingAssumption
    <2>2. e = [key |-> b.key, value |-> b.values[Stages[n]], encrypted |-> b.encrypted,
               required |-> b.required, allowed |-> b.allowed]
      BY <1>1
    <2> QED
      BY <2>1, <2>2
  <1>4. ASSUME NEW e \in DefaultSet, NEW f \in DefaultSet, e.key = f.key
        PROVE  e.encrypted = f.encrypted /\ e.required = f.required /\ e.allowed = f.allowed
    <2>1. PICK n \in 1 .. Len(Stages), i \in 1 .. Len(Defaults) : e = Stage(n)[i]
      BY DEF DefaultSet
    <2>2. PICK m \in 1 .. Len(Stages), j \in 1 .. Len(Defaults) : f = Stage(m)[j]
      BY DEF DefaultSet
    <2> PICK b, c : b = Defaults[i] /\ c = Defaults[j]
      OBVIOUS
    <2>3. /\ e = [key |-> b.key, value |-> b.values[Stages[n]], encrypted |-> b.encrypted,
                  required |-> b.required, allowed |-> b.allowed]
          /\ f = [key |-> c.key, value |-> c.values[Stages[m]], encrypted |-> c.encrypted,
                  required |-> c.required, allowed |-> c.allowed]
      BY <1>1, <2>1, <2>2
    <2>4. b.key = c.key
      BY <1>4, <2>3
    <2>5. b = c
      BY <2>4, SettingAssumption
    <2> QED
      BY <2>3, <2>5
  <1>5. LastEntries \subseteq DefaultSet
    BY <1>2 DEF LastEntries, DefaultSet
  <1>6. ASSUME NEW e \in LastEntries
        PROVE  \E i \in 1 .. Len(Defaults) :
                  Defaults[i].key = e.key /\ e.value = Defaults[i].values[Stages[Len(Stages)]]
    <2> PICK i \in 1 .. Len(Defaults) : e = Stage(Len(Stages))[i]
      BY DEF LastEntries
    <2> PICK b, n : b = Defaults[i] /\ n = Len(Stages)
      OBVIOUS
    <2>1. e = [key |-> b.key, value |-> b.values[Stages[n]], encrypted |-> b.encrypted,
               required |-> b.required, allowed |-> b.allowed]
      BY <1>1, <1>2
    <2> QED
      BY <2>1
  <1> QED
    BY <1>3, <1>4, <1>5, <1>6

------------------------------------------------------------------------------
\* What is asked for, and what an export has in common with the row it is of.
EntryFields(e) ==
    /\ e.key \in KeySet /\ e.value \in Texts \cup {Mask}
    /\ e.encrypted \in BOOLEAN /\ e.required \in BOOLEAN /\ e.allowed \in Lists

OfExport(e) ==
    /\ EntryFields(e) /\ e.row # None
    /\ e.value = (IF e.row.encrypted THEN Mask ELSE e.row.value)
    /\ e.encrypted = e.row.encrypted /\ e.required = e.row.required
    /\ e.row.allowed = NoList => e.allowed = NoList
    /\ e.row.allowed # NoList => e.allowed = [values |-> e.row.allowed.values, text |-> TRUE]

OneOfAKey(S) == \A e, f \in S : e.key = f.key => e = f
Alike(S) == \A e, f \in S : e.key = f.key =>
    e.encrypted = f.encrypted /\ e.required = f.required /\ e.allowed = f.allowed

FileOf(f) ==
    /\ f \in Seq(ToSet(f)) /\ f # <<>> /\ Len(f) <= Len(Keys)
    /\ \A e \in ToSet(f) : OfExport(e)
    /\ OneOfAKey(ToSet(f))

Writers == {"put", "import", "script"}
StepsOf(kind) ==
    CASE kind = "get" -> {"getSetting", "fillSetting"}
      [] kind = "remove" -> {"findToRemoveSetting", "removeSetting", "logRemovalOfSetting"}
      [] kind = "put" -> {"findSetting", "saveSetting", "logSetting"}
      [] kind = "import" -> {"getSetting", "fillSetting", "findSetting", "saveSetting", "logSetting"}
      [] kind = "script" -> {"checkStart", "findSetting", "saveSetting", "logSetting"}

FoundRow(n) == [id: 0 .. n, value: Texts \cup {Mask}, encrypted: BOOLEAN, required: BOOLEAN, allowed: Lists]

\* What a request holds, n ids having been given.
Holds(step, m, n) ==
    /\ m = [kind |-> m.kind, overwrite |-> m.overwrite, todo |-> m.todo, asked |-> m.asked,
            before |-> m.before, found |-> m.found]
    /\ m.kind \in Writers \cup {"get", "remove"} /\ step \in StepsOf(m.kind)
    /\ m.todo \in Seq(m.asked) /\ m.todo # <<>> /\ (m.kind \notin {"import", "script"} => Len(m.todo) = 1)
    /\ m.before \in [KeySet -> SettingRow(n) \cup {None}]
    /\ \A e \in m.asked : e.key \in KeySet
    /\ step = "removeSetting" => m.found \in SettingRow(n)
    /\ step = "saveSetting" => m.found \in FoundRow(n)
    /\ m.kind = "get" => m.overwrite = FALSE
    /\ m.kind \in {"put", "script"} => m.overwrite = TRUE
    /\ m.kind = "import" => m.overwrite \in BOOLEAN /\ \A e \in m.asked : OfExport(e)
    /\ m.kind \in {"put", "import"} => OneOfAKey(m.asked)
    /\ m.kind = "remove" => m.asked = {Head(m.todo)}
    /\ m.kind \in Writers => Alike(m.asked) /\ \A e \in m.asked : EntryFields(e)
    /\ m.kind = "script" => m.asked \subseteq DefaultSet /\ EndsWithLast(m.todo)

\* The list a row has once entry e is set, b being the row before the request.
Kept(b, e) == IF e.allowed = NoList /\ b # None THEN b.allowed ELSE e.allowed
Says(row, b, e) ==
    /\ row # None /\ row.value = e.value /\ row.encrypted = e.encrypted
    /\ row.required = e.required /\ row.allowed = Kept(b, e)

\* The calls that come after the write of a step.
Rest(step, m) == IF step = "logSetting" THEN Tail(m.todo) ELSE m.todo
Later(todo, k) == \E i \in DOMAIN todo : todo[i].key = k

\* What row a request that nobody disturbs leaves so far of a key it was asked for.
Leaves(step, m, k, row) ==
    /\ m.kind = "remove" => /\ step = "removeSetting" => row = m.found
                            /\ step = "logRemovalOfSetting" => row = None
    /\ step = "saveSetting" /\ Head(m.todo).key = k => m.found = Merged(row, Head(m.todo))
    /\ m.kind = "import" /\ ~m.overwrite =>
          /\ m.before[k] = None \/ row = m.before[k]
          /\ step \in {"findSetting", "saveSetting"} /\ Head(m.todo).key = k => m.before[k] = None
    /\ m.kind \in Writers /\ m.overwrite =>
          \/ row = m.before[k] /\ Later(Rest(step, m), k)
          \/ \E e \in m.asked : /\ e.key = k /\ Says(row, m.before[k], e)
                                /\ Later(Rest(step, m), k) \/ (m.kind = "script" => e \in LastEntries)

Outcome(m, k, after) ==
    [kind |-> m.kind, overwrite |-> m.overwrite, asked |-> {e \in m.asked : e.key = k},
     before |-> m.before[k], after |-> after]

AsAnswered(o) == \A e \in o.asked :
    LET listKept == e.allowed = NoList /\ o.before # None /\ o.before.allowed # NoList IN
    /\ o.kind = "remove" => o.after = None
    /\ o.kind = "put" => o.after # None /\ o.after.value = e.value
    /\ o.kind = "import" /\ ~o.overwrite => o.before = None \/ o.after = o.before
    /\ o.kind = "import" /\ o.overwrite =>
          /\ o.after.value = IF e.row.encrypted THEN Mask ELSE e.row.value
          /\ Starts(e.row) /\ ~listKept => Starts(o.after)
    /\ o.kind = "script" =>
          /\ \E i \in 1..Len(Defaults) :
                Defaults[i].key = e.key /\ o.after.value = Defaults[i].values[Stages[Len(Stages)]]
          /\ ~listKept => (Starts(o.after) <=> ~Vacant(o.after))

TablesHold(rows, n, cached, exported) ==
    /\ n \in Nat
    /\ rows \in [KeySet -> SettingRow(n) \cup {None}]
    /\ cached \subseteq KeySet
    /\ \A f \in exported : FileOf(f)

SettingInv ==
    /\ TablesHold(configured, ids, filled, files)
    /\ disturbed \in [Requests -> SUBSET KeySet]
    /\ \A q \in Requests : pc[q] \in SettingSteps => Holds(pc[q], mem[q], ids)
    /\ \A q, r \in Requests : q # r => KeysOf(q) \cap KeysOf(r) \subseteq disturbed[q]
    /\ \A q \in Requests : \A k \in KeysOf(q) \ disturbed[q] : Leaves(pc[q], mem[q], k, configured[k])
    /\ \A o \in outcomes : o.kind \in Writers \cup {"remove"} /\ AsAnswered(o)

LEMMA SettingInitInv == Init => SettingInv
  <1> SUFFICES ASSUME Init PROVE SettingInv
    OBVIOUS
  <1>1. \A q \in Requests : pc[q] = "idle"
    BY InitPerRequest DEF Init
  <1>2. IsFiniteSet(KeySet)
    <2> PICK n, f : n = Len(Keys) /\ f = [i \in 1 .. n |-> Keys[i]]
      OBVIOUS
    <2>1. IsFiniteSet(1 .. n)
      BY SettingAssumption, FS_Interval
    <2>2. f \in Surjection(1 .. n, KeySet)
      BY DEF Surjection, KeySet
    <2> QED
      BY <2>1, <2>2, FS_Surjection
  <1>3. TablesHold(configured, ids, filled, files)
    <2>1. CASE SettingInit
      BY <1>2, <2>1, SettingAssumption, FS_CardinalityType DEF SettingInit, TablesHold
    <2>2. CASE SettingIdle
      BY <2>2 DEF SettingIdle, TablesHold
    <2> QED
      BY <2>1, <2>2 DEF Init
  <1>4. disturbed = [q \in Requests |-> {}] /\ outcomes = {}
    BY DEF Init, SettingInit, SettingIdle
  <1>5. \A q \in Requests : pc[q] \notin SettingSteps /\ KeysOf(q) = {}
    BY <1>1 DEF SettingSteps, SavingSteps, KeysOf
  <1> QED
    BY <1>3, <1>4, <1>5 DEF SettingInv

LEMMA HoldsOn ==
    ASSUME NEW step, NEW m, NEW n \in Nat, NEW n2 \in Nat, n <= n2, Holds(step, m, n)
    PROVE  Holds(step, m, n2)
  <1>1. SettingRow(n) \subseteq SettingRow(n2) /\ FoundRow(n) \subseteq FoundRow(n2)
    BY DEF SettingRow, FoundRow
  <1> QED
    BY <1>1 DEF Holds

------------------------------------------------------------------------------
\* A request that moves, and what it has to leave: the requests that have a key in common
\* with it are disturbed, and the others keep what they hold.
Moving(q, step, m, failed) ==
    /\ Put(q, step, m)
    /\ step \in SettingSteps \cup {"idle"}
    /\ failed \subseteq KeySet
    /\ TablesHold(configured, ids, filled, files)' /\ ids <= ids'
    /\ \A k \in KeySet \ KeysOf(q) : configured'[k] = configured[k]
    /\ step \in SettingSteps => Holds(step, m, ids')

Keeping(q, step, m, failed) ==
    /\ step \in SettingSteps => \A k \in KeysOf(q)' \ (disturbed[q] \cup failed) : Leaves(step, m, k, configured'[k])
    /\ step = "idle" /\ pc[q] \notin {"idle", "checkStart"} /\ Len(mem[q].todo) = 1 =>
          \A k \in KeysOf(q) \ (disturbed[q] \cup failed) : AsAnswered(Outcome(mem[q], k, configured'[k]))

LEMMA KeysAre ==
    ASSUME SettingInv, NEW q \in Requests
    PROVE  /\ KeysOf(q) \subseteq KeySet
           /\ KeysOf(q) # {} => pc[q] \in SettingSteps /\ mem[q].kind \in Writers \cup {"remove"}
  <1>1. CASE pc[q] \in SettingSteps
    <2> PICK step, m : step = pc[q] /\ m = mem[q]
      OBVIOUS
    <2>1. Holds(step, m, ids)
      BY <1>1 DEF SettingInv
    <2>2. (\A e \in m.asked : e.key \in KeySet) /\ m.kind \in Writers \cup {"get", "remove"}
      BY <2>1 DEF Holds
    <2>3. KeysOf(q) = IF m.kind = "get" THEN {} ELSE {e.key : e \in m.asked}
      BY <1>1 DEF KeysOf
    <2> QED
      BY <1>1, <2>2, <2>3
  <1>2. CASE pc[q] \notin SettingSteps
    BY <1>2 DEF KeysOf
  <1> QED
    BY <1>1, <1>2

\* The keys of the others stay.
LEMMA KeysStay ==
    ASSUME NEW q \in Requests, NEW r \in Requests \ {q}, NEW step, NEW m, Put(q, step, m)
    PROVE  pc'[r] = pc[r] /\ mem'[r] = mem[r] /\ KeysOf(r)' = KeysOf(r)
  BY DEF Put, KeysOf

LEMMA OthersLeave ==
    ASSUME SettingInv, NEW q \in Requests, NEW r \in Requests \ {q}, NEW step, NEW m, NEW failed,
           Moving(q, step, m, failed), KeysOf(r) # {} => disturbed[r] \subseteq disturbed'[r]
    PROVE  /\ pc'[r] \in SettingSteps => Holds(pc[r], mem[r], ids)'
           /\ \A k \in KeysOf(r)' \ disturbed'[r] : Leaves(pc'[r], mem'[r], k, configured'[k])
  <1>1. pc'[r] = pc[r] /\ mem'[r] = mem[r] /\ KeysOf(r)' = KeysOf(r)
    BY KeysStay DEF Moving
  <1>2. ids \in Nat /\ ids' \in Nat /\ ids <= ids'
    BY DEF SettingInv, Moving, TablesHold
  <1>3. pc'[r] \in SettingSteps => Holds(pc'[r], mem'[r], ids')
    BY <1>1, <1>2, HoldsOn DEF SettingInv
  <1>4. ASSUME NEW k \in KeysOf(r) \ disturbed'[r]
        PROVE  Leaves(pc[r], mem[r], k, configured'[k])
    <2>1. k \in KeySet /\ k \notin disturbed[r]
      BY <1>4, KeysAre
    <2>2. k \notin KeysOf(q)
      BY <2>1 DEF SettingInv
    <2>3. configured'[k] = configured[k]
      BY <2>1, <2>2 DEF Moving
    <2> QED
      BY <2>1, <2>3 DEF SettingInv
  <1> QED
    BY <1>1, <1>3, <1>4

LEMMA SettingAdvance ==
    ASSUME SettingInv, NEW q \in Requests, NEW step, NEW m, NEW failed,
           Moving(q, step, m, failed), Keeping(q, step, m, failed), SettingHistory(failed)
    PROVE  SettingInv'
  <1> DEFINE Done(p) == pc[p] \notin {"idle", "checkStart"} /\ pc'[p] = "idle" /\ Len(mem[p].todo) = 1
  <1>0. Put(q, step, m) /\ pc'[q] = step /\ mem'[q] = m
    BY DEF Moving, Put
  <1>1. \A r \in Requests \ {q} : pc'[r] = pc[r] /\ mem'[r] = mem[r] /\ KeysOf(r)' = KeysOf(r)
    BY <1>0, KeysStay
  <1>2. disturbed' = [r \in Requests |->
           IF pc'[r] = "idle" THEN {}
           ELSE disturbed[r] \cup failed \cup (KeysOf(r)' \cap UNION {KeysOf(p)' : p \in Requests \ {r}})]
    BY DEF SettingHistory
  <1>3. outcomes' = outcomes \cup UNION {{Outcome(mem[p], k, configured'[k]) : k \in KeysOf(p) \ (disturbed[p] \cup failed)} :
                                         p \in {r \in Requests : Done(r)}}
    BY DEF SettingHistory, Outcome
  <1>4. "idle" \notin SettingSteps
    BY DEF SettingSteps, SavingSteps
  <1>5. \A r \in Requests : KeysOf(r)' \subseteq KeySet
    <2>1. KeysOf(q)' \subseteq KeySet
      <3>1. CASE step \in SettingSteps
        <4>1. \A e \in m.asked : e.key \in KeySet
          BY <3>1 DEF Moving, Holds
        <4> QED
          BY <1>0, <4>1 DEF KeysOf
      <3>2. CASE step \notin SettingSteps
        BY <1>0, <3>2 DEF KeysOf
      <3> QED
        BY <3>1, <3>2
    <2> QED
      BY <1>1, <2>1, KeysAre
  <1>6. disturbed' \in [Requests -> SUBSET KeySet]
    BY <1>2, <1>5 DEF SettingInv, Moving
  <1>7. \A r \in Requests : pc'[r] = "idle" => KeysOf(r)' = {}
    BY <1>4 DEF KeysOf
  <1>8. ASSUME NEW r \in Requests, NEW p \in Requests, r # p PROVE KeysOf(r)' \cap KeysOf(p)' \subseteq disturbed'[r]
    BY <1>2, <1>7, <1>8
  <1>9. \A r \in Requests \ {q} : KeysOf(r) # {} => disturbed[r] \subseteq disturbed'[r]
    BY <1>1, <1>2, <1>7
  <1>10. ASSUME NEW r \in Requests
         PROVE  /\ pc'[r] \in SettingSteps => Holds(pc[r], mem[r], ids)'
                /\ \A k \in KeysOf(r)' \ disturbed'[r] : Leaves(pc'[r], mem'[r], k, configured'[k])
    <2>1. CASE r = q
      <3>1. pc'[r] \in SettingSteps => Holds(pc[r], mem[r], ids)'
        BY <1>0, <2>1 DEF Moving
      <3>2. ASSUME NEW k \in KeysOf(q)' \ disturbed'[q] PROVE Leaves(step, m, k, configured'[k])
        <4>1. step \in SettingSteps
          BY <1>0, <3>2 DEF KeysOf
        <4>2. k \notin disturbed[q] \cup failed
          BY <1>0, <1>2, <1>4, <3>2, <4>1
        <4> QED
          BY <3>2, <4>1, <4>2 DEF Keeping
      <3> QED
        BY <1>0, <2>1, <3>1, <3>2
    <2>2. CASE r # q
      BY <1>9, <2>2, OthersLeave
    <2> QED
      BY <2>1, <2>2
  <1>11. ASSUME NEW o \in outcomes' PROVE o.kind \in Writers \cup {"remove"} /\ AsAnswered(o)
    <2>1. CASE o \in outcomes
      BY <2>1 DEF SettingInv
    <2>2. CASE o \notin outcomes
      <3>1. PICK p \in Requests : \E k \in KeysOf(p) \ (disturbed[p] \cup failed) :
                Done(p) /\ o = Outcome(mem[p], k, configured'[k])
        BY <1>3, <1>11, <2>2
      <3> PICK k \in KeysOf(p) \ (disturbed[p] \cup failed) : Done(p) /\ o = Outcome(mem[p], k, configured'[k])
        BY <3>1
      <3>2. p = q
        BY <1>1, <3>1
      <3>3. AsAnswered(Outcome(mem[q], k, configured'[k]))
        BY <1>0, <3>1, <3>2 DEF Keeping
      <3>4. mem[q].kind \in Writers \cup {"remove"}
        BY <3>1, <3>2, KeysAre
      <3> QED
        BY <3>1, <3>2, <3>3, <3>4 DEF Outcome
    <2> QED
      BY <2>1, <2>2
  <1>12. TablesHold(configured, ids, filled, files)'
    BY DEF Moving
  <1> QED
    BY <1>6, <1>8, <1>10, <1>11, <1>12 DEF SettingInv

------------------------------------------------------------------------------
\* What a server could start with.
Fit(e) == e.required =>
    /\ e.encrypted \/ e.value # Blank
    /\ e.allowed # NoList =>
          ~e.encrypted /\ \/ e.value \in e.allowed.values
                          \/ e.allowed.text /\ \E v \in e.allowed.values : <<v, e.value>> \in Parts

\* A server that could start with what was asked can start with what is left of it.
LEMMA StartsWith ==
    ASSUME NEW row, NEW b, NEW e, NEW wanted, Says(row, b, e), EntryFields(e),
           ~(e.allowed = NoList /\ b # None /\ b.allowed # NoList),
           Fit(e)
    PROVE  Starts(row)
  <1>1. row.allowed = e.allowed
    BY DEF Says, Kept
  <1> QED
    BY <1>1 DEF Says, Starts, Vacant, Fit

LEMMA ImportStarts ==
    ASSUME NEW e, OfExport(e), Starts(e.row)
    PROVE  Fit(e)
  <1> SUFFICES ASSUME e.required
               PROVE  /\ e.encrypted \/ e.value # Blank
                      /\ e.allowed # NoList =>
                            ~e.encrypted /\ \/ e.value \in e.allowed.values
                                            \/ e.allowed.text /\ \E v \in e.allowed.values : <<v, e.value>> \in Parts
    BY DEF Fit
  <1> PICK row, list : row = e.row /\ list = row.allowed
    OBVIOUS
  <1>1. /\ row # None /\ e.value = (IF row.encrypted THEN Mask ELSE row.value)
        /\ e.encrypted = row.encrypted /\ e.required = row.required
        /\ list = NoList => e.allowed = NoList
        /\ list # NoList => e.allowed = [values |-> list.values, text |-> TRUE]
    BY DEF OfExport
  <1>2. e.encrypted \/ e.value # Blank
    BY <1>1 DEF Starts, Vacant
  <1>3. ASSUME e.allowed # NoList
        PROVE  ~e.encrypted /\ \/ e.value \in e.allowed.values
                               \/ e.allowed.text /\ \E v \in e.allowed.values : <<v, e.value>> \in Parts
    <2>1. row.required /\ list # NoList
      BY <1>1, <1>3
    <2>2. /\ ~row.encrypted
          /\ row.value \in list.values \/ (list.text /\ \E v \in list.values : <<v, row.value>> \in Parts)
      BY <1>1, <2>1 DEF Starts
    <2>3. e.allowed.values = list.values /\ e.allowed.text = TRUE
      BY <1>1, <2>1
    <2>4. e.value = row.value /\ ~e.encrypted
      BY <1>1, <2>2
    <2>5. row.value \in e.allowed.values \/ (e.allowed.text /\ \E v \in e.allowed.values : <<v, row.value>> \in Parts)
      <3> PICK v, l : v = row.value /\ l = list.values
        OBVIOUS
      <3>1. v \in l \/ \E w \in l : <<w, v>> \in Parts
        BY <2>2
      <3> QED
        BY <2>3, <3>1
    <2> QED
      BY <2>4, <2>5
  <1> QED
    BY <1>2, <1>3

\* What a request has left of a key once its calls are over is what it answers.
LEMMA AnsweredIs ==
    ASSUME NEW step, NEW m, NEW n, Holds(step, m, n), m.kind \in Writers, Len(m.todo) = 1,
           NEW k, NEW row, Leaves("logSetting", m, k, row)
    PROVE  AsAnswered(Outcome(m, k, row))
  <1> PICK o, b : o = Outcome(m, k, row) /\ b = m.before[k]
    OBVIOUS
  <1>1. /\ o.kind = m.kind /\ o.overwrite = m.overwrite /\ o.before = b /\ o.after = row
        /\ o.asked = {e \in m.asked : e.key = k}
    BY DEF Outcome
  <1>2. ~Later(Tail(m.todo), k)
    <2> PICK t, S : t = m.todo /\ S = m.asked
      OBVIOUS
    <2>1. t \in Seq(S) /\ Len(t) = 1
      BY DEF Holds
    <2>2. \A U : \A s \in Seq(U) : s # <<>> => DOMAIN Tail(s) = 1 .. Len(s) - 1
      OBVIOUS
    <2>3. t # <<>>
      BY DEF Holds
    <2>4. DOMAIN Tail(t) = 1 .. 1 - 1
      BY <2>1, <2>2, <2>3
    <2>5. DOMAIN Tail(t) = {}
      BY <2>4
    <2> QED
      BY <2>5 DEF Later
  <1>3. CASE m.overwrite
    <2>1. PICK e \in m.asked : e.key = k /\ Says(row, b, e) /\ (m.kind = "script" => e \in LastEntries)
      BY <1>2, <1>3 DEF Leaves, Rest
    <2>2. EntryFields(e) /\ Alike(m.asked)
      BY DEF Holds
    <2>3. ASSUME NEW f \in o.asked
          PROVE  /\ f \in m.asked /\ f.key = k
                 /\ f.encrypted = e.encrypted /\ f.required = e.required /\ f.allowed = e.allowed
      BY <1>1, <2>1, <2>2 DEF Alike
    <2>4. CASE m.kind = "put"
      <3>1. \A f \in o.asked : f = e
        BY <2>1, <2>3, <2>4 DEF Holds, OneOfAKey
      <3> QED
        BY <1>1, <2>1, <2>4, <3>1 DEF AsAnswered, Says
    <2>5. CASE m.kind = "import"
      <3>1. \A f \in o.asked : f = e
        BY <2>1, <2>3, <2>5 DEF Holds, OneOfAKey
      <3>2. OfExport(e)
        BY <2>5 DEF Holds
      <3>3. row.value = IF e.row.encrypted THEN Mask ELSE e.row.value
        BY <2>1, <3>2 DEF OfExport, Says
      <3>4. Starts(e.row) /\ ~(e.allowed = NoList /\ b # None /\ b.allowed # NoList) => Starts(row)
        BY <2>1, <2>2, <3>2, ImportStarts, StartsWith
      <3> QED
        BY <1>1, <1>3, <2>5, <3>1, <3>3, <3>4 DEF AsAnswered
    <2>6. CASE m.kind = "script"
      <3>1. e \in LastEntries /\ e \in DefaultSet
        BY <2>1, <2>6, DefaultsAlike
      <3>2. PICK i \in 1 .. Len(Defaults) : Defaults[i].key = e.key /\ e.value = Defaults[i].values[Stages[Len(Stages)]]
        BY <3>1, DefaultsAlike
      <3>3. e.required /\ e.allowed # NoList => ~e.encrypted /\ e.value \in e.allowed.values
        BY <3>1, DefaultsAlike
      <3>4. ~(e.allowed = NoList /\ b # None /\ b.allowed # NoList) => (Starts(row) <=> ~Vacant(row))
        <4>1. Starts(row) => ~Vacant(row)
          BY <2>1 DEF Starts, Says, Vacant
        <4>2. ~Vacant(row) => Fit(e)
          BY <2>1, <3>3 DEF Fit, Says, Vacant
        <4> QED
          BY <2>1, <2>2, <4>1, <4>2, StartsWith
      <3>5. row.value = e.value
        BY <2>1 DEF Says
      <3>6. ASSUME NEW f \in o.asked
            PROVE  /\ \E j \in 1..Len(Defaults) :
                        Defaults[j].key = f.key /\ row.value = Defaults[j].values[Stages[Len(Stages)]]
                   /\ ~(f.allowed = NoList /\ b # None /\ b.allowed # NoList) =>
                        (Starts(row) <=> ~Vacant(row))
        BY <2>1, <2>3, <3>2, <3>4, <3>5, <3>6
      <3> QED
        BY <1>1, <2>6, <3>6 DEF AsAnswered
    <2> QED
      BY <2>4, <2>5, <2>6 DEF Writers
  <1>4. CASE ~m.overwrite
    <2>1. m.kind = "import"
      BY <1>4 DEF Holds, Writers
    <2>2. b = None \/ row = b
      BY <1>4, <2>1 DEF Leaves
    <2> QED
      BY <1>1, <1>4, <2>1, <2>2 DEF AsAnswered
  <1> QED
    BY <1>3, <1>4

\* The keys of the calls to come, and the entry that the script writes last.
LEMMA TailIs ==
    ASSUME NEW S, NEW todo \in Seq(S), todo # <<>>
    PROVE  /\ Head(todo) \in S /\ Head(todo) = todo[1] /\ Tail(todo) \in Seq(S) /\ Len(todo) \in Nat \ {0}
           /\ Len(todo) # 1 => Tail(todo) # <<>>
           /\ \A k : Head(todo).key # k /\ Later(todo, k) => Later(Tail(todo), k)
           /\ EndsWithLast(todo) => EndsWithLast(Tail(todo))
           /\ EndsWithLast(todo) => Head(todo) \in LastEntries \/ Later(Tail(todo), Head(todo).key)
  <1> PICK n, t : n = Len(todo) /\ t = Tail(todo)
    OBVIOUS
  <1>1. /\ n \in Nat \ {0} /\ DOMAIN todo = 1 .. n /\ t \in Seq(S) /\ Len(t) = n - 1 /\ DOMAIN t = 1 .. n - 1
        /\ Head(todo) = todo[1] /\ todo[1] \in S
    OBVIOUS
  <1>2. \A i \in 1 .. n - 1 : t[i] = todo[i + 1]
    OBVIOUS
  <1>3. \A i \in 2 .. n : i - 1 \in 1 .. n - 1 /\ t[i - 1] = todo[i]
    BY <1>1, <1>2
  <1>4. ASSUME NEW k, todo[1].key # k, Later(todo, k) PROVE Later(t, k)
    <2>1. PICK i \in 1 .. n : todo[i].key = k
      BY <1>1, <1>4 DEF Later
    <2>2. i \in 2 .. n
      BY <1>1, <1>4, <2>1
    <2> QED
      BY <1>1, <1>3, <2>1, <2>2 DEF Later
  <1>5. ASSUME EndsWithLast(todo) PROVE EndsWithLast(t)
    <2>1. ASSUME NEW i \in 1 .. n - 1
          PROVE  t[i] \in LastEntries \/ \E j \in 1 .. n - 1 : j > i /\ t[j].key = t[i].key
      <3>1. i + 1 \in 1 .. n /\ t[i] = todo[i + 1]
        BY <1>1, <1>2
      <3>2. CASE todo[i + 1] \in LastEntries
        BY <3>1, <3>2
      <3>3. ASSUME NEW j \in 1 .. n, j > i + 1, todo[j].key = todo[i + 1].key
            PROVE  \E l \in 1 .. n - 1 : l > i /\ t[l].key = t[i].key
        <4>1. j \in 2 .. n /\ j - 1 > i
          BY <1>1, <3>3
        <4> QED
          BY <1>3, <3>1, <3>3, <4>1
      <3> QED
        BY <1>1, <1>5, <3>1, <3>2, <3>3 DEF EndsWithLast
    <2> QED
      BY <1>1, <2>1 DEF EndsWithLast
  <1>6. ASSUME EndsWithLast(todo), todo[1] \notin LastEntries PROVE Later(t, todo[1].key)
    <2>1. PICK j \in 1 .. n : j > 1 /\ todo[j].key = todo[1].key
      BY <1>1, <1>6 DEF EndsWithLast
    <2>2. j \in 2 .. n
      BY <1>1, <2>1
    <2> QED
      BY <1>1, <1>3, <2>1, <2>2 DEF Later
  <1>7. n # 1 => t # <<>>
    <2>1. \A s \in Seq(S) : Len(s) # 0 => s # <<>>
      OBVIOUS
    <2>2. n # 1 => Len(t) # 0
      BY <1>1
    <2> QED
      BY <1>1, <2>1, <2>2
  <1>8. \A k : Head(todo).key # k /\ Later(todo, k) => Later(Tail(todo), k)
    BY <1>1, <1>4
  <1>9. EndsWithLast(todo) => EndsWithLast(Tail(todo))
    BY <1>5
  <1>10. EndsWithLast(todo) => Head(todo) \in LastEntries \/ Later(Tail(todo), Head(todo).key)
    BY <1>1, <1>6
  <1>11. Head(todo) \in S /\ Head(todo) = todo[1] /\ Tail(todo) \in Seq(S) /\ Len(todo) \in Nat \ {0}
    BY <1>1
  <1>12. Len(todo) # 1 => Tail(todo) # <<>>
    BY <1>7
  <1> QED
    BY <1>8, <1>9, <1>10, <1>11, <1>12

------------------------------------------------------------------------------
\* A request moves as it has to.
Good(q, failed) == \E step, m : Moving(q, step, m, failed) /\ Keeping(q, step, m, failed)

LEMMA SameTables ==
    ASSUME SettingInv, UNCHANGED settingTables
    PROVE  /\ TablesHold(configured, ids, filled, files)' /\ ids' = ids /\ ids \in Nat /\ ids <= ids'
           /\ configured' = configured
  BY DEF SettingInv, TablesHold, settingTables

LEMMA ReceiveGood ==
    ASSUME PerRequest, SettingInv, NEW q \in Requests, NEW step \in SettingSteps, NEW t,
           Receive(q, "settings", step, t), UNCHANGED settingTables, Holds(step, t, ids),
           t.kind # "get" => \A e \in t.asked : Leaves(step, t, e.key, configured[e.key])
    PROVE  Good(q, {})
  <1>1. pc[q] = "idle" /\ Put(q, step, t)
    BY ReceivePuts
  <1>2. step # "idle" /\ pc'[q] = step /\ mem'[q] = t
    BY <1>1 DEF Put, SettingSteps, SavingSteps
  <1>3. KeysOf(q)' = IF t.kind = "get" THEN {} ELSE {e.key : e \in t.asked}
    BY <1>2 DEF KeysOf
  <1>4. Moving(q, step, t, {})
    BY <1>1, SameTables DEF Moving
  <1>5. Keeping(q, step, t, {})
    <2>1. ASSUME NEW k \in KeysOf(q)' PROVE Leaves(step, t, k, configured'[k])
      <3>1. PICK e \in t.asked : e.key = k /\ t.kind # "get"
        BY <1>3, <2>1
      <3> QED
        BY <3>1, SameTables
    <2> QED
      BY <1>2, <2>1 DEF Keeping
  <1> QED
    BY <1>4, <1>5 DEF Good

LEMMA MoveGood ==
    ASSUME PerRequest, SettingInv, NEW q \in Requests, pc[q] \in SettingSteps,
           NEW step \in SettingSteps, NEW m, Goto(q, step, m), NEW failed \in SUBSET KeySet,
           TablesHold(configured, ids, filled, files)', ids <= ids',
           \A k \in KeySet \ KeysOf(q) : configured'[k] = configured[k],
           Holds(step, m, ids'), m.asked = mem[q].asked, m.kind = mem[q].kind,
           \A k \in KeysOf(q) \ (disturbed[q] \cup failed) : Leaves(step, m, k, configured'[k])
    PROVE  Good(q, failed)
  <1>1. Put(q, step, m)
    BY GotoPuts
  <1>2. "idle" \notin SettingSteps /\ pc'[q] = step /\ mem'[q] = m
    BY <1>1 DEF Put, SettingSteps, SavingSteps
  <1>3. KeysOf(q)' = KeysOf(q)
    BY <1>2 DEF KeysOf
  <1>4. Moving(q, step, m, failed)
    BY <1>1, <1>2 DEF Moving
  <1>5. Keeping(q, step, m, failed)
    BY <1>2, <1>3 DEF Keeping
  <1> QED
    BY <1>4, <1>5 DEF Good

LEMMA EndGood ==
    ASSUME PerRequest, SettingInv, NEW q \in Requests, pc[q] \in SettingSteps,
           Answer(q), NEW failed \in SUBSET KeySet,
           TablesHold(configured, ids, filled, files)', ids <= ids',
           \A k \in KeySet \ KeysOf(q) : configured'[k] = configured[k],
           pc[q] # "checkStart" /\ Len(mem[q].todo) = 1 =>
              \A k \in KeysOf(q) \ (disturbed[q] \cup failed) : AsAnswered(Outcome(mem[q], k, configured'[k]))
    PROVE  Good(q, failed)
  <1>1. Put(q, "idle", NoMemory)
    BY AnswerPuts
  <1>2. "idle" \notin SettingSteps /\ pc'[q] = "idle"
    BY <1>1 DEF Put, SettingSteps, SavingSteps
  <1>3. Moving(q, "idle", NoMemory, failed)
    BY <1>1, <1>2 DEF Moving
  <1>4. Keeping(q, "idle", NoMemory, failed)
    BY <1>2 DEF Keeping
  <1> QED
    BY <1>3, <1>4 DEF Good

LEMMA AfterHead ==
    ASSUME NEW step, step # "logSetting", NEW m, NEW n, Holds(step, m, n), m.kind \in Writers,
           NEW k, NEW row, Leaves(step, m, k, row), Head(m.todo).key # k
    PROVE  Leaves("logSetting", m, k, row)
  <1> PICK todo, S : todo = m.todo /\ S = m.asked
    OBVIOUS
  <1>1. todo \in Seq(S) /\ todo # <<>>
    BY DEF Holds
  <1>2. Later(todo, k) => Later(Tail(todo), k)
    BY <1>1, TailIs
  <1>3. m.kind # "remove"
    BY DEF Writers
  <1>4. m.kind = "import" /\ ~m.overwrite => m.before[k] = None \/ row = m.before[k]
    BY DEF Leaves
  <1>5. ASSUME m.overwrite
        PROVE  \/ row = m.before[k] /\ Later(Tail(todo), k)
               \/ \E e \in m.asked : /\ e.key = k /\ Says(row, m.before[k], e)
                                     /\ Later(Tail(todo), k) \/ (m.kind = "script" => e \in LastEntries)
    <2>1. Rest(step, m) = todo
      BY DEF Rest
    <2>2. \/ row = m.before[k] /\ Later(todo, k)
          \/ \E e \in m.asked : /\ e.key = k /\ Says(row, m.before[k], e)
                                /\ Later(todo, k) \/ (m.kind = "script" => e \in LastEntries)
      BY <1>5, <2>1 DEF Leaves
    <2> QED
      BY <1>2, <2>2
  <1>6. Rest("logSetting", m) = Tail(todo)
    BY DEF Rest
  <1> QED
    BY <1>3, <1>4, <1>5, <1>6 DEF Leaves

\* Where the next call begins, and what the request holds then.
NextStep(m) == IF m.kind = "import" THEN "getSetting" ELSE "findSetting"
NextTask(m) == [m EXCEPT !.todo = Tail(@), !.found = None]

LEMMA TailHolds ==
    ASSUME NEW step, NEW m, NEW n, Holds(step, m, n), m.kind \in Writers, Len(m.todo) # 1
    PROVE  /\ Holds(NextStep(m), NextTask(m), n) /\ NextTask(m).asked = m.asked /\ NextTask(m).kind = m.kind
           /\ \A k, row : Leaves("logSetting", m, k, row) => Leaves(NextStep(m), NextTask(m), k, row)
  <1> PICK m2, step2 : m2 = NextTask(m) /\ step2 = NextStep(m)
    OBVIOUS
  <1> PICK todo, S, kind, before, overwrite :
         /\ todo = m.todo /\ S = m.asked /\ kind = m.kind /\ before = m.before /\ overwrite = m.overwrite
    OBVIOUS
  <1>1. m = [kind |-> kind, overwrite |-> overwrite, todo |-> todo, asked |-> S, before |-> before, found |-> m.found]
    BY DEF Holds
  <1>2. m2 = [kind |-> kind, overwrite |-> overwrite, todo |-> Tail(todo), asked |-> S, before |-> before, found |-> None]
    BY <1>1 DEF NextTask
  <1>3. /\ m2.kind = kind /\ m2.overwrite = overwrite /\ m2.todo = Tail(todo) /\ m2.asked = S
        /\ m2.before = before /\ m2.found = None
    BY <1>2
  <1>4. todo \in Seq(S) /\ todo # <<>>
    BY DEF Holds
  <1>5. kind \in {"import", "script"}
    BY DEF Holds, Writers
  <1>6. Tail(todo) \in Seq(S) /\ Tail(todo) # <<>> /\ (EndsWithLast(todo) => EndsWithLast(Tail(todo)))
    BY <1>4, TailIs
  <1>7. step2 \in StepsOf(kind) /\ step2 \notin {"removeSetting", "saveSetting", "logSetting"}
        /\ (kind = "import" => step2 = "getSetting")
    BY <1>5 DEF StepsOf, NextStep
  <1>8. /\ before \in [KeySet -> SettingRow(n) \cup {None}]
        /\ \A e \in S : e.key \in KeySet
        /\ kind = "script" => overwrite = TRUE /\ S \subseteq DefaultSet /\ EndsWithLast(todo)
        /\ kind = "import" => overwrite \in BOOLEAN /\ OneOfAKey(S) /\ \A e \in S : OfExport(e)
        /\ Alike(S) /\ \A e \in S : EntryFields(e)
    BY DEF Holds
  <1>9. Holds(step2, m2, n)
    BY <1>2, <1>3, <1>5, <1>6, <1>7, <1>8 DEF Holds, Writers
  <1>10. Rest("logSetting", m) = Tail(todo) /\ Rest(step2, m2) = Tail(todo)
    BY <1>3, <1>7 DEF Rest
  <1>11. ASSUME NEW k, NEW row, Leaves("logSetting", m, k, row) PROVE Leaves(step2, m2, k, row)
    BY <1>3, <1>5, <1>7, <1>10, <1>11 DEF Leaves
  <1> QED
    BY <1>3, <1>9, <1>11

------------------------------------------------------------------------------
LEMMA ProceedGood ==
    ASSUME PerRequest, SettingInv, NEW q \in Requests, pc[q] \in SettingSteps,
           mem[q].kind \in Writers, Proceed(q), NEW failed \in SUBSET KeySet,
           TablesHold(configured, ids, filled, files)', ids <= ids',
           \A k \in KeySet \ KeysOf(q) : configured'[k] = configured[k],
           \A k \in KeysOf(q) \ (disturbed[q] \cup failed) : Leaves("logSetting", mem[q], k, configured'[k])
    PROVE  Good(q, failed)
  <1> PICK step, m : step = pc[q] /\ m = mem[q]
    OBVIOUS
  <1>0. ids \in Nat /\ ids' \in Nat
    BY DEF SettingInv, TablesHold
  <1>1. Holds(step, m, ids) /\ Holds(step, m, ids')
    BY <1>0, HoldsOn DEF SettingInv
  <1>2. CASE Len(m.todo) = 1
    <2>1. Answer(q)
      BY <1>2 DEF Proceed
    <2>2. \A k \in KeysOf(q) \ (disturbed[q] \cup failed) : AsAnswered(Outcome(mem[q], k, configured'[k]))
      <3>1. \A k \in KeysOf(q) \ (disturbed[q] \cup failed) : AsAnswered(Outcome(m, k, configured'[k]))
        BY <1>1, <1>2, AnsweredIs
      <3> QED
        BY <3>1
    <2> QED
      BY <2>1, <2>2, EndGood
  <1>3. CASE Len(m.todo) # 1
    <2> PICK m2, step2 : m2 = NextTask(m) /\ step2 = NextStep(m)
      OBVIOUS
    <2>1. Goto(q, step2, m2)
      BY <1>3 DEF Proceed, NextTask, NextStep
    <2>2. /\ Holds(step2, m2, ids') /\ m2.asked = m.asked /\ m2.kind = m.kind
          /\ \A k, row : Leaves("logSetting", m, k, row) => Leaves(step2, m2, k, row)
      BY <1>1, <1>3, TailHolds
    <2>3. step2 \in SettingSteps
      BY DEF SettingSteps, SavingSteps, NextStep
    <2> QED
      BY <2>1, <2>2, <2>3, MoveGood
  <1> QED
    BY <1>2, <1>3

\* What the invariant says of one request.
LEMMA HeldIs ==
    ASSUME SettingInv, NEW q \in Requests, pc[q] \in SettingSteps
    PROVE  /\ Holds(pc[q], mem[q], ids)
           /\ \A k \in KeysOf(q) \ disturbed[q] : k \in KeySet /\ Leaves(pc[q], mem[q], k, configured[k])
           /\ mem[q].todo \in Seq(mem[q].asked) /\ mem[q].todo # <<>>
           /\ Head(mem[q].todo) \in mem[q].asked /\ Head(mem[q].todo).key \in KeySet
           /\ mem[q].kind # "get" => Head(mem[q].todo).key \in KeysOf(q)
  <1> PICK todo, S : todo = mem[q].todo /\ S = mem[q].asked
    OBVIOUS
  <1>1. Holds(pc[q], mem[q], ids)
    BY DEF SettingInv
  <1>2. todo \in Seq(S) /\ todo # <<>> /\ \A e \in S : e.key \in KeySet
    BY <1>1 DEF Holds
  <1>3. Head(todo) \in S
    BY <1>2, TailIs
  <1>4. mem[q].kind # "get" => Head(todo).key \in KeysOf(q)
    BY <1>3 DEF KeysOf
  <1>5. \A k \in KeysOf(q) \ disturbed[q] : k \in KeySet /\ Leaves(pc[q], mem[q], k, configured[k])
    BY KeysAre DEF SettingInv
  <1> QED
    BY <1>1, <1>2, <1>3, <1>4, <1>5

\* A step that does not write: its kinds, and the same calls to come.
LEMMA SameGood ==
    ASSUME PerRequest, SettingInv, NEW q \in Requests, pc[q] \in SettingSteps \ {"logSetting"},
           NEW step \in SettingSteps \ {"logSetting", "removeSetting", "saveSetting", "logRemovalOfSetting"},
           Goto(q, step, mem[q]), TablesHold(configured, ids, filled, files)', ids' = ids, configured' = configured,
           step \in StepsOf(mem[q].kind), mem[q].kind \in Writers \cup {"get"},
           step = "findSetting" /\ mem[q].kind = "import" /\ ~mem[q].overwrite =>
              configured[Head(mem[q].todo).key] = None
    PROVE  Good(q, {})
  <1> PICK m : m = mem[q]
    OBVIOUS
  <1>0. ids \in Nat /\ ids <= ids'
    BY DEF SettingInv, TablesHold
  <1>1. Holds(pc[q], m, ids)
    BY HeldIs
  <1>2. Holds(step, m, ids')
    BY <1>1 DEF Holds
  <1>3. ASSUME NEW k \in KeysOf(q) \ disturbed[q] PROVE Leaves(step, m, k, configured'[k])
    <2>1. Leaves(pc[q], m, k, configured[k])
      BY <1>3, HeldIs
    <2>2. Rest(step, m) = m.todo /\ Rest(pc[q], m) = m.todo
      BY DEF Rest
    <2>3. m.kind = "import" /\ ~m.overwrite =>
          /\ m.before[k] = None \/ configured[k] = m.before[k]
          /\ step = "findSetting" /\ Head(m.todo).key = k => m.before[k] = None
      BY <2>1 DEF Leaves
    <2>4. m.kind \in Writers /\ m.overwrite =>
            \/ configured[k] = m.before[k] /\ Later(m.todo, k)
            \/ \E e \in m.asked : /\ e.key = k /\ Says(configured[k], m.before[k], e)
                                  /\ Later(m.todo, k) \/ (m.kind = "script" => e \in LastEntries)
      BY <2>1, <2>2 DEF Leaves
    <2>5. step # "saveSetting" /\ m.kind # "remove"
      BY DEF Writers
    <2> QED
      BY <2>2, <2>3, <2>4, <2>5 DEF Leaves
  <1> QED
    BY <1>0, <1>2, <1>3, MoveGood

------------------------------------------------------------------------------
LEMMA RangeIs ==
    ASSUME NEW T, NEW s \in Seq(T)
    PROVE  s \in Seq(ToSet(s)) /\ ToSet(s) \subseteq T
  <1> PICK n : n = Len(s)
    OBVIOUS
  <1>1. n \in Nat /\ s \in [1 .. n -> T]
    OBVIOUS
  <1>2. ToSet(s) = {s[i] : i \in 1 .. n}
    BY <1>1 DEF ToSet
  <1>3. s \in [1 .. n -> ToSet(s)]
    BY <1>1, <1>2
  <1> QED
    BY <1>1, <1>2, <1>3

LEMMA OneIs ==
    ASSUME NEW e
    PROVE  ToSet(<<e>>) = {e} /\ <<e>> \in Seq({e}) /\ <<e>> # <<>> /\ Len(<<e>>) = 1 /\ Head(<<e>>) = e
  <1>1. DOMAIN <<e>> = {1} /\ <<e>>[1] = e
    OBVIOUS
  <1>2. ToSet(<<e>>) = {e}
    BY <1>1 DEF ToSet
  <1> QED
    BY <1>2

\* Nothing is written yet: what there was stays for the calls to come.
LEMMA NothingYet ==
    ASSUME NEW m, NEW step, m.kind # "remove", step \notin {"saveSetting", "logSetting"},
           m.before = configured, step = "findSetting" => m.kind # "import",
           NEW e \in m.asked, Later(m.todo, e.key)
    PROVE  Leaves(step, m, e.key, configured[e.key])
  BY DEF Leaves, Rest

LEMMA LaterIs ==
    ASSUME NEW s, NEW e \in ToSet(s)
    PROVE  Later(s, e.key)
  BY DEF ToSet, Later

LEMMA TablesType ==
    ASSUME SettingInv
    PROVE  /\ configured \in [KeySet -> SettingRow(ids) \cup {None}] /\ ids \in Nat
           /\ \A f \in files : FileOf(f)
  BY DEF SettingInv, TablesHold

LEMMA PutSettingGood ==
    ASSUME PerRequest, SettingInv, NEW q \in Requests, PutSetting(q)
    PROVE  Good(q, {})
  <1> PICK e \in Puts : Receive(q, "settings", "findSetting", Task("put", TRUE, <<e>>))
    BY DEF PutSetting
  <1> PICK t : t = Task("put", TRUE, <<e>>)
    OBVIOUS
  <1>1. e \in [key: KeySet, value: Texts, encrypted: BOOLEAN, required: BOOLEAN, allowed: Lists]
    BY SettingAssumption
  <1>2. /\ t = [kind |-> t.kind, overwrite |-> t.overwrite, todo |-> t.todo, asked |-> t.asked,
                before |-> t.before, found |-> t.found]
        /\ t.kind = "put" /\ t.overwrite = TRUE /\ t.before = configured
        /\ t.asked = {e} /\ t.todo \in Seq({e}) /\ t.todo # <<>> /\ Len(t.todo) = 1
    BY OneIs DEF Task
  <1>3. EntryFields(e) /\ e.key \in KeySet
    BY <1>1 DEF EntryFields
  <1>4. OneOfAKey(t.asked) /\ Alike(t.asked)
    BY <1>2 DEF OneOfAKey, Alike
  <1>5. Holds("findSetting", t, ids)
    BY <1>2, <1>3, <1>4, TablesType DEF Holds, StepsOf, Writers
  <1>6. \A f \in t.asked : Leaves("findSetting", t, f.key, configured[f.key])
    <2>1. \A f \in t.asked : Later(t.todo, f.key)
      <3>1. \A f \in ToSet(<<e>>) : Later(<<e>>, f.key)
        BY LaterIs
      <3> QED
        BY <1>2, <3>1, OneIs DEF Task
    <2> QED
      BY <1>2, <2>1, NothingYet
  <1>7. "findSetting" \in SettingSteps
    BY DEF SettingSteps
  <1> QED
    BY <1>5, <1>6, <1>7, ReceiveGood DEF PutSetting

LEMMA ReadSettingGood ==
    ASSUME PerRequest, SettingInv, NEW q \in Requests, ReadSetting(q)
    PROVE  Good(q, {})
  <1>0. PICK k \in KeySet : Receive(q, "settings", "getSetting", Task("get", FALSE, <<[key |-> k]>>))
    BY DEF ReadSetting
  <1> PICK e, t : e = [key |-> k] /\ t = Task("get", FALSE, <<e>>) /\ Receive(q, "settings", "getSetting", t)
    BY <1>0, Zenon
  <1>1. /\ t = [kind |-> t.kind, overwrite |-> t.overwrite, todo |-> t.todo, asked |-> t.asked,
                before |-> t.before, found |-> t.found]
        /\ t.kind = "get" /\ t.overwrite = FALSE /\ t.before = configured
        /\ t.asked = {e} /\ t.todo \in Seq({e}) /\ t.todo # <<>> /\ Len(t.todo) = 1
    BY OneIs DEF Task
  <1> e.key \in KeySet
    BY <1>0
  <1>2. Holds("getSetting", t, ids)
    BY <1>1, TablesType DEF Holds, StepsOf, Writers
  <1>3. "getSetting" \in SettingSteps
    BY DEF SettingSteps
  <1> QED
    BY <1>1, <1>2, <1>3, ReceiveGood DEF ReadSetting

LEMMA DeleteSettingGood ==
    ASSUME PerRequest, SettingInv, NEW q \in Requests, DeleteSetting(q)
    PROVE  Good(q, {})
  <1>0. PICK k \in KeySet : Receive(q, "settings", "findToRemoveSetting", Task("remove", TRUE, <<[key |-> k]>>))
    BY DEF DeleteSetting
  <1> PICK e, t : e = [key |-> k] /\ t = Task("remove", TRUE, <<e>>) /\ Receive(q, "settings", "findToRemoveSetting", t)
    BY <1>0, Zenon
  <1>1. /\ t = [kind |-> t.kind, overwrite |-> t.overwrite, todo |-> t.todo, asked |-> t.asked,
                before |-> t.before, found |-> t.found]
        /\ t.kind = "remove" /\ t.overwrite = TRUE /\ t.before = configured
        /\ t.asked = {e} /\ t.todo \in Seq({e}) /\ t.todo # <<>> /\ Len(t.todo) = 1 /\ Head(t.todo) = e
    BY OneIs DEF Task
  <1> e.key \in KeySet
    BY <1>0
  <1>2. Holds("findToRemoveSetting", t, ids)
    BY <1>1, TablesType DEF Holds, StepsOf, Writers
  <1>3. "findToRemoveSetting" \in SettingSteps
    BY DEF SettingSteps
  <1>4. \A f \in t.asked : Leaves("findToRemoveSetting", t, f.key, configured[f.key])
    BY <1>1 DEF Leaves, Writers
  <1> QED
    BY <1>2, <1>3, <1>4, ReceiveGood DEF DeleteSetting

LEMMA PostImportGood ==
    ASSUME PerRequest, SettingInv, NEW q \in Requests, PostImport(q)
    PROVE  Good(q, {})
  <1> PICK f \in files, overwrite \in BOOLEAN :
         Receive(q, "settings", "getSetting", Task("import", overwrite, f))
    BY DEF PostImport
  <1> PICK t : t = Task("import", overwrite, f)
    OBVIOUS
  <1>1. FileOf(f)
    BY TablesType
  <1>2. /\ t = [kind |-> t.kind, overwrite |-> t.overwrite, todo |-> t.todo, asked |-> t.asked,
                before |-> t.before, found |-> t.found]
        /\ t.kind = "import" /\ t.overwrite = overwrite /\ t.before = configured
        /\ t.asked = ToSet(f) /\ t.todo = f
    BY DEF Task
  <1>3. f \in Seq(ToSet(f)) /\ f # <<>> /\ OneOfAKey(ToSet(f)) /\ \A e \in ToSet(f) : OfExport(e)
    BY <1>1 DEF FileOf
  <1>4. \A e \in ToSet(f) : EntryFields(e) /\ e.key \in KeySet
    BY <1>3 DEF OfExport, EntryFields
  <1>5. Alike(ToSet(f))
    BY <1>3 DEF OneOfAKey, Alike
  <1>6. Holds("getSetting", t, ids)
    BY <1>2, <1>3, <1>4, <1>5, TablesType DEF Holds, StepsOf, Writers
  <1>7. \A e \in t.asked : Leaves("getSetting", t, e.key, configured[e.key])
    <2>1. \A e \in t.asked : Later(t.todo, e.key)
      BY <1>2, LaterIs
    <2> QED
      BY <1>2, <2>1, NothingYet
  <1>8. "getSetting" \in SettingSteps
    BY DEF SettingSteps
  <1> QED
    BY <1>6, <1>7, <1>8, ReceiveGood DEF PostImport

LEMMA RunScriptGood ==
    ASSUME PerRequest, SettingInv, NEW q \in Requests, RunScript(q)
    PROVE  Good(q, {})
  <1> PICK s : s = Script
    OBVIOUS
  <1>1. s \in Seq(DefaultSet) /\ Len(s) > 0 /\ EndsWithLast(s)
    BY ScriptIs
  <1>2. s = FlattenSeq([n \in 1..Len(Stages) |-> DefaultEntries(Stages[n])])
    BY DEF Script, AllStages, Stage
  <1> PICK t : t = Task("script", TRUE, s)
    OBVIOUS
  <1>3. Receive(q, "settings", "checkStart", t)
    BY <1>2 DEF RunScript
  <1>4. /\ t = [kind |-> t.kind, overwrite |-> t.overwrite, todo |-> t.todo, asked |-> t.asked,
                before |-> t.before, found |-> t.found]
        /\ t.kind = "script" /\ t.overwrite = TRUE /\ t.before = configured
        /\ t.asked = ToSet(s) /\ t.todo = s
    BY DEF Task
  <1>5. s \in Seq(ToSet(s)) /\ ToSet(s) \subseteq DefaultSet /\ s # <<>>
    BY <1>1, RangeIs
  <1>6. \A e \in ToSet(s) : EntryFields(e) /\ e.key \in KeySet
    BY <1>5, DefaultsAlike DEF EntryFields
  <1>7. Alike(ToSet(s))
    BY <1>5, DefaultsAlike DEF Alike
  <1>8. Holds("checkStart", t, ids)
    BY <1>1, <1>4, <1>5, <1>6, <1>7, TablesType DEF Holds, StepsOf, Writers
  <1>9. \A e \in t.asked : Leaves("checkStart", t, e.key, configured[e.key])
    <2>1. \A e \in t.asked : Later(t.todo, e.key)
      BY <1>4, LaterIs
    <2> QED
      BY <1>4, <2>1, NothingYet
  <1>10. "checkStart" \in SettingSteps
    BY DEF SettingSteps
  <1> QED
    BY <1>3, <1>8, <1>9, <1>10, ReceiveGood DEF RunScript

------------------------------------------------------------------------------
LEMMA ExportedIs ==
    ASSUME SettingInv, NEW k \in KeySet, configured[k] # None
    PROVE  OfExport(Exported(k)) /\ Exported(k).key = k
  <1> PICK row, list : row = configured[k] /\ list = row.allowed
    OBVIOUS
  <1>1. row \in SettingRow(ids)
    BY TablesType
  <1>2. row.value \in Texts \cup {Mask} /\ row.encrypted \in BOOLEAN /\ row.required \in BOOLEAN /\ list \in Lists
    BY <1>1 DEF SettingRow
  <1> PICK e : e = Exported(k)
    OBVIOUS
  <1>3. e = [key |-> k, value |-> IF row.encrypted THEN Mask ELSE row.value, encrypted |-> row.encrypted,
             required |-> row.required, row |-> row,
             allowed |-> IF list = NoList THEN NoList ELSE [list EXCEPT !.text = TRUE]]
    BY DEF Exported
  <1>4. NoList \in Lists
    BY DEF NoList, Lists
  <1>5. /\ [list EXCEPT !.text = TRUE] \in Lists
        /\ [list EXCEPT !.text = TRUE] = [values |-> list.values, text |-> TRUE]
    <2>1. \A l, u : l \in [values: SUBSET Texts, text: BOOLEAN] =>
             [l EXCEPT !.text = u] = [values |-> l.values, text |-> u]
      OBVIOUS
    <2>2. \A l \in [values: SUBSET Texts, text: BOOLEAN] :
             [l EXCEPT !.text = TRUE] \in [values: SUBSET Texts, text: BOOLEAN]
      OBVIOUS
    <2> QED
      BY <1>2, <2>1, <2>2, Zenon DEF Lists
  <1>6. /\ e.key = k /\ e.value = (IF row.encrypted THEN Mask ELSE row.value) /\ e.encrypted = row.encrypted
        /\ e.required = row.required /\ e.row = row
        /\ e.allowed = IF list = NoList THEN NoList ELSE [list EXCEPT !.text = TRUE]
    BY <1>3
  <1>7. EntryFields(e)
    BY <1>2, <1>4, <1>5, <1>6 DEF EntryFields
  <1>8. OfExport(e)
    BY <1>5, <1>6, <1>7 DEF OfExport
  <1> QED
    BY <1>6, <1>8

LEMMA ExportSettingsGood ==
    ASSUME PerRequest, SettingInv, NEW q \in Requests, ExportSettings(q)
    PROVE  Good(q, {})
  <1> PICK f, T : f = ExportedEntries /\ T = {Exported(k) : k \in {l \in KeySet : configured[l] # None}}
    OBVIOUS
  <1>1. f \in Seq(T) /\ Len(f) <= Len(Keys)
    BY ExportedAre
  <1>2. f \in Seq(ToSet(f)) /\ ToSet(f) \subseteq T
    BY <1>1, RangeIs
  <1>3. \A e \in T : OfExport(e) /\ e = Exported(e.key)
    BY ExportedIs
  <1>4. f # <<>> /\ files' = files \cup {f} /\ UNCHANGED <<configured, filled, ids>>
    BY DEF ExportSettings
  <1>5. FileOf(f)
    <2>1. \A e \in ToSet(f) : OfExport(e)
      BY <1>2, <1>3
    <2>2. OneOfAKey(ToSet(f))
      <3>1. ASSUME NEW e \in ToSet(f), NEW g \in ToSet(f), e.key = g.key PROVE e = g
        <4>1. e = Exported(e.key) /\ g = Exported(g.key)
          BY <1>2, <1>3
        <4> QED
          BY <3>1, <4>1, Zenon
      <3> QED
        BY <3>1 DEF OneOfAKey
    <2> QED
      BY <1>1, <1>2, <1>4, <2>1, <2>2 DEF FileOf
  <1>6. TablesHold(configured, ids, filled, files)' /\ ids <= ids'
    BY <1>4, <1>5 DEF SettingInv, TablesHold
  <1>7. pc[q] = "idle" /\ Put(q, pc[q], mem[q])
    BY ServePuts DEF ExportSettings
  <1> PICK step, m : step = pc[q] /\ m = mem[q]
    OBVIOUS
  <1>8. "idle" \notin SettingSteps
    BY DEF SettingSteps, SavingSteps
  <1>9. Moving(q, step, m, {})
    BY <1>4, <1>6, <1>7, <1>8 DEF Moving
  <1>10. Keeping(q, step, m, {})
    BY <1>7, <1>8 DEF Keeping
  <1> QED
    BY <1>9, <1>10 DEF Good

LEMMA CheckStartGood ==
    ASSUME PerRequest, SettingInv, NEW q \in Requests, CheckStart(q)
    PROVE  Good(q, {})
  <1>1. pc[q] = "checkStart"
    BY DEF CheckStart, At
  <1>2. pc[q] \in SettingSteps \ {"logSetting"} /\ "findSetting" \in SettingSteps
    BY <1>1 DEF SettingSteps
  <1>3. Holds(pc[q], mem[q], ids)
    BY <1>2, HeldIs
  <1>4. mem[q].kind = "script"
    BY <1>1, <1>3 DEF Holds, StepsOf, Writers
  <1>5. /\ TablesHold(configured, ids, filled, files)' /\ ids' = ids /\ ids <= ids'
        /\ configured' = configured
    BY SameTables DEF CheckStart
  <1>6. CASE Goto(q, "findSetting", mem[q])
    <2>1. "findSetting" \in StepsOf(mem[q].kind)
      BY <1>4 DEF StepsOf
    <2> QED
      BY <1>2, <1>4, <1>5, <1>6, <2>1, SameGood DEF Writers
  <1>7. CASE Answer(q)
    BY <1>1, <1>2, <1>5, <1>7, EndGood
  <1> QED
    BY <1>6, <1>7 DEF CheckStart

LEMMA SkipLeaves ==
    ASSUME NEW step, NEW m, NEW k, NEW row, m.kind = "import", ~m.overwrite, Leaves(step, m, k, row)
    PROVE  Leaves("logSetting", m, k, row)
  BY DEF Leaves

\* What a configuration that exists makes of a call, whether it was cached or not.
LEMMA ExistingGood ==
    ASSUME PerRequest, SettingInv, NEW q \in Requests, pc[q] \in {"getSetting", "fillSetting"}, Existing(q),
           TablesHold(configured, ids, filled, files)', ids' = ids, configured' = configured
    PROVE  Good(q, {})
  <1>1. pc[q] \in SettingSteps \ {"logSetting"} /\ "findSetting" \in SettingSteps /\ pc[q] # "checkStart"
    BY DEF SettingSteps
  <1> PICK step, m : step = pc[q] /\ m = mem[q]
    OBVIOUS
  <1>2. Holds(step, m, ids) /\ \A k \in KeysOf(q) \ disturbed[q] : Leaves(step, m, k, configured[k])
    BY <1>1, HeldIs
  <1>3. m.kind = "import" \/ (m.kind = "get" /\ ~m.overwrite /\ Len(m.todo) = 1)
    BY <1>2 DEF Holds, StepsOf, Writers
  <1>4. ids \in Nat /\ ids <= ids'
    BY DEF SettingInv, TablesHold
  <1>5. CASE m.kind = "import" /\ m.overwrite
    <2>1. Goto(q, "findSetting", m)
      BY <1>5 DEF Existing
    <2>2. "findSetting" \in StepsOf(m.kind)
      BY <1>5 DEF StepsOf
    <2> QED
      BY <1>1, <1>5, <2>1, <2>2, SameGood DEF Writers
  <1>6. CASE m.kind = "import" /\ ~m.overwrite
    <2>1. Proceed(q)
      BY <1>6 DEF Existing
    <2>2. \A k \in KeysOf(q) \ (disturbed[q] \cup {}) : Leaves("logSetting", m, k, configured'[k])
      BY <1>2, <1>6, SkipLeaves
    <2> QED
      BY <1>1, <1>4, <1>6, <2>1, <2>2, ProceedGood DEF Writers
  <1>7. CASE m.kind = "get"
    <2>1. Answer(q)
      BY <1>3, <1>7 DEF Existing, Proceed
    <2>2. KeysOf(q) = {}
      BY <1>7 DEF KeysOf
    <2> QED
      BY <1>1, <1>4, <2>1, <2>2, EndGood
  <1> QED
    BY <1>3, <1>5, <1>6, <1>7

LEMMA GetSettingGood ==
    ASSUME PerRequest, SettingInv, NEW q \in Requests, GetSetting(q)
    PROVE  Good(q, {})
  <1>1. pc[q] = "getSetting"
    BY DEF GetSetting, At
  <1>2. pc[q] \in SettingSteps \ {"logSetting"} /\ {"findSetting", "fillSetting"} \subseteq SettingSteps
    BY <1>1 DEF SettingSteps
  <1> PICK m : m = mem[q]
    OBVIOUS
  <1>3. Holds(pc[q], m, ids)
    BY <1>2, HeldIs
  <1>4. m.kind \in {"import", "get"}
    BY <1>1, <1>3 DEF Holds, StepsOf, Writers
  <1>5. /\ TablesHold(configured, ids, filled, files)' /\ ids' = ids /\ ids <= ids'
        /\ configured' = configured
    BY SameTables DEF GetSetting
  <1>6. CASE Existing(q)
    BY <1>1, <1>5, <1>6, ExistingGood
  <1>7. CASE Goto(q, "fillSetting", m)
    <2>1. "fillSetting" \in StepsOf(m.kind)
      BY <1>4 DEF StepsOf
    <2> QED
      BY <1>2, <1>4, <1>5, <1>7, <2>1, SameGood DEF Writers
  <1>8. CASE m.kind = "import" /\ configured[Head(m.todo).key] = None /\ Goto(q, "findSetting", m)
    <2>1. "findSetting" \in StepsOf(m.kind)
      BY <1>8 DEF StepsOf
    <2> QED
      BY <1>2, <1>5, <1>8, <2>1, SameGood DEF Writers
  <1>9. CASE m.kind = "get" /\ Answer(q)
    <2>1. KeysOf(q) = {}
      BY <1>9 DEF KeysOf
    <2> QED
      BY <1>2, <1>5, <1>9, <2>1, EndGood
  <1> QED
    BY <1>6, <1>7, <1>8, <1>9 DEF GetSetting

LEMMA FillSettingGood ==
    ASSUME PerRequest, SettingInv, NEW q \in Requests, FillSetting(q)
    PROVE  Good(q, {})
  <1>1. pc[q] = "fillSetting" /\ Existing(q) /\ filled' = filled \cup {Head(mem[q].todo).key}
        /\ UNCHANGED <<configured, ids, files>>
    BY DEF FillSetting, At
  <1>2. pc[q] \in SettingSteps
    BY <1>1 DEF SettingSteps
  <1>3. Head(mem[q].todo).key \in KeySet
    BY <1>2, HeldIs
  <1>4. TablesHold(configured, ids, filled, files)'
    BY <1>1, <1>3 DEF SettingInv, TablesHold
  <1> QED
    BY <1>1, <1>4, ExistingGood

------------------------------------------------------------------------------
\* The calls of a writer other than the first steps of each.
LEMMA WriterIs ==
    ASSUME SettingInv, NEW q \in Requests, pc[q] \in {"findSetting", "saveSetting", "logSetting"}
    PROVE  /\ pc[q] \in SettingSteps /\ pc[q] # "checkStart" /\ mem[q].kind \in Writers
           /\ EntryFields(Head(mem[q].todo))
  <1>1. pc[q] \in SettingSteps /\ pc[q] # "checkStart"
    BY DEF SettingSteps, SavingSteps
  <1>2. Holds(pc[q], mem[q], ids) /\ Head(mem[q].todo) \in mem[q].asked
    BY <1>1, HeldIs
  <1>3. mem[q].kind \in Writers
    BY <1>2 DEF Holds, StepsOf, Writers
  <1>4. EntryFields(Head(mem[q].todo))
    BY <1>2, <1>3 DEF Holds
  <1> QED
    BY <1>1, <1>3, <1>4

LEMMA NoneIsNoRow ==
    ASSUME NEW n, NEW row \in SettingRow(n), n \in Nat
    PROVE  row # None /\ row.id \in 1 .. n
  BY SettingAssumption DEF SettingRow

LEMMA MergedIs ==
    ASSUME SettingInv, NEW k \in KeySet, NEW e, EntryFields(e)
    PROVE  Merged(configured[k], e) \in FoundRow(ids)
  <1> PICK row : row = configured[k]
    OBVIOUS
  <1>1. ids \in Nat /\ row \in SettingRow(ids) \cup {None}
    BY TablesType
  <1>2. CASE row = None
    BY <1>1, <1>2 DEF Merged, FoundRow, EntryFields
  <1>3. CASE row # None
    <2> PICK i, list : i = row.id /\ list = row.allowed
      OBVIOUS
    <2>1. i \in 1 .. ids /\ list \in Lists
      BY <1>1, <1>3 DEF SettingRow
    <2>2. i \in 0 .. ids
      BY <1>1, <2>1
    <2> QED
      BY <1>3, <2>1, <2>2 DEF Merged, FoundRow, EntryFields
  <1> QED
    BY <1>2, <1>3

LEMMA FindSettingGood ==
    ASSUME PerRequest, SettingInv, NEW q \in Requests, FindSetting(q)
    PROVE  Good(q, {})
  <1> PICK m, e, row : m = mem[q] /\ e = Head(m.todo) /\ row = Merged(configured[e.key], e)
    OBVIOUS
  <1> PICK m2 : m2 = [m EXCEPT !.found = row]
    OBVIOUS
  <1>1. pc[q] = "findSetting" /\ Goto(q, "saveSetting", m2)
    BY DEF FindSetting, At
  <1>2. pc[q] \in SettingSteps /\ m.kind \in Writers /\ EntryFields(e) /\ "saveSetting" \in SettingSteps
    BY <1>1, WriterIs DEF SettingSteps, SavingSteps
  <1>3. Holds(pc[q], m, ids) /\ \A k \in KeysOf(q) \ disturbed[q] : Leaves(pc[q], m, k, configured[k])
    BY <1>2, HeldIs
  <1>4. /\ TablesHold(configured, ids, filled, files)' /\ ids' = ids /\ ids <= ids'
        /\ configured' = configured
    BY SameTables DEF FindSetting
  <1> PICK todo, S, kind, before, overwrite :
         /\ todo = m.todo /\ S = m.asked /\ kind = m.kind /\ before = m.before /\ overwrite = m.overwrite
    OBVIOUS
  <1>5. m = [kind |-> kind, overwrite |-> overwrite, todo |-> todo, asked |-> S, before |-> before, found |-> m.found]
    BY <1>3 DEF Holds
  <1>6. m2 = [kind |-> kind, overwrite |-> overwrite, todo |-> todo, asked |-> S, before |-> before, found |-> row]
    BY <1>5
  <1>7. /\ m2.kind = kind /\ m2.overwrite = overwrite /\ m2.todo = todo /\ m2.asked = S
        /\ m2.before = before /\ m2.found = row
    BY <1>6
  <1>8. row \in FoundRow(ids)
    BY <1>2, MergedIs DEF EntryFields
  <1>9. "saveSetting" \in StepsOf(kind)
    BY <1>2 DEF Writers, StepsOf
  <1>10. Holds("saveSetting", m2, ids')
    BY <1>1, <1>3, <1>4, <1>6, <1>7, <1>8, <1>9 DEF Holds
  <1>11. ASSUME NEW k \in KeysOf(q) \ disturbed[q] PROVE Leaves("saveSetting", m2, k, configured'[k])
    <2> PICK old : old = configured[k]
      OBVIOUS
    <2>1. Leaves("findSetting", m, k, old)
      BY <1>1, <1>3
    <2>2. Rest("saveSetting", m2) = todo /\ Rest("findSetting", m) = todo
      BY <1>7 DEF Rest
    <2>3. e.key = k => row = Merged(old, e)
      OBVIOUS
    <2>4. kind = "import" /\ ~overwrite =>
            /\ before[k] = None \/ old = before[k]
            /\ e.key = k => before[k] = None
      BY <2>1 DEF Leaves
    <2>5. overwrite =>
            \/ old = before[k] /\ Later(todo, k)
            \/ \E f \in S : /\ f.key = k /\ Says(old, before[k], f)
                            /\ Later(todo, k) \/ (kind = "script" => f \in LastEntries)
      BY <1>2, <2>1, <2>2 DEF Leaves
    <2>6. kind # "remove"
      BY <1>2 DEF Writers
    <2>7. Leaves("saveSetting", m2, k, old)
      BY <1>7, <2>2, <2>3, <2>4, <2>5, <2>6 DEF Leaves
    <2> QED
      BY <1>4, <2>7
  <1>12. PICK next \in SettingSteps :
           /\ Goto(q, next, m2) /\ Holds(next, m2, ids')
           /\ \A k \in KeysOf(q) \ (disturbed[q] \cup {}) : Leaves(next, m2, k, configured'[k])
    BY <1>1, <1>2, <1>10, <1>11, Zenon
  <1>13. /\ m2.asked = mem[q].asked /\ m2.kind = mem[q].kind
         /\ \A k \in KeySet \ KeysOf(q) : configured'[k] = configured[k]
    BY <1>4, <1>7
  <1>14. {} \in SUBSET KeySet
    OBVIOUS
  <1> QED
    BY <1>2, <1>4, <1>12, <1>13, <1>14, MoveGood

\* What a write makes of the table.
LEMMA PutRowHolds ==
    ASSUME SettingInv, NEW k \in KeySet, NEW row \in FoundRow(ids), PutRow(k, row),
           filled' \in SUBSET filled, files' = files
    PROVE  /\ TablesHold(configured, ids, filled, files)' /\ ids <= ids' /\ ids' \in Nat
           /\ \A l \in KeySet \ {k} : configured'[l] = configured[l]
           /\ configured'[k] # None
           /\ configured'[k].value = row.value /\ configured'[k].encrypted = row.encrypted
           /\ configured'[k].required = row.required /\ configured'[k].allowed = row.allowed
  <1> PICK n, id, value, encrypted, required, allowed :
         /\ n = ids /\ id = row.id /\ value = row.value /\ encrypted = row.encrypted
         /\ required = row.required /\ allowed = row.allowed
    OBVIOUS
  <1>1. /\ row = [id |-> id, value |-> value, encrypted |-> encrypted, required |-> required, allowed |-> allowed]
        /\ id \in 0 .. n /\ value \in Texts \cup {Mask} /\ encrypted \in BOOLEAN /\ required \in BOOLEAN
        /\ allowed \in Lists
    BY DEF FoundRow
  <1>2. n \in Nat /\ configured \in [KeySet -> SettingRow(n) \cup {None}]
    BY TablesType
  <1> PICK id2, n2, new : /\ id2 = (IF id = 0 THEN n + 1 ELSE id) /\ n2 = (IF id = 0 THEN n + 1 ELSE n)
                          /\ new = [row EXCEPT !.id = id2]
    OBVIOUS
  <1>3. n2 \in Nat /\ n <= n2 /\ id2 \in 1 .. n2
    BY <1>1, <1>2
  <1>4. new = [id |-> id2, value |-> value, encrypted |-> encrypted, required |-> required, allowed |-> allowed]
    BY <1>1
  <1>5. new \in SettingRow(n2) /\ SettingRow(n) \subseteq SettingRow(n2)
    BY <1>1, <1>2, <1>3, <1>4 DEF SettingRow
  <1>6. configured' = [configured EXCEPT ![k] = new] /\ ids' = n2
    BY DEF PutRow
  <1>7. configured' \in [KeySet -> SettingRow(n2) \cup {None}]
    BY <1>2, <1>5, <1>6
  <1>8. TablesHold(configured, ids, filled, files)'
    BY <1>3, <1>6, <1>7 DEF SettingInv, TablesHold
  <1>9. configured'[k] = new /\ \A l \in KeySet \ {k} : configured'[l] = configured[l]
    BY <1>2, <1>6
  <1>10. new # None
    BY <1>3, <1>5, NoneIsNoRow
  <1> QED
    BY <1>3, <1>4, <1>6, <1>8, <1>9, <1>10

------------------------------------------------------------------------------
\* A key that nobody disturbed has, once it is written, what its last entry so far asks.
LEMMA SaveLeaves ==
    ASSUME NEW m, NEW n, Holds("saveSetting", m, n), m.kind \in Writers,
           NEW k, k = Head(m.todo).key, NEW old, Leaves("saveSetting", m, k, old),
           NEW row, row # None, row.value = m.found.value, row.encrypted = m.found.encrypted,
           row.required = m.found.required, row.allowed = m.found.allowed
    PROVE  Leaves("logSetting", m, k, row)
  <1> PICK todo, S, e, b : todo = m.todo /\ S = m.asked /\ e = Head(todo) /\ b = m.before[k]
    OBVIOUS
  <1>1. todo \in Seq(S) /\ todo # <<>> /\ (m.kind = "script" => EndsWithLast(todo)) /\ Alike(S)
    BY DEF Holds
  <1>2. e \in S /\ e.key = k /\ (m.kind = "script" => e \in LastEntries \/ Later(Tail(todo), k))
    BY <1>1, TailIs
  <1>3. m.found = Merged(old, e)
    BY DEF Leaves
  <1>4. /\ m.found.value = e.value /\ m.found.encrypted = e.encrypted /\ m.found.required = e.required
        /\ m.found.allowed = IF e.allowed = NoList /\ old # None THEN old.allowed ELSE e.allowed
    BY <1>3 DEF Merged
  <1>5. m.kind # "remove" /\ Rest("logSetting", m) = Tail(todo) /\ Rest("saveSetting", m) = todo
    BY DEF Writers, Rest
  <1>6. m.kind = "import" /\ ~m.overwrite => b = None
    BY <1>2 DEF Leaves
  <1>7. ASSUME m.overwrite PROVE Says(row, b, e)
    <2>1. old = b \/ \E f \in S : f.key = k /\ Says(old, b, f)
      BY <1>7, <1>5 DEF Leaves
    <2>2. CASE old = b
      BY <1>4, <2>2 DEF Says, Kept
    <2>3. ASSUME NEW f \in S, f.key = k, Says(old, b, f) PROVE Says(row, b, e)
      <3>1. f.allowed = e.allowed
        BY <1>1, <1>2, <2>3 DEF Alike
      <3>2. old # None /\ old.allowed = Kept(b, f)
        BY <2>3 DEF Says
      <3>3. old.allowed = Kept(b, e)
        BY <3>1, <3>2 DEF Kept
      <3>4. m.found.allowed = Kept(b, e)
        BY <1>4, <3>2, <3>3 DEF Kept
      <3> QED
        BY <1>4, <3>4 DEF Says
    <2> QED
      BY <2>1, <2>2, <2>3
  <1>8. m.overwrite => \E f \in S : /\ f.key = k /\ Says(row, b, f)
                                    /\ Later(Tail(todo), k) \/ (m.kind = "script" => f \in LastEntries)
    BY <1>2, <1>7
  <1> QED
    BY <1>5, <1>6, <1>8 DEF Leaves

\* What a write leaves: the history of the keys of its request, whoever wrote them.
LEMMA PutRowLeaves ==
    ASSUME SettingInv, NEW q \in Requests, pc[q] = "saveSetting",
           PutRow(Head(mem[q].todo).key, mem[q].found), filled' \in SUBSET filled, files' = files
    PROVE  /\ TablesHold(configured, ids, filled, files)' /\ ids <= ids' /\ ids' \in Nat
           /\ \A k \in KeySet \ KeysOf(q) : configured'[k] = configured[k]
           /\ \A k \in KeysOf(q) \ disturbed[q] : Leaves("logSetting", mem[q], k, configured'[k])
  <1> PICK m, head, row : m = mem[q] /\ head = Head(m.todo).key /\ row = m.found
    OBVIOUS
  <1>1. pc[q] \in SettingSteps /\ m.kind \in Writers
    BY WriterIs
  <1>2. Holds("saveSetting", m, ids) /\ head \in KeySet
    BY <1>1, HeldIs
  <1>3. head \in KeysOf(q)
    BY <1>1, HeldIs DEF Writers
  <1>4. row \in FoundRow(ids)
    BY <1>2 DEF Holds
  <1>5. /\ TablesHold(configured, ids, filled, files)' /\ ids <= ids' /\ ids' \in Nat
        /\ \A l \in KeySet \ {head} : configured'[l] = configured[l]
        /\ configured'[head] # None
        /\ configured'[head].value = row.value /\ configured'[head].encrypted = row.encrypted
        /\ configured'[head].required = row.required /\ configured'[head].allowed = row.allowed
    BY <1>2, <1>4, PutRowHolds
  <1>6. ASSUME NEW k \in KeysOf(q) \ disturbed[q] PROVE Leaves("logSetting", m, k, configured'[k])
    <2> PICK old, new : old = configured[k] /\ new = configured'[k]
      OBVIOUS
    <2>1. k \in KeySet /\ Leaves("saveSetting", m, k, old)
      BY <1>1, <1>6, HeldIs
    <2>2. CASE k = head
      <3>1. new # None /\ new.value = row.value /\ new.encrypted = row.encrypted
            /\ new.required = row.required /\ new.allowed = row.allowed
        BY <1>5, <2>2
      <3> QED
        BY <1>1, <1>2, <2>1, <2>2, <3>1, SaveLeaves
    <2>3. CASE k # head
      <3>1. new = old
        BY <1>5, <2>1, <2>3
      <3> QED
        BY <1>1, <1>2, <2>1, <2>3, <3>1, AfterHead
    <2> QED
      BY <2>2, <2>3
  <1> QED
    BY <1>3, <1>5, <1>6

LEMMA SaveSettingGood ==
    ASSUME PerRequest, SettingInv, NEW q \in Requests, SaveSetting(q)
    PROVE  Good(q, {})
  <1>1. pc[q] = "saveSetting" /\ PutRow(Head(mem[q].todo).key, mem[q].found) /\ Goto(q, "logSetting", mem[q])
        /\ files' = files /\ filled' \in SUBSET filled
    BY DEF SaveSetting, At
  <1> PICK m : m = mem[q]
    OBVIOUS
  <1>2. pc[q] \in SettingSteps /\ m.kind \in Writers /\ "logSetting" \in SettingSteps
    BY <1>1, WriterIs DEF SettingSteps
  <1>3. /\ TablesHold(configured, ids, filled, files)' /\ ids <= ids' /\ ids' \in Nat
        /\ \A k \in KeySet \ KeysOf(q) : configured'[k] = configured[k]
        /\ \A k \in KeysOf(q) \ disturbed[q] : Leaves("logSetting", m, k, configured'[k])
    BY <1>1, PutRowLeaves
  <1>4. Holds("saveSetting", m, ids')
    BY <1>1, <1>2, <1>3, HeldIs, HoldsOn, TablesType
  <1>5. "logSetting" \in StepsOf(m.kind)
    BY <1>2 DEF Writers, StepsOf
  <1>6. Holds("logSetting", m, ids')
    BY <1>4, <1>5 DEF Holds
  <1>7. PICK next \in SettingSteps :
           /\ Goto(q, next, m) /\ Holds(next, m, ids')
           /\ \A k \in KeysOf(q) \ (disturbed[q] \cup {}) : Leaves(next, m, k, configured'[k])
    BY <1>1, <1>2, <1>3, <1>6, Zenon
  <1>8. {} \in SUBSET KeySet
    OBVIOUS
  <1> QED
    BY <1>2, <1>3, <1>7, <1>8, MoveGood

LEMMA LogSettingGood ==
    ASSUME PerRequest, SettingInv, NEW q \in Requests, LogSetting(q)
    PROVE  Good(q, {})
  <1>1. pc[q] = "logSetting" /\ Proceed(q)
    BY DEF LogSetting, At
  <1>2. pc[q] \in SettingSteps /\ mem[q].kind \in Writers
    BY <1>1, WriterIs
  <1>3. /\ TablesHold(configured, ids, filled, files)' /\ ids <= ids' /\ configured' = configured
    BY SameTables DEF LogSetting
  <1>4. \A k \in KeysOf(q) \ (disturbed[q] \cup {}) : Leaves("logSetting", mem[q], k, configured'[k])
    BY <1>1, <1>2, <1>3, HeldIs
  <1> QED
    BY <1>1, <1>2, <1>3, <1>4, ProceedGood

------------------------------------------------------------------------------
LEMMA RefuseSettingGood ==
    ASSUME PerRequest, SettingInv, NEW q \in Requests, RefuseSetting(q)
    PROVE  Good(q, {})
  <1> PICK m, head : m = mem[q] /\ head = Head(m.todo).key
    OBVIOUS
  <1>1. pc[q] = "saveSetting" /\ ~RowFits(head, m.found) /\ Throws(q)
    BY DEF RefuseSetting, At
  <1>2. pc[q] \in SettingSteps /\ pc[q] # "checkStart" /\ m.kind \in Writers
    BY <1>1, WriterIs
  <1>3. Holds("saveSetting", m, ids)
    BY <1>1, <1>2, HeldIs
  <1>4. /\ TablesHold(configured, ids, filled, files)' /\ ids <= ids' /\ configured' = configured
    BY SameTables DEF RefuseSetting
  <1>5. ASSUME NEW k \in KeysOf(q) \ (disturbed[q] \cup {}) PROVE Leaves("logSetting", m, k, configured'[k])
    <2>1. Leaves("saveSetting", m, k, configured[k])
      BY <1>1, <1>2, <1>5, HeldIs
    <2>2. CASE head = k
      <3> PICK old, e : old = configured[k] /\ e = Head(m.todo)
        OBVIOUS
      <3>1. m.found = Merged(old, e)
        BY <2>1, <2>2 DEF Leaves
      <3>2. old # None /\ m.found.id # old.id
        BY <1>1, <2>2 DEF RowFits
      <3> QED
        BY <3>1, <3>2 DEF Merged
    <2>3. CASE head # k
      <3>1. Leaves("logSetting", m, k, configured[k])
        BY <1>2, <1>3, <2>1, <2>3, AfterHead
      <3> QED
        BY <1>4, <3>1
    <2> QED
      BY <2>2, <2>3
  <1>6. CASE m.kind = "import"
    <2>1. Proceed(q)
      BY <1>1, <1>6 DEF Throws
    <2> QED
      BY <1>2, <1>4, <1>5, <2>1, ProceedGood
  <1>7. CASE m.kind # "import"
    <2>1. Answer(q)
      BY <1>1, <1>7 DEF Throws
    <2>2. Len(m.todo) = 1 =>
            \A k \in KeysOf(q) \ (disturbed[q] \cup {}) : AsAnswered(Outcome(m, k, configured'[k]))
      BY <1>2, <1>3, <1>5, AnsweredIs
    <2> QED
      BY <1>2, <1>4, <2>1, <2>2, EndGood
  <1> QED
    BY <1>6, <1>7

LEMMA EntryFailsGood ==
    ASSUME PerRequest, SettingInv, NEW q \in Requests, EntryFails(q)
    PROVE  Good(q, {Head(mem[q].todo).key})
  <1> PICK m, head, failed : m = mem[q] /\ head = Head(m.todo).key /\ failed = {head}
    OBVIOUS
  <1>1. /\ pc[q] \in {"getSetting", "findSetting", "saveSetting", "logSetting"}
        /\ m.kind = "import" /\ Proceed(q)
    BY DEF EntryFails
  <1>2. pc[q] \in SettingSteps /\ m.kind \in Writers
    BY <1>1 DEF SettingSteps, SavingSteps, Writers
  <1>3. Holds(pc[q], m, ids) /\ failed \in SUBSET KeySet
    BY <1>2, HeldIs
  <1>4. CASE UNCHANGED settingTables
    <2>1. /\ TablesHold(configured, ids, filled, files)' /\ ids <= ids' /\ configured' = configured
      BY <1>4, SameTables
    <2>2. ASSUME NEW k \in KeysOf(q) \ (disturbed[q] \cup failed) PROVE Leaves("logSetting", m, k, configured'[k])
      <3>1. Leaves(pc[q], m, k, configured[k]) /\ head # k
        BY <1>2, <2>2, HeldIs
      <3>2. Leaves("logSetting", m, k, configured[k])
        BY <1>2, <1>3, <3>1, AfterHead
      <3> QED
        BY <2>1, <3>2
    <2> QED
      BY <1>1, <1>2, <1>3, <2>1, <2>2, ProceedGood
  <1>5. CASE At(q, "saveSetting") /\ PutRow(head, m.found) /\ UNCHANGED <<filled, files>>
    <2>1. /\ TablesHold(configured, ids, filled, files)' /\ ids <= ids' /\ ids' \in Nat
          /\ \A k \in KeySet \ KeysOf(q) : configured'[k] = configured[k]
          /\ \A k \in KeysOf(q) \ disturbed[q] : Leaves("logSetting", m, k, configured'[k])
      BY <1>5, PutRowLeaves DEF At
    <2>2. \A k \in KeysOf(q) \ (disturbed[q] \cup failed) : Leaves("logSetting", m, k, configured'[k])
      BY <2>1
    <2> QED
      BY <1>1, <1>2, <1>3, <2>1, <2>2, ProceedGood
  <1> QED
    BY <1>4, <1>5 DEF EntryFails

------------------------------------------------------------------------------
\* The removal of a key.
LEMMA RemoverIs ==
    ASSUME SettingInv, NEW q \in Requests,
           pc[q] \in {"findToRemoveSetting", "removeSetting", "logRemovalOfSetting"}
    PROVE  /\ pc[q] \in SettingSteps /\ pc[q] # "checkStart" /\ mem[q].kind = "remove"
           /\ KeysOf(q) = {Head(mem[q].todo).key} /\ Head(mem[q].todo).key \in KeySet
  <1>1. pc[q] \in SettingSteps /\ pc[q] # "checkStart"
    BY DEF SettingSteps, SavingSteps
  <1>2. Holds(pc[q], mem[q], ids) /\ Head(mem[q].todo).key \in KeySet
    BY <1>1, HeldIs
  <1>3. mem[q].kind = "remove"
    BY <1>2 DEF Holds, StepsOf, Writers
  <1>4. mem[q].asked = {Head(mem[q].todo)}
    BY <1>2, <1>3 DEF Holds
  <1> QED
    BY <1>1, <1>2, <1>3, <1>4 DEF KeysOf

LEMMA RemovedIs ==
    ASSUME NEW m, m.kind = "remove", NEW k
    PROVE  AsAnswered(Outcome(m, k, None))
  <1>1. Outcome(m, k, None).kind = "remove" /\ Outcome(m, k, None).after = None
    BY DEF Outcome
  <1> QED
    BY <1>1 DEF AsAnswered

LEMMA FindToRemoveSettingGood ==
    ASSUME PerRequest, SettingInv, NEW q \in Requests, FindToRemoveSetting(q)
    PROVE  Good(q, {})
  <1> PICK m, k, row : m = mem[q] /\ k = Head(m.todo).key /\ row = configured[k]
    OBVIOUS
  <1>1. pc[q] = "findToRemoveSetting"
    BY DEF FindToRemoveSetting, At
  <1>2. pc[q] \in SettingSteps /\ pc[q] # "checkStart" /\ m.kind = "remove" /\ KeysOf(q) = {k} /\ k \in KeySet
    BY <1>1, RemoverIs
  <1>3. Holds("findToRemoveSetting", m, ids)
    BY <1>1, <1>2, HeldIs
  <1>4. /\ TablesHold(configured, ids, filled, files)' /\ ids' = ids /\ ids <= ids'
        /\ configured' = configured
    BY SameTables DEF FindToRemoveSetting
  <1>5. CASE row # None /\ Goto(q, "removeSetting", [m EXCEPT !.found = row])
    <2> PICK m2 : m2 = [m EXCEPT !.found = row]
      OBVIOUS
    <2> PICK todo, S, kind, before, overwrite :
           /\ todo = m.todo /\ S = m.asked /\ kind = m.kind /\ before = m.before /\ overwrite = m.overwrite
      OBVIOUS
    <2>1. m = [kind |-> kind, overwrite |-> overwrite, todo |-> todo, asked |-> S, before |-> before, found |-> m.found]
      BY <1>3 DEF Holds
    <2>2. m2 = [kind |-> kind, overwrite |-> overwrite, todo |-> todo, asked |-> S, before |-> before, found |-> row]
      BY <2>1
    <2>3. /\ m2.kind = kind /\ m2.overwrite = overwrite /\ m2.todo = todo /\ m2.asked = S
          /\ m2.before = before /\ m2.found = row
      BY <2>2
    <2>4. row \in SettingRow(ids)
      BY <1>2, <1>5, TablesType
    <2>5. Holds("removeSetting", m2, ids')
      BY <1>2, <1>3, <1>4, <2>2, <2>3, <2>4 DEF Holds, StepsOf, Writers
    <2>6. Leaves("removeSetting", m2, k, configured'[k])
      BY <1>2, <1>4, <2>3 DEF Leaves, Writers
    <2>7. "removeSetting" \in SettingSteps
      BY DEF SettingSteps, SavingSteps
    <2>8. PICK next \in SettingSteps :
             /\ Goto(q, next, m2) /\ Holds(next, m2, ids')
             /\ \A l \in KeysOf(q) \ (disturbed[q] \cup {}) : Leaves(next, m2, l, configured'[l])
      BY <1>2, <1>5, <2>5, <2>6, <2>7
    <2>9. {} \in SUBSET KeySet
      OBVIOUS
    <2> QED
      BY <1>2, <1>4, <2>3, <2>8, <2>9, MoveGood
  <1>6. CASE row = None /\ Answer(q)
    <2>1. \A l \in KeysOf(q) \ (disturbed[q] \cup {}) : AsAnswered(Outcome(m, l, configured'[l]))
      BY <1>2, <1>4, <1>6, RemovedIs
    <2> QED
      BY <1>2, <1>4, <1>6, <2>1, EndGood
  <1> QED
    BY <1>5, <1>6 DEF FindToRemoveSetting

------------------------------------------------------------------------------
\* What a removal makes of the table.
LEMMA WithoutRowHolds ==
    ASSUME SettingInv, NEW q \in Requests, pc[q] = "removeSetting",
           configured' = WithoutRow(Head(mem[q].todo).key, mem[q].found),
           ids' = ids, filled' \in SUBSET filled, files' = files
    PROVE  /\ TablesHold(configured, ids, filled, files)' /\ ids <= ids'
           /\ \A k \in KeySet \ KeysOf(q) : configured'[k] = configured[k]
           /\ configured[Head(mem[q].todo).key] = mem[q].found => configured'[Head(mem[q].todo).key] = None
  <1> PICK k, row : k = Head(mem[q].todo).key /\ row = mem[q].found
    OBVIOUS
  <1>1. KeysOf(q) = {k} /\ k \in KeySet
    BY RemoverIs
  <1>2. configured \in [KeySet -> SettingRow(ids) \cup {None}] /\ ids \in Nat
    BY TablesType
  <1>3. configured' = [configured EXCEPT ![k] = None] \/ configured' = configured
    BY DEF WithoutRow
  <1>4. configured' \in [KeySet -> SettingRow(ids) \cup {None}]
    BY <1>2, <1>3
  <1>5. TablesHold(configured, ids, filled, files)'
    BY <1>4 DEF SettingInv, TablesHold
  <1>6. \A l \in KeySet \ {k} : configured'[l] = configured[l]
    BY <1>2, <1>3
  <1>7. configured[k] = row => configured'[k] = None
    BY <1>1, <1>2 DEF WithoutRow
  <1> QED
    BY <1>1, <1>2, <1>5, <1>6, <1>7

LEMMA RemoveSettingGood ==
    ASSUME PerRequest, SettingInv, NEW q \in Requests, RemoveSetting(q)
    PROVE  Good(q, {})
  <1> PICK m, k : m = mem[q] /\ k = Head(m.todo).key
    OBVIOUS
  <1>1. /\ pc[q] = "removeSetting" /\ configured' = WithoutRow(k, m.found)
        /\ Goto(q, "logRemovalOfSetting", m) /\ ids' = ids /\ files' = files /\ filled' \in SUBSET filled
    BY DEF RemoveSetting, At
  <1>2. pc[q] \in SettingSteps /\ m.kind = "remove" /\ KeysOf(q) = {k} /\ k \in KeySet
    BY <1>1, RemoverIs
  <1>3. /\ Holds("removeSetting", m, ids)
        /\ \A l \in KeysOf(q) \ disturbed[q] : Leaves("removeSetting", m, l, configured[l])
    BY <1>1, <1>2, HeldIs
  <1>4. /\ TablesHold(configured, ids, filled, files)' /\ ids <= ids'
        /\ \A l \in KeySet \ KeysOf(q) : configured'[l] = configured[l]
        /\ configured[k] = m.found => configured'[k] = None
    BY <1>1, WithoutRowHolds
  <1>5. Holds("logRemovalOfSetting", m, ids')
    BY <1>1, <1>2, <1>3 DEF Holds, StepsOf, Writers
  <1>6. ASSUME NEW l \in KeysOf(q) \ disturbed[q] PROVE Leaves("logRemovalOfSetting", m, l, configured'[l])
    <2>1. l = k /\ configured[k] = m.found
      BY <1>2, <1>3, <1>6 DEF Leaves
    <2>2. configured'[l] = None
      BY <1>4, <2>1
    <2> QED
      BY <1>2, <2>2 DEF Leaves, Writers
  <1>7. "logRemovalOfSetting" \in SettingSteps
    BY DEF SettingSteps
  <1>8. PICK next \in SettingSteps :
           /\ Goto(q, next, m) /\ Holds(next, m, ids')
           /\ \A l \in KeysOf(q) \ (disturbed[q] \cup {}) : Leaves(next, m, l, configured'[l])
    BY <1>1, <1>5, <1>6, <1>7, Zenon
  <1>9. {} \in SUBSET KeySet
    OBVIOUS
  <1> QED
    BY <1>2, <1>4, <1>8, <1>9, MoveGood

LEMMA LogRemovalOfSettingGood ==
    ASSUME PerRequest, SettingInv, NEW q \in Requests, LogRemovalOfSetting(q)
    PROVE  Good(q, {})
  <1>1. pc[q] = "logRemovalOfSetting" /\ Answer(q)
    BY DEF LogRemovalOfSetting, At
  <1>2. pc[q] \in SettingSteps /\ mem[q].kind = "remove"
    BY <1>1, RemoverIs
  <1>3. /\ TablesHold(configured, ids, filled, files)' /\ ids <= ids' /\ configured' = configured
    BY SameTables DEF LogRemovalOfSetting
  <1>4. ASSUME NEW k \in KeysOf(q) \ (disturbed[q] \cup {}) PROVE AsAnswered(Outcome(mem[q], k, configured'[k]))
    <2>1. Leaves("logRemovalOfSetting", mem[q], k, configured[k])
      BY <1>1, <1>2, <1>4, HeldIs
    <2>2. configured[k] = None
      BY <1>2, <2>1 DEF Leaves
    <2>3. AsAnswered(Outcome(mem[q], k, None))
      BY <1>2, RemovedIs
    <2> QED
      BY <1>3, <2>2, <2>3
  <1> QED
    BY <1>1, <1>2, <1>3, <1>4, EndGood

------------------------------------------------------------------------------
LEMMA SettingInterruptedInv ==
    ASSUME PerRequest, SettingInv, NEW q \in Requests, SettingInterrupted(q)
    PROVE  SettingInv'
  <1>1. /\ pc[q] \in SettingSteps /\ disturbed' = [disturbed EXCEPT ![q] = {}]
        /\ filled' = filled /\ files' = files /\ outcomes' = outcomes
    BY DEF SettingInterrupted
  <1>2. Put(q, "idle", NoMemory)
    BY InterruptedPuts DEF SettingInterrupted
  <1>3. /\ TablesHold(configured, ids, filled, files)' /\ ids <= ids'
        /\ \A k \in KeySet \ KeysOf(q) : configured'[k] = configured[k]
    <2>1. CASE UNCHANGED <<configured, ids>>
      BY <1>1, <2>1 DEF SettingInv, TablesHold
    <2>2. CASE At(q, "saveSetting") /\ PutRow(Head(mem[q].todo).key, mem[q].found)
      BY <1>1, <2>2, PutRowLeaves DEF At
    <2>3. CASE /\ At(q, "removeSetting")
               /\ configured' = WithoutRow(Head(mem[q].todo).key, mem[q].found)
               /\ UNCHANGED ids
      BY <1>1, <2>3, WithoutRowHolds DEF At
    <2> QED
      BY <2>1, <2>2, <2>3 DEF SettingInterrupted
  <1> PICK step, m : step = "idle" /\ m = NoMemory
    OBVIOUS
  <1>4. Moving(q, step, m, {})
    BY <1>2, <1>3 DEF Moving, SettingSteps, SavingSteps
  <1>5. disturbed \in [Requests -> SUBSET KeySet]
    BY DEF SettingInv
  <1>6. disturbed' \in [Requests -> SUBSET KeySet] /\ \A r \in Requests \ {q} : disturbed'[r] = disturbed[r]
    BY <1>1, <1>5
  <1>7. pc'[q] = "idle" /\ "idle" \notin SettingSteps
    BY <1>2 DEF Put, SettingSteps, SavingSteps
  <1>8. KeysOf(q)' = {}
    BY <1>7 DEF KeysOf
  <1>9. \A r \in Requests \ {q} : KeysOf(r)' = KeysOf(r)
    BY <1>2, KeysStay
  <1>10. ASSUME NEW r \in Requests, NEW p \in Requests, r # p PROVE KeysOf(r)' \cap KeysOf(p)' \subseteq disturbed'[r]
    <2>1. CASE r = q \/ p = q
      BY <1>8, <2>1
    <2>2. CASE r # q /\ p # q
      <3>1. KeysOf(r) \cap KeysOf(p) \subseteq disturbed[r]
        BY <1>10 DEF SettingInv
      <3> QED
        BY <1>6, <1>9, <2>2, <3>1
    <2> QED
      BY <2>1, <2>2
  <1>11. ASSUME NEW r \in Requests
         PROVE  /\ pc'[r] \in SettingSteps => Holds(pc[r], mem[r], ids)'
                /\ \A k \in KeysOf(r)' \ disturbed'[r] : Leaves(pc'[r], mem'[r], k, configured'[k])
    <2>1. CASE r = q
      BY <1>7, <1>8, <2>1
    <2>2. CASE r # q
      <3>1. disturbed[r] \subseteq disturbed'[r]
        BY <1>6, <2>2
      <3> QED
        BY <1>4, <2>2, <3>1, OthersLeave
    <2> QED
      BY <2>1, <2>2
  <1>12. \A o \in outcomes' : o.kind \in Writers \cup {"remove"} /\ AsAnswered(o)
    BY <1>1 DEF SettingInv
  <1> QED
    BY <1>3, <1>6, <1>10, <1>11, <1>12 DEF SettingInv

LEMMA SettingNextInv == Base /\ SettingInv /\ [Next]_vars => SettingInv'
  <1> SUFFICES ASSUME Base, SettingInv, [Next]_vars PROVE SettingInv'
    OBVIOUS
  <1>0. PerRequest
    BY DEF Base
  <1>1. CASE ~SettingStep
    <2>1. UNCHANGED settingVars /\ Apart(SettingSteps)
      BY <1>1, SettingApart
    <2>2. /\ configured' = configured /\ ids' = ids /\ filled' = filled /\ files' = files
          /\ disturbed' = disturbed /\ outcomes' = outcomes
      BY <2>1 DEF settingVars
    <2>3. \A q \in Requests : /\ pc[q] \in SettingSteps <=> pc'[q] \in SettingSteps
                              /\ pc[q] \in SettingSteps => pc'[q] = pc[q] /\ mem'[q] = mem[q]
      BY <2>1 DEF Apart
    <2>4. \A q \in Requests : KeysOf(q)' = KeysOf(q)
      BY <2>3 DEF KeysOf
    <2>5. \A q \in Requests : pc'[q] \in SettingSteps => Holds(pc'[q], mem'[q], ids')
      BY <2>2, <2>3 DEF SettingInv
    <2>6. ASSUME NEW q \in Requests, NEW k \in KeysOf(q)' \ disturbed'[q]
          PROVE  Leaves(pc'[q], mem'[q], k, configured'[k])
      <3>1. pc[q] \in SettingSteps
        BY <2>4, <2>6 DEF KeysOf
      <3>2. Leaves(pc[q], mem[q], k, configured[k])
        BY <2>2, <2>4, <2>6 DEF SettingInv
      <3> QED
        BY <2>2, <2>3, <3>1, <3>2
    <2>7. \A q, r \in Requests : q # r => KeysOf(q)' \cap KeysOf(r)' \subseteq disturbed'[q]
      BY <2>2, <2>4 DEF SettingInv
    <2>8. TablesHold(configured, ids, filled, files)'
      BY <2>2 DEF SettingInv, TablesHold
    <2>9. disturbed' \in [Requests -> SUBSET KeySet] /\ \A o \in outcomes' : o.kind \in Writers \cup {"remove"} /\ AsAnswered(o)
      BY <2>2 DEF SettingInv
    <2> QED
      BY <2>5, <2>6, <2>7, <2>8, <2>9 DEF SettingInv
  <1>2. CASE SettingStep
    <2>1. ASSUME NEW q \in Requests, NEW failed, Good(q, failed), SettingHistory(failed) PROVE SettingInv'
      BY <2>1, SettingAdvance DEF Good
    <2>2. ASSUME NEW q \in Requests, SettingCall(q) PROVE Good(q, {})
      BY <1>0, <2>2, PutSettingGood, ReadSettingGood, PostImportGood, RunScriptGood, CheckStartGood,
         GetSettingGood, FillSettingGood, FindSettingGood, SaveSettingGood, LogSettingGood, RefuseSettingGood,
         DeleteSettingGood, FindToRemoveSettingGood, RemoveSettingGood, LogRemovalOfSettingGood,
         ExportSettingsGood DEF SettingCall
    <2>3. ASSUME NEW q \in Requests, EntryFails(q) PROVE Good(q, {Head(mem[q].todo).key})
      BY <1>0, <2>3, EntryFailsGood
    <2>4. CASE SettingNext
      <3>1. PICK q \in Requests : \/ SettingCall(q) /\ SettingHistory({})
                                  \/ EntryFails(q) /\ SettingHistory({Head(mem[q].todo).key})
        BY <2>4 DEF SettingNext
      <3>2. CASE SettingCall(q) /\ SettingHistory({})
        <4>1. PICK none : none = {}
          OBVIOUS
        <4> QED
          BY <2>1, <2>2, <3>2, <4>1
      <3>3. CASE EntryFails(q) /\ SettingHistory({Head(mem[q].todo).key})
        BY <2>1, <2>3, <3>3
      <3> QED
        BY <3>1, <3>2, <3>3
    <2>5. ASSUME NEW q \in Requests, SettingInterrupted(q) PROVE SettingInv'
      BY <1>0, <2>5, SettingInterruptedInv
    <2> QED
      BY <1>2, <2>4, <2>5 DEF SettingStep
  <1> QED
    BY <1>1, <1>2

LEMMA SettingInvariant == Spec => []SettingInv
  BY BaseInit, BaseStep, SettingInitInv, SettingNextInv, PTL DEF Spec

\* What requests leave of the keys that no other request was writing meanwhile is what they
\* answer, however many keys, requests, environments and defaults there are and whatever
\* tables there were before: an import that overwrites brings back what was exported, the
\* script leaves the values of its last environment, and a server that could start with
\* what was asked can start with what is left (ConfigurationController.ts lines 74 to 152
\* and 410 to 512, initializeConfigurations.ts, ConfigurationService.ts lines 164 to 309).
THEOREM SettingsAlwaysAsAnswered == Spec => []SettingsAsAnswered
  <1>1. SettingInv => SettingsAsAnswered
    BY DEF SettingInv, SettingsAsAnswered, AsAnswered
  <1> QED
    BY <1>1, SettingInvariant, PTL

------------------------------------------------------------------------------
BackSteps == {"idle"} \cup ReferralSteps \cup NoticeSteps \cup FlagSteps \cup ReportSteps \cup FraudSteps
    \cup LimitSteps \cup SettingSteps \cup MonitorSteps \cup UsageSteps

LEMMA BackStepsKept ==
    ASSUME Base, pc \in [Requests -> BackSteps], [Next]_vars
    PROVE  pc' \in [Requests -> BackSteps]
  <1>1. \E S \in SUBSET BackSteps : Within(S)
    BY StepWithin DEF BackSteps
  <1>2. PICK S \in SUBSET BackSteps : Within(S)
    BY <1>1
  <1>3. "idle" \in BackSteps
    BY DEF BackSteps
  <1>4. \A q \in Requests : pc'[q] \in BackSteps
    BY <1>2, <1>3 DEF Within
  <1> QED
    BY <1>2, <1>4 DEF Within, PerRequest

\* An alert's row about to be saved is one of the table.
RowHeld(step, m) == step = "saveReview" => m.row \in Alert
AlertRows ==
    /\ \A i \in Raised : alerts[i] \in Alert
    /\ \A q \in Requests : RowHeld(pc[q], mem[q])

LEMMA AlertRowsPut ==
    ASSUME AlertRows, NEW q \in Requests, NEW step, NEW m, Put(q, step, m), RowHeld(step, m),
           NEW rows, alerts' = rows, \A i \in AlertIds : rows[i] # None => rows[i] \in Alert
    PROVE  AlertRows'
  BY DEF AlertRows, Put, Raised

LEMMA AlertRowsStay ==
    ASSUME Base, AlertRows, NEW q \in Requests, NEW step, NEW m,
           Put(q, step, m), step # "saveReview", UNCHANGED alerts
    PROVE  AlertRows'
  BY DEF AlertRows, RowHeld, Put, Raised

LEMMA AlertRowsStep ==
    ASSUME Base, FraudInv, AlertRows, FraudStep
    PROVE  AlertRows'
  <1> PICK q \in Requests :
        \/ PostCheck(q) \/ ReadSettings(q) \/ InsertSettings(q) \/ ApplyRules(q)
        \/ CreateFraudAlert(q) \/ CheckRateLimitingPatterns(q) \/ RateAgain(q) \/ BanPayer(q)
        \/ BanAddress(q) \/ PutSettings(q) \/ UpdateMerchantConfig(q) \/ PatchReview(q)
        \/ ReviewFraudAlert(q) \/ GetFraudStats(q) \/ FraudInterrupted(q)
    BY DEF FraudStep, FraudNext
  <1>0. PerRequest
    BY DEF Base
  <1>1. CASE PostCheck(q) \/ PutSettings(q)
    <2>1. UNCHANGED alerts /\ \E m : Receive(q, "fraud", "readSettings", m)
      BY <1>1 DEF PostCheck, PutSettings, fraudVars
    <2> QED
      BY <1>0, <2>1, ReceivePuts, AlertRowsStay
  <1>2. CASE ReadSettings(q) \/ InsertSettings(q)
    <2>1. mem[q].then \in {"applyRules", "saveSettings"}
      BY <1>2 DEF ReadSettings, InsertSettings, At, Base, FraudThen, ThenHeld
    <2>2. UNCHANGED alerts /\ \E step \in {"insertSettings", mem[q].then} : \E m : Goto(q, step, m) \/ Answer(q)
      BY <1>2 DEF ReadSettings, InsertSettings, fraudVars
    <2> QED
      BY <1>0, <2>1, <2>2, GotoPuts, AnswerPuts, AlertRowsStay
  <1>3. CASE ApplyRules(q)
    <2>1. UNCHANGED alerts /\ \E m : Goto(q, "saveAlert", m) \/ Goto(q, "ratePatterns", m) \/ Answer(q)
      BY <1>3, Zenon DEF ApplyRules
    <2> QED
      BY <1>0, <2>1, GotoPuts, AnswerPuts, AlertRowsStay
  <1>4. CASE CreateFraudAlert(q)
    <2>1. mem[q] \in Check
      BY <1>4, CheckIs DEF CreateFraudAlert, At, Before2nd
    <2>2. mem[q].level \in Levels /\ mem[q].score \in 0 .. 100 /\ mem[q].case.amount \in Nat
      BY <2>1, FraudAssumption DEF Check, FraudAssumption
    <2> DEFINE row == [level |-> mem[q].level, status |-> "blocked", score |-> mem[q].score,
                       amount |-> mem[q].case.amount]
    <2>3. row \in Alert
      BY <2>2 DEF Alert
    <2> HIDE DEF row
    <2>4. PICK i \in AlertIds : alerts' = [alerts EXCEPT ![i] = row]
      BY <1>4, <2>1 DEF CreateFraudAlert, Check, row
    <2>5. \E m : Goto(q, "ratePatterns", m) \/ Answer(q)
      BY <1>4, Zenon DEF CreateFraudAlert
    <2>6. \E step \in {"ratePatterns", "idle"} : \E m : Put(q, step, m)
      BY <1>0, <2>5, GotoPuts, AnswerPuts
    <2> PICK rows : rows = alerts'
      OBVIOUS
    <2>7. \A j \in AlertIds : rows[j] # None => rows[j] \in Alert
      BY <2>3, <2>4 DEF AlertRows, Raised, FraudInv, FraudTables
    <2> QED
      BY <2>6, <2>7, AlertRowsPut DEF RowHeld
  <1>5. CASE CheckRateLimitingPatterns(q) \/ RateAgain(q) \/ BanPayer(q)
    <2>1. UNCHANGED alerts /\ \E step \in {"rateAgain", "banPayer", "banAddress"} : \E m : Goto(q, step, m)
      BY <1>5, Zenon DEF CheckRateLimitingPatterns, RateAgain, BanPayer, fraudVars
    <2> QED
      BY <1>0, <2>1, GotoPuts, AlertRowsStay
  <1>6. CASE BanAddress(q) \/ UpdateMerchantConfig(q) \/ FraudInterrupted(q)
    <2>1. UNCHANGED alerts /\ Answer(q)
      BY <1>6 DEF BanAddress, UpdateMerchantConfig, FraudInterrupted, Interrupted, fraudVars
    <2> QED
      BY <1>0, <2>1, AnswerPuts, AlertRowsStay
  <1>7. CASE PatchReview(q)
    <2>1. PICK i \in Raised, st \in {"approved", "pending"} :
             Receive(q, "fraud", "saveReview", [id |-> i, row |-> [alerts[i] EXCEPT !.status = st]])
      BY <1>7 DEF PatchReview
    <2> DEFINE row == [alerts[i] EXCEPT !.status = st]
    <2>2. row \in Alert
      BY DEF AlertRows, Alert
    <2> HIDE DEF row
    <2>3. Put(q, "saveReview", [id |-> i, row |-> row]) /\ UNCHANGED alerts
      BY <1>0, <1>7, <2>1, ReceivePuts DEF PatchReview, fraudVars, row
    <2> PICK rows : rows = alerts'
      OBVIOUS
    <2>4. \A j \in AlertIds : rows[j] # None => rows[j] \in Alert
      BY <2>3 DEF AlertRows, Raised
    <2> QED
      BY <2>2, <2>3, <2>4, AlertRowsPut DEF RowHeld
  <1>8. CASE ReviewFraudAlert(q)
    <2>1. mem[q].row \in Alert /\ alerts' = [alerts EXCEPT ![mem[q].id] = mem[q].row]
      BY <1>8 DEF ReviewFraudAlert, At, AlertRows, RowHeld
    <2>2. Put(q, "idle", NoMemory)
      BY <1>0, <1>8, AnswerPuts DEF ReviewFraudAlert
    <2> PICK rows : rows = alerts'
      OBVIOUS
    <2>3. \A j \in AlertIds : rows[j] # None => rows[j] \in Alert
      BY <2>1 DEF AlertRows, Raised, FraudInv, FraudTables
    <2> QED
      BY <2>2, <2>3, AlertRowsPut DEF RowHeld
  <1>9. CASE GetFraudStats(q)
    <2>1. UNCHANGED <<alerts, pc, mem>>
      BY <1>0, <1>9, ServePuts DEF GetFraudStats
    <2> QED
      BY <2>1 DEF AlertRows, RowHeld, Raised
  <1> QED
    BY <1>1, <1>2, <1>3, <1>4, <1>5, <1>6, <1>7, <1>8, <1>9

LEMMA AlertRowsNext == Base /\ FraudInv /\ AlertRows /\ [Next]_vars => AlertRows'
  <1> SUFFICES ASSUME Base, AlertRows, [Next]_vars, ~FraudStep PROVE AlertRows'
    BY AlertRowsStep
  <1>1. UNCHANGED fraudVars /\ Apart(FraudSteps)
    BY FraudApart
  <1> QED
    BY <1>1 DEF AlertRows, RowHeld, Raised, fraudVars, Apart, FraudSteps

------------------------------------------------------------------------------
\* What is counted and measured, and the lists of it, which do not outgrow their bounds.
RouteCounters ==
    {c \in [count: Nat, errors: Nat, latencies: Seq(Nat)] :
        /\ c.errors <= c.count /\ Len(c.latencies) <= LatenciesKept
        /\ c.count > 0 => c.latencies # <<>>}
Bounded(S, most) == {s \in Seq(S) : Len(s) <= most}
SeriesPoints == [ts: Nat, value: Nat]
Counts == [r \in Routes |-> counters[r].count]

GaugeInv ==
    /\ clock \in 0 .. LastTick
    /\ counters \in [Routes -> RouteCounters]
    /\ totalRequests = Sum(Counts, Routes)
    /\ recent \in Seq(0 .. clock) /\ Len(recent) <= totalRequests
    /\ series \in [Names -> Bounded(SeriesPoints, PointsKept)]

LEMMA PushedIs ==
    ASSUME NEW S, NEW x \in S, NEW most \in Nat \ {0}, NEW s \in Bounded(S, most)
    PROVE  Pushed(s, x, most) \in Bounded(S, most) /\ Pushed(s, x, most) # <<>>
  <1>1. s \in Seq(S) /\ Len(s) \in Nat /\ Len(s) <= most
    BY DEF Bounded
  <1>2. CASE Len(s) = most
    <2>1. Tail(s) \in Seq(S) /\ Len(Tail(s)) = most - 1
      BY <1>1, <1>2
    <2>2. Append(Tail(s), x) \in Seq(S) /\ Len(Append(Tail(s), x)) = most
      BY <2>1
    <2> QED
      BY <1>2, <2>2 DEF Pushed, Bounded
  <1>3. CASE Len(s) # most
    <2>1. Append(s, x) \in Seq(S) /\ Len(Append(s, x)) = Len(s) + 1 /\ Len(s) + 1 <= most
      BY <1>1, <1>3
    <2>2. Append(s, x) # <<>>
      BY <2>1
    <2> QED
      BY <1>1, <1>3, <2>1, <2>2 DEF Pushed, Bounded
  <1> QED
    BY <1>2, <1>3

LEMMA LastMinuteIs ==
    ASSUME NEW T, NEW s \in Seq(T), NEW kept \in LastMinute(s)
    PROVE  kept \in Seq(T) /\ Len(kept) <= Len(s)
  <1>1. PICK n \in 1 .. Len(s) : kept = SubSeq(s, n, Len(s))
    BY DEF LastMinute
  <1> QED
    BY <1>1

\* Nothing was counted yet: what the process starts with.
LEMMA GaugesStart ==
    ASSUME clock' \in 0 .. LastTick, counters' = NoCounters, totalRequests' = 0, recent' = <<>>, series' = NoSeries
    PROVE  GaugeInv'
  <1>1. [count |-> 0, errors |-> 0, latencies |-> <<>>] \in RouteCounters
    BY MonitorAssumption DEF RouteCounters, MonitorAssumption
  <1>2. <<>> \in Bounded(SeriesPoints, PointsKept)
    BY MonitorAssumption DEF Bounded, MonitorAssumption
  <1>3. Sum(Counts', Routes) = 0
    <2> DEFINE w == Counts'
    <2>1. \A r \in Routes : w[r] = 0
      BY DEF Counts, NoCounters
    <2> HIDE DEF w
    <2>2. Sum(w, {}) = Sum(w, Routes)
      BY <2>1, SumOfPart, MonitorAssumption DEF MonitorAssumption
    <2> QED
      BY <2>2, SumEmpty DEF w
  <1> QED
    BY <1>1, <1>2, <1>3 DEF GaugeInv, NoCounters, NoSeries

LEMMA GaugeInit == Init => GaugeInv
  <1> SUFFICES ASSUME Init PROVE GaugeInv
    OBVIOUS
  <1>1. clock = 0 /\ counters = NoCounters /\ totalRequests = 0 /\ recent = <<>> /\ series = NoSeries
    BY DEF Init, MonitorInit
  <1>2. [count |-> 0, errors |-> 0, latencies |-> <<>>] \in RouteCounters
    BY MonitorAssumption DEF RouteCounters, MonitorAssumption
  <1>3. <<>> \in Bounded(SeriesPoints, PointsKept)
    BY MonitorAssumption DEF Bounded, MonitorAssumption
  <1>4. Sum(Counts, Routes) = 0
    <2>1. \A r \in Routes : Counts[r] = 0
      BY <1>1 DEF Counts, NoCounters
    <2>2. Sum(Counts, {}) = Sum(Counts, Routes)
      BY <2>1, SumOfPart, MonitorAssumption DEF MonitorAssumption
    <2> QED
      BY <2>2, SumEmpty
  <1> QED
    BY <1>1, <1>2, <1>3, <1>4, MonitorAssumption DEF GaugeInv, NoCounters, NoSeries, MonitorAssumption

\* A response adds one to the sum of the counts.
LEMMA OneMore ==
    ASSUME NEW v \in [Routes -> Nat], NEW w \in [Routes -> Nat], NEW r \in Routes,
           w[r] = v[r] + 1, \A k \in Routes \ {r} : w[k] = v[k]
    PROVE  Sum(w, Routes) = Sum(v, Routes) + 1
  <1> DEFINE OtherRoutes == Routes \ {r}
  <1>1. IsFiniteSet(Routes) /\ IsFiniteSet(OtherRoutes)
    BY FS_RemoveElement, MonitorAssumption DEF MonitorAssumption
  <1>2. Sum(w, Routes) = w[r] + Sum(w, OtherRoutes) /\ Sum(v, Routes) = v[r] + Sum(v, OtherRoutes)
    BY <1>1, SumWithout
  <1>3. Sum(w, OtherRoutes) = Sum(v, OtherRoutes) /\ Sum(v, OtherRoutes) \in Nat
    BY <1>1, SumSame, SumType
  <1> HIDE DEF OtherRoutes
  <1> QED
    BY <1>2, <1>3

LEMMA CountsType == GaugeInv => /\ Counts \in [Routes -> Nat]
                                /\ totalRequests \in Nat
  <1> SUFFICES ASSUME GaugeInv PROVE Counts \in [Routes -> Nat] /\ totalRequests \in Nat
    OBVIOUS
  <1>1. Counts \in [Routes -> Nat]
    BY DEF GaugeInv, RouteCounters, Counts
  <1> QED
    BY <1>1, SumType, MonitorAssumption DEF GaugeInv, MonitorAssumption

LEMMA ObserveKeeps ==
    ASSUME GaugeInv, NEW q \in Requests, ObserveRequest(q)
    PROVE  GaugeInv'
  <1> PICK r \in Routes, duration \in Latencies, failed \in BOOLEAN :
        /\ counters' = [counters EXCEPT ![r] =
              [count |-> @.count + 1,
               errors |-> @.errors + (IF failed THEN 1 ELSE 0),
               latencies |-> Pushed(@.latencies, duration, LatenciesKept)]]
        /\ totalRequests' = totalRequests + 1
        /\ \E kept \in LastMinute(Append(recent, clock)) : recent' = kept
        /\ UNCHANGED <<clock, series>>
    BY DEF ObserveRequest
  <1> DEFINE c == counters[r]
             row == [count |-> c.count + 1, errors |-> c.errors + (IF failed THEN 1 ELSE 0),
                     latencies |-> Pushed(c.latencies, duration, LatenciesKept)]
  <1>1. /\ c.count \in Nat /\ c.errors \in Nat /\ c.errors <= c.count
        /\ c.latencies \in Bounded(Nat, LatenciesKept)
    BY DEF GaugeInv, RouteCounters, Bounded
  <1>2. /\ Pushed(c.latencies, duration, LatenciesKept) \in Bounded(Nat, LatenciesKept)
        /\ Pushed(c.latencies, duration, LatenciesKept) # <<>>
    BY <1>1, PushedIs, MonitorAssumption DEF MonitorAssumption
  <1>3. row \in RouteCounters
    BY <1>1, <1>2 DEF RouteCounters, Bounded
  <1>4. counters' = [counters EXCEPT ![r] = row] /\ row.count = counters[r].count + 1
    OBVIOUS
  <1> HIDE DEF row, c
  <1>5. Append(recent, clock) \in Seq(0 .. clock) /\ Len(Append(recent, clock)) = Len(recent) + 1
    BY MonitorAssumption DEF GaugeInv, MonitorAssumption
  <1>6. recent' \in Seq(0 .. clock) /\ Len(recent') <= Len(recent) + 1
    BY <1>5, LastMinuteIs
  <1>7. Len(recent) \in Nat /\ Len(recent') \in Nat
    BY <1>6 DEF GaugeInv
  <1>8. Len(recent') <= totalRequests'
    BY <1>6, <1>7, CountsType DEF GaugeInv
  <1>9. counters' \in [Routes -> RouteCounters]
    BY <1>3, <1>4 DEF GaugeInv
  <1>10. Counts' \in [Routes -> Nat] /\ Counts \in [Routes -> Nat]
    BY <1>9, CountsType DEF RouteCounters, Counts
  <1>11. Counts'[r] = Counts[r] + 1 /\ \A k \in Routes \ {r} : Counts'[k] = Counts[k]
    BY <1>4, <1>9 DEF Counts, GaugeInv
  <1>12. totalRequests' = Sum(Counts', Routes)
    BY <1>10, <1>11, OneMore DEF GaugeInv
  <1> QED
    BY <1>6, <1>8, <1>9, <1>12 DEF GaugeInv

LEMMA SampledIs ==
    ASSUME GaugeInv, NEW n \in Names, NEW v \in Nat
    PROVE  Sampled(n, v) \in Bounded(SeriesPoints, PointsKept)
  <1>1. [ts |-> clock, value |-> v] \in SeriesPoints /\ series[n] \in Bounded(SeriesPoints, PointsKept)
    BY MonitorAssumption DEF GaugeInv, SeriesPoints, MonitorAssumption
  <1> QED
    BY <1>1, PushedIs, MonitorAssumption DEF Sampled, MonitorAssumption

LEMMA GaugeNext == GaugeInv /\ [Next]_vars => GaugeInv'
  <1> SUFFICES ASSUME GaugeInv, [Next]_vars PROVE GaugeInv'
    OBVIOUS
  <1>0. ASSUME UNCHANGED <<clock, counters, totalRequests, recent>>,
               series' \in [Names -> Bounded(SeriesPoints, PointsKept)]
        PROVE  GaugeInv'
    BY <1>0 DEF GaugeInv, Counts
  <1>1. ASSUME UNCHANGED <<clock, counters, totalRequests, recent, series>> PROVE GaugeInv'
    BY <1>0, <1>1 DEF GaugeInv
  <1>2. CASE MonitorStep
    <2>1. CASE Pass
      <3>1. /\ clock + 1 \in 0 .. LastTick /\ clock' = clock + 1
            /\ UNCHANGED <<counters, totalRequests, recent, series>>
        BY <2>1, MonitorAssumption DEF Pass, GaugeInv, MonitorAssumption
      <3>2. recent \in Seq(0 .. clock')
        BY <3>1, MonitorAssumption DEF GaugeInv, MonitorAssumption
      <3> QED
        BY <3>1, <3>2 DEF GaugeInv, Counts
    <2>2. ASSUME Restart PROVE GaugeInv'
      BY <2>2, GaugesStart DEF Restart, GaugeInv
    <2>3. ASSUME NEW q \in Requests, CollectSystemResources(q) PROVE GaugeInv'
      <3>1. PICK x \in Samples : series' = [series EXCEPT !["cpu_percent"] = Sampled("cpu_percent", x.cpu),
                                                          !["memory_heap"] = Sampled("memory_heap", x.heap)]
        BY <2>3 DEF CollectSystemResources
      <3>2. x.cpu \in Nat /\ x.heap \in Nat /\ "cpu_percent" \in Names /\ "memory_heap" \in Names
        BY MonitorAssumption DEF MonitorAssumption, Names
      <3>3. /\ Sampled("cpu_percent", x.cpu) \in Bounded(SeriesPoints, PointsKept)
            /\ Sampled("memory_heap", x.heap) \in Bounded(SeriesPoints, PointsKept)
        BY <3>2, SampledIs
      <3>4. UNCHANGED <<clock, counters, totalRequests, recent>>
        BY <2>3 DEF CollectSystemResources
      <3>5. series' \in [Names -> Bounded(SeriesPoints, PointsKept)]
        BY <3>1, <3>3 DEF GaugeInv
      <3> QED
        BY <1>0, <3>4, <3>5
    <2>4. ASSUME NEW q \in Requests, CheckDatabase(q) \/ CheckRedis(q) \/ CheckStellar(q) PROVE GaugeInv'
      <3>1. "database" \in Names /\ "redis" \in Names /\ "stellar" \in Names
            /\ Latencies \subseteq Nat /\ Quick \subseteq Nat
        BY MonitorAssumption DEF Names, MonitorAssumption
      <3>2. UNCHANGED <<clock, counters, totalRequests, recent>>
        BY <2>4 DEF CheckDatabase, CheckRedis, CheckStellar
      <3>3. \/ UNCHANGED series
            \/ \E n \in Names, v \in Nat : series' = [series EXCEPT ![n] = Sampled(n, v)]
        BY <2>4, <3>1 DEF CheckDatabase, CheckRedis, CheckStellar
      <3>4. series' \in [Names -> Bounded(SeriesPoints, PointsKept)]
        BY <3>3, SampledIs DEF GaugeInv
      <3> QED
        BY <1>0, <3>2, <3>4
    <2>5. ASSUME NEW q \in Requests,
                 MaybeAlert(q) \/ GetSummary(q) \/ CompareCpu(q) \/ CompareMemory(q) \/ CompareDatabase(q)
          PROVE  GaugeInv'
      BY <1>1, <2>5 DEF MaybeAlert, GetSummary, CompareCpu, CompareMemory, CompareDatabase, monitorVars
    <2> QED
      BY <1>2, <2>1, <2>2, <2>3, <2>4, <2>5, ObserveKeeps
         DEF MonitorStep, MonitorNext, MonitorInterrupted, ThresholdUnreadable
  <1>3. CASE ~MonitorStep
    <2>1. UNCHANGED monitorVars
      BY <1>3, Zenon DEF Next, ReferralStep, NoticeStep, FlagStep, ReportStep, FraudStep, LimitStep, SettingStep,
                         UsageStep, vars
    <2> QED
      BY <1>1, <2>1 DEF monitorVars
  <1> QED
    BY <1>2, <1>3

------------------------------------------------------------------------------
TypeInv == pc \in [Requests -> BackSteps] /\ AlertRows /\ GaugeInv

LEMMA TypeInitInv == Init => TypeInv
  <1> SUFFICES ASSUME Init PROVE TypeInv
    OBVIOUS
  <1>1. pc \in [Requests -> {"idle"}]
    BY DEF Init, HandlersInit
  <1>2. AlertRows
    <2>1. alerts = [i \in AlertIds |-> None]
      BY DEF Init, FraudInit, FraudIdle
    <2> QED
      BY <1>1, <2>1 DEF AlertRows, RowHeld, Raised
  <1> QED
    BY <1>1, <1>2, GaugeInit DEF TypeInv, BackSteps

\* What every table and every count of the office is of, and that lists do not outgrow their
\* bounds, in every state of every number of requests (the types of the entities, and
\* MetricsService.ts lines 113 to 156 and 508 to 518 for the lists).
THEOREM TypesCorrect == Spec => []TypeOK
  <1>1. Base /\ FraudInv /\ TypeInv /\ [Next]_vars => TypeInv'
    BY BackStepsKept, AlertRowsNext, GaugeNext DEF TypeInv
  <1>2. Spec => []TypeInv
    BY <1>1, BaseInit, BaseStep, TypeInitInv, FraudInitInv, FraudNextInv, PTL DEF Spec
  <1>3. Spec => []NoticeInv
    BY BaseInit, BaseStep, NoticeInitInv, NoticeNextInv, PTL DEF Spec
  <1>4. Spec => []FlagTypes
    <2>1. FlagInv => FlagTypes
      BY DEF FlagInv
    <2> QED
      BY <2>1, BaseInit, BaseStep, FlagInitInv, FlagNextInv, PTL DEF Spec
  <1>5. /\ TypeInv /\ ReferralInv /\ NoticeInv /\ FlagTypes /\ ReportInv /\ FraudInv
        /\ LimitInv /\ SettingInv /\ MonitorInv /\ UsageInv
        => TypeOK
    <2> SUFFICES ASSUME TypeInv, ReferralInv, NoticeInv, FlagTypes, ReportInv, FraudInv,
                        LimitInv, SettingInv, MonitorInv, UsageInv
                 PROVE  TypeOK
      OBVIOUS
    <2>1. ReferralTypeOK
      BY DEF ReferralInv, ReferralTypes, ReferralTypeOK, Issued, Stored
    <2>2. NoticeTypeOK
      BY DEF NoticeInv, NoticeTypeOK
    <2>3. FlagTypeOK
      BY DEF FlagTypes, FlagTypeOK
    <2>4. ReportTypeOK
      BY DEF ReportInv
    <2>5. FraudTypeOK
      BY DEF FraudInv, SettingsThere, TypeInv, AlertRows, FraudTypeOK
    <2>6. LimitTypeOK
      BY DEF LimitInv, LimitTypes, LimitTypeOK, Configured
    <2>7. SettingTypeOK
      BY DEF SettingInv, TablesHold, FileOf, Writers, SettingTypeOK
    <2>8. MonitorTypeOK
      <3>1. clock \in 0 .. LastTick
        BY DEF TypeInv, GaugeInv
      <3>2. \A r \in Routes : counters[r].errors <= counters[r].count
                              /\ Len(counters[r].latencies) <= LatenciesKept
        BY DEF TypeInv, GaugeInv, RouteCounters
      <3>3. \A i \in 1 .. Len(recent) : recent[i] <= clock
        BY <3>1, MonitorAssumption DEF TypeInv, GaugeInv, MonitorAssumption
      <3>4. \A n \in Names : Len(series[n]) <= PointsKept
        BY DEF TypeInv, GaugeInv, Bounded
      <3>5. alertedAt \in [AlertKeys -> 0 .. LastTick \cup {None}]
        <4>1. \A k \in AlertKeys : alertedAt[k] # None => alertedAt[k] \in 0 .. LastTick
          BY <3>1, MonitorAssumption DEF MonitorInv, AlertInv, MonitorAssumption
        <4> QED
          BY <4>1 DEF MonitorInv, AlertInv
      <3>6. \A d \in Dependencies : external[d].status \in {"OK", "FAIL"}
        BY DEF MonitorInv, Statuses
      <3>7. \A x \in warnings : x.key \in AlertKeys
        BY DEF MonitorInv, AlertInv
      <3> QED
        BY <3>1, <3>2, <3>3, <3>4, <3>5, <3>6, <3>7, Zenon DEF MonitorTypeOK
    <2>9. UsageTypeOK
      BY DEF UsageInv, Table, Anyone, UsageTypeOK, Refused
    <2>10. pc \in [Requests -> BackSteps]
      BY DEF TypeInv
    <2> QED
      BY <2>1, <2>2, <2>3, <2>4, <2>5, <2>6, <2>7, <2>8, <2>9, <2>10, Zenon DEF TypeOK, BackSteps
  <1> QED
    BY <1>2, <1>3, <1>4, <1>5, ReferralInvariant, ReportInvariant, FraudInvariant, LimitInvariant,
       SettingInvariant, MonitorInvariant, UsageInvariant, PTL

------------------------------------------------------------------------------
LEMMA LeastIs ==
    ASSUME NEW S \in SUBSET Nat, S # {}
    PROVE  LeastOf(S) \in S /\ \A v \in S : LeastOf(S) <= v
  BY SmallestNumber DEF LeastOf

LEMMA GreatestIs ==
    ASSUME NEW S \in SUBSET Nat, S # {}, IsFiniteSet(S)
    PROVE  GreatestOf(S) \in S /\ \A v \in S : GreatestOf(S) >= v
  <1> DEFINE C == {T \in SUBSET S : T = {} \/ \E m \in T : \A v \in T : m >= v}
  <1>1. {} \in C
    OBVIOUS
  <1>2. ASSUME NEW T \in SUBSET S, NEW x \in T, T \ {x} \in C PROVE T \in C
    <2>1. CASE T \ {x} = {}
      <3>1. \A v \in T : x >= v
        BY <2>1
      <3> QED
        BY <3>1
    <2>2. CASE T \ {x} # {}
      <3>1. PICK m \in T \ {x} : \A v \in T \ {x} : m >= v
        BY <1>2, <2>2
      <3>2. CASE m >= x
        <4>1. \A v \in T : m >= v
          BY <3>1, <3>2
        <4> QED
          BY <4>1
      <3>3. CASE ~(m >= x)
        <4>1. \A v \in T : x >= v
          BY <3>1, <3>3
        <4> QED
          BY <4>1
      <3> QED
        BY <3>2, <3>3
    <2> QED
      BY <2>1, <2>2
  <1>3. S \in C
    <2> HIDE DEF C
    <2> QED
      BY <1>1, <1>2, FiniteInduction
  <1> QED
    BY <1>3 DEF GreatestOf

LEMMA AverageWithin ==
    ASSUME NEW D, IsFiniteSet(D), D # {}, NEW f \in [D -> Nat]
    PROVE  LeastOf(Range(f)) <= Average(f) /\ Average(f) <= GreatestOf(Range(f))
  <1> DEFINE lo == LeastOf(Range(f))
             hi == GreatestOf(Range(f))
  <1>0. Range(f) \in SUBSET Nat /\ Range(f) # {} /\ IsFiniteSet(Range(f)) /\ \A d \in D : f[d] \in Range(f)
    BY FiguresRange
  <1>1. lo \in Nat /\ hi \in Nat /\ \A d \in D : f[d] \in Nat /\ lo <= f[d] /\ f[d] <= hi
    <2>1. lo \in Range(f) /\ \A v \in Range(f) : lo <= v
      BY <1>0, LeastIs
    <2>2. hi \in Range(f) /\ \A v \in Range(f) : hi >= v
      BY <1>0, GreatestIs
    <2> QED
      BY <1>0, <2>1, <2>2
  <1>2. Cardinality(D) \in Nat \ {0} /\ Sum(f, D) \in Nat
    BY FS_CardinalityType, FS_EmptySet, SumType
  <1> HIDE DEF lo, hi
  <1>3. lo * Cardinality(D) <= Sum(f, D) /\ Sum(f, D) <= hi * Cardinality(D)
    BY <1>1, SumWithin
  <1>4. Average(f) = Sum(f, D) \div Cardinality(D)
    BY FoldIsSum DEF Average
  <1>5. lo <= Average(f) /\ Average(f) <= hi
    BY <1>1, <1>2, <1>3, <1>4, QuotientWithin
  <1> QED
    BY <1>5 DEF lo, hi

LEMMA PercentileIsOne ==
    ASSUME NEW D, IsFiniteSet(D), D # {}, NEW f \in [D -> Nat]
    PROVE  Percentile(f) \in Range(f)
  <1> DEFINE n == Cardinality(D)
             place == (95 * (n - 1)) \div 100
             UpTo(v) == {i \in D : f[i] <= v}
             Far == {v \in Range(f) : Cardinality(UpTo(v)) > place}
             hi == GreatestOf(Range(f))
  <1>1. Range(f) \in SUBSET Nat /\ hi \in Range(f) /\ \A d \in D : f[d] <= hi
    <2>1. Range(f) \in SUBSET Nat /\ Range(f) # {} /\ IsFiniteSet(Range(f)) /\ \A d \in D : f[d] \in Range(f)
      BY FiguresRange
    <2>2. hi \in Range(f) /\ \A v \in Range(f) : hi >= v
      BY <2>1, GreatestIs
    <2> QED
      BY <2>1, <2>2
  <1>2. UpTo(hi) = D
    BY <1>1
  <1>3. n \in Nat \ {0}
    BY FS_CardinalityType, FS_EmptySet
  <1>4. n > place
    BY <1>3
  <1>5. hi \in Far
    BY <1>1, <1>2, <1>4
  <1>6. Far \in SUBSET Nat /\ Far # {}
    BY <1>1, <1>5
  <1>7. LeastOf(Far) \in Far
    <2> HIDE DEF Far
    <2> QED
      BY <1>6, LeastIs
  <1>8. Percentile(f) = LeastOf(Far)
    BY DEF Percentile
  <1> QED
    BY <1>7, <1>8

\* The percentile and the average of the latencies of a route that was requested.
LEMMA RouteFigures ==
    ASSUME GaugeInv, NEW r \in Routes, counters[r].count > 0
    PROVE  /\ Percentile(counters[r].latencies) \in Range(counters[r].latencies)
           /\ Average(counters[r].latencies) <= GreatestOf(Range(counters[r].latencies))
  <1> DEFINE s == counters[r].latencies
             D == 1 .. Len(s)
  <1>1. s \in Seq(Nat) /\ s # <<>>
    BY DEF GaugeInv, RouteCounters
  <1> HIDE DEF s
  <1>2. Len(s) \in Nat /\ D # {} /\ s \in [D -> Nat]
    <2>1. Len(s) \in Nat /\ Len(s) # 0 /\ s \in [1 .. Len(s) -> Nat]
      BY <1>1
    <2> QED
      BY <2>1
  <1>3. IsFiniteSet(D)
    BY <1>2, Interval
  <1> HIDE DEF D
  <1>4. Percentile(s) \in Range(s) /\ Average(s) <= GreatestOf(Range(s))
    BY <1>2, <1>3, PercentileIsOne, AverageWithin
  <1> QED
    BY <1>4 DEF s

\* The responses that are counted of the routes that were requested are all the responses.
LEMMA RequestsAddUp ==
    ASSUME GaugeInv, NEW T, T = {r \in Routes : counters[r].count > 0}
    PROVE  FoldFunction(+, 0, [r \in T |-> counters[r].count]) = totalRequests
  <1> DEFINE w == [r \in T |-> counters[r].count]
  <1>1. T \in SUBSET Routes /\ IsFiniteSet(Routes) /\ IsFiniteSet(T)
    BY FS_Subset, MonitorAssumption DEF MonitorAssumption
  <1>2. \A r \in Routes : Counts[r] \in Nat
    BY CountsType
  <1>3. \A r \in Routes \ T : Counts[r] = 0
    BY DEF Counts, GaugeInv, RouteCounters
  <1>4. \A r \in T : w[r] = Counts[r]
    BY <1>1 DEF Counts
  <1>5. DOMAIN w = T
    OBVIOUS
  <1> HIDE DEF w
  <1>6. FoldFunction(+, 0, w) = Sum(w, T)
    BY <1>5, FoldIsSum
  <1>7. Sum(w, T) = Sum(Counts, T)
    BY <1>1, <1>4, SumSame
  <1>8. Sum(Counts, T) = Sum(Counts, Routes)
    BY <1>1, <1>2, <1>3, SumOfPart
  <1>9. FoldFunction(+, 0, w) = totalRequests
    BY <1>6, <1>7, <1>8 DEF GaugeInv
  <1> QED
    BY <1>9 DEF w

LEMMA LastMinuteAtMostAll ==
    ASSUME GaugeInv
    PROVE  Cardinality({i \in 1 .. Len(recent) : recent[i] = clock}) <= totalRequests
  <1>1. Len(recent) \in Nat /\ totalRequests \in Nat /\ Len(recent) <= totalRequests
    BY CountsType DEF GaugeInv
  <1>2. IsFiniteSet(1 .. Len(recent)) /\ Cardinality(1 .. Len(recent)) = Len(recent)
    BY <1>1, Interval
  <1> DEFINE now == {i \in 1 .. Len(recent) : recent[i] = clock}
  <1>3. Cardinality(now) <= Len(recent) /\ Cardinality(now) \in Nat
    BY <1>2, FS_Subset, FS_CardinalityType
  <1> HIDE DEF now
  <1>4. Cardinality(now) <= totalRequests
    BY <1>1, <1>3
  <1> QED
    BY <1>4 DEF now

\* The figures of a window that shows something.
LEMMA WindowFigures ==
    ASSUME GaugeInv, NEW n \in Names, NEW window, NEW shown,
           shown = {i \in 1 .. Len(series[n]) : series[n][i].ts >= clock - window}, shown # {}
    PROVE  LET f == [i \in shown |-> series[n][i].value] IN
           /\ LeastOf(Range(f)) <= Average(f) /\ Average(f) <= GreatestOf(Range(f))
           /\ Percentile(f) <= GreatestOf(Range(f))
  <1> DEFINE f == [i \in shown |-> series[n][i].value]
  <1>1. series[n] \in Seq(SeriesPoints) /\ Len(series[n]) \in Nat
    BY DEF GaugeInv, Bounded
  <1>2. IsFiniteSet(shown)
    BY <1>1, Interval, FS_Subset
  <1>3. \A i \in 1 .. Len(series[n]) : series[n][i] \in SeriesPoints
    BY <1>1
  <1>4. f \in [shown -> Nat]
    <2>1. \A i \in shown : series[n][i].value \in Nat
      BY <1>3 DEF SeriesPoints
    <2> QED
      BY <2>1
  <1> HIDE DEF f
  <1>5. LeastOf(Range(f)) <= Average(f) /\ Average(f) <= GreatestOf(Range(f)) /\ Percentile(f) \in Range(f)
    BY <1>2, <1>4, AverageWithin, PercentileIsOne
  <1>6. /\ Range(f) \in SUBSET Nat /\ Range(f) # {} /\ IsFiniteSet(Range(f))
    BY <1>2, <1>4, FiguresRange
  <1>7. Percentile(f) <= GreatestOf(Range(f))
    BY <1>5, <1>6, GreatestIs
  <1> QED
    BY <1>5, <1>7 DEF f

\* The figures the routes show of what is counted and measured agree with one another, for any
\* routes, latencies and samples, any number kept of them, and whatever was dropped
\* (MetricsService.ts lines 70 to 156 and 295 to 474).
THEOREM FiguresAlwaysAgree == Spec => []FiguresAgree
  <1>1. GaugeInv => FiguresAgree
    <2> SUFFICES ASSUME GaugeInv PROVE FiguresAgree
      OBVIOUS
    <2> DEFINE T == {r \in Routes : counters[r].count > 0}
    <2>1. FoldFunction(+, 0, PrometheusMetrics.api_request_total) = Snapshot.total
      <3>1. PrometheusMetrics.api_request_total = [r \in T |-> counters[r].count]
        BY DEF PrometheusMetrics, Snapshot
      <3>2. Snapshot.total = totalRequests
        BY DEF Snapshot
      <3> QED
        BY <3>1, <3>2, RequestsAddUp
    <2>2. PrometheusMetrics.throughput_rps <= Snapshot.total
      BY LastMinuteAtMostAll DEF PrometheusMetrics, Snapshot
    <2>3. ASSUME NEW r \in DOMAIN PrometheusMetrics.api_request_total
          PROVE  /\ PrometheusMetrics.api_error_total[r] <= PrometheusMetrics.api_request_total[r]
                 /\ PrometheusMetrics.api_latency_ms_p95[r] \in Range(counters[r].latencies)
                 /\ PrometheusMetrics.api_latency_ms_avg[r] <= GreatestOf(Range(counters[r].latencies))
      <3>1. r \in Routes /\ counters[r].count > 0
        BY <2>3 DEF PrometheusMetrics
      <3>2. /\ PrometheusMetrics.api_error_total[r] = counters[r].errors
            /\ PrometheusMetrics.api_request_total[r] = counters[r].count
            /\ PrometheusMetrics.api_latency_ms_p95[r] = Percentile(counters[r].latencies)
            /\ PrometheusMetrics.api_latency_ms_avg[r] = Average(counters[r].latencies)
        BY <3>1 DEF PrometheusMetrics, Snapshot
      <3>3. counters[r].errors <= counters[r].count
        BY <3>1 DEF GaugeInv, RouteCounters
      <3> QED
        BY <3>1, <3>2, <3>3, RouteFigures
    <2>4. ASSUME NEW n \in {"cpu_percent", "database"}, NEW window \in 0 .. 1,
                 Historical(n, window, "min").aggregated # None
          PROVE  /\ Historical(n, window, "min").aggregated <= Historical(n, window, "avg").aggregated
                 /\ Historical(n, window, "avg").aggregated <= Historical(n, window, "max").aggregated
                 /\ Historical(n, window, "p95").aggregated <= Historical(n, window, "max").aggregated
      <3> DEFINE shown == {i \in 1 .. Len(series[n]) : series[n][i].ts >= clock - window}
                 f == [i \in shown |-> series[n][i].value]
      <3>1. n \in Names
        BY DEF Names
      <3>2. shown # {}
        BY <2>4 DEF Historical
      <3>3. /\ Historical(n, window, "min").aggregated = LeastOf(Range(f))
            /\ Historical(n, window, "avg").aggregated = Average(f)
            /\ Historical(n, window, "max").aggregated = GreatestOf(Range(f))
            /\ Historical(n, window, "p95").aggregated = Percentile(f)
        BY <3>2 DEF Historical
      <3> QED
        BY <3>1, <3>2, <3>3, WindowFigures
    <2> QED
      BY <2>1, <2>2, <2>3, <2>4, Zenon DEF FiguresAgree
  <1>2. Base /\ FraudInv /\ TypeInv /\ [Next]_vars => TypeInv'
    BY BackStepsKept, AlertRowsNext, GaugeNext DEF TypeInv
  <1>3. TypeInv => FiguresAgree
    BY <1>1 DEF TypeInv
  <1> QED
    BY <1>2, <1>3, BaseInit, BaseStep, TypeInitInv, FraudInitInv, FraudNextInv, PTL DEF Spec
===============================================================================
