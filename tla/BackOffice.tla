----------------------------- MODULE BackOffice -----------------------------
(***************************************************************************)
(* The components administrators and merchants use beside the payments:    *)
(* referrals, notifications, feature flags with their log, sales reports,  *)
(* fraud checks with their alerts and settings, limits of requests,        *)
(* configurations, metrics and reports of refused requests.  They share    *)
(* the server's request handlers and nothing else.                         *)
(***************************************************************************)
EXTENDS Referrals, Notices, FeatureFlags, Reports, FraudChecks, RateLimits, Settings,
        Monitoring, ThrottlingReports

vars == <<handlerVars, referralVars, noticeVars, flagVars, reportVars, fraudVars, limitVars,
          settingVars, monitorVars, usageVars>>

Init ==
    /\ HandlersInit
    /\ IF calls.referrals > 0 THEN ReferralInit ELSE ReferralIdle
    /\ NoticeInit
    /\ FlagInit
    /\ IF calls.reports > 0 THEN ReportInit ELSE ReportIdle
    /\ IF calls.fraud > 0 THEN FraudInit ELSE FraudIdle
    /\ IF calls.limits > 0 THEN LimitInit ELSE LimitIdle
    /\ IF calls.settings > 0 THEN SettingInit ELSE SettingIdle
    /\ MonitorInit
    /\ IF calls.usage > 0 THEN UsageInit ELSE UsageIdle

\* A step of one component, or an await of it that fails, leaves the others alone.  Only
\* a busy component steps: the time of an idle one stands still.
ReferralStep ==
    /\ Busy("referrals", ReferralSteps)
    /\ ReferralNext \/ \E q \in Requests : ReferralInterrupted(q)
    /\ UNCHANGED <<noticeVars, flagVars, reportVars, fraudVars, limitVars, settingVars, monitorVars,
                   usageVars>>

NoticeStep ==
    /\ Busy("notices", NoticeSteps)
    /\ NoticeNext \/ \E q \in Requests : NoticeInterrupted(q)
    /\ UNCHANGED <<referralVars, flagVars, reportVars, fraudVars, limitVars, settingVars, monitorVars,
                   usageVars>>

FlagStep ==
    /\ Busy("flags", FlagSteps)
    /\ FlagNext \/ \E q \in Requests : FlagInterrupted(q)
    /\ UNCHANGED <<referralVars, noticeVars, reportVars, fraudVars, limitVars, settingVars, monitorVars,
                   usageVars>>

ReportStep ==
    /\ Busy("reports", ReportSteps)
    /\ ReportNext
    /\ UNCHANGED <<referralVars, noticeVars, flagVars, fraudVars, limitVars, settingVars, monitorVars,
                   usageVars>>

FraudStep ==
    /\ Busy("fraud", FraudSteps)
    /\ FraudNext \/ \E q \in Requests : FraudInterrupted(q)
    /\ UNCHANGED <<referralVars, noticeVars, flagVars, reportVars, limitVars, settingVars, monitorVars,
                   usageVars>>

LimitStep ==
    /\ Busy("limits", LimitSteps)
    /\ LimitNext \/ \E q \in Requests : LimitInterrupted(q)
    /\ UNCHANGED <<referralVars, noticeVars, flagVars, reportVars, fraudVars, settingVars, monitorVars,
                   usageVars>>

SettingStep ==
    /\ Busy("settings", SettingSteps)
    /\ SettingNext \/ \E q \in Requests : SettingInterrupted(q)
    /\ UNCHANGED <<referralVars, noticeVars, flagVars, reportVars, fraudVars, limitVars, monitorVars,
                   usageVars>>

\* A process that exits cuts off the requests of the other components too: each of them
\* by a step of its own, before this one.
MonitorStep ==
    /\ Busy("monitoring", MonitorSteps)
    /\ MonitorNext \/ \E q \in Requests : MonitorInterrupted(q)
    /\ \A q \in Requests : pc[q] \notin MonitorSteps \cup {"idle"} => UNCHANGED <<pc[q], mem[q]>>
    /\ UNCHANGED <<referralVars, noticeVars, flagVars, reportVars, fraudVars, limitVars, settingVars,
                   usageVars>>

UsageStep ==
    /\ Busy("usage", UsageSteps)
    /\ UsageNext \/ \E q \in Requests : UsageInterrupted(q)
    /\ UNCHANGED <<referralVars, noticeVars, flagVars, reportVars, fraudVars, limitVars, settingVars,
                   monitorVars>>

Next ==
    \/ ReferralStep
    \/ NoticeStep
    \/ FlagStep
    \/ ReportStep
    \/ FraudStep
    \/ LimitStep
    \/ SettingStep
    \/ MonitorStep
    \/ UsageStep

Spec == Init /\ [][Next]_vars

TypeOK ==
    /\ pc \in [Requests -> {"idle"} \cup ReferralSteps \cup NoticeSteps \cup FlagSteps
                              \cup ReportSteps \cup FraudSteps \cup LimitSteps \cup SettingSteps
                              \cup MonitorSteps \cup UsageSteps]
    /\ ReferralTypeOK
    /\ NoticeTypeOK
    /\ FlagTypeOK
    /\ ReportTypeOK
    /\ FraudTypeOK
    /\ LimitTypeOK
    /\ SettingTypeOK
    /\ MonitorTypeOK
    /\ UsageTypeOK

\* The figures that are shown together agree, those of sales and those of refused requests.
FiguresAddUp == SummaryAddsUp /\ RefusalsAddUp
==============================================================================
