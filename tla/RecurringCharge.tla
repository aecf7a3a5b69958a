--------------------------- MODULE RecurringCharge ---------------------------
(***************************************************************************)
(* What recurring billing promises about one customer's account,           *)
(* whatever the steps that bring it about: the periods of a subscription   *)
(* are opened one interval apart, the next one only after the last was     *)
(* paid; every period is paid once at most; and once the retries of a      *)
(* period are used up, nothing more is charged.                            *)
(***************************************************************************)
EXTENDS Naturals

CONSTANTS Subs, Interval

VARIABLE account  \* per subscription: phase, due date of the latest period,
                  \* periods opened and payments made

Phases == {"none", "waiting", "paid", "stopped"}
AccountType ==
    account \in [Subs -> [phase: Phases, due: Nat, opened: Nat, payments: Nat]]

Init ==
    account = [s \in Subs |->
                 [phase |-> "none", due |-> 0, opened |-> 0, payments |-> 0]]

Step(s, from, to) ==
    /\ account[s].phase = from
    /\ account' = [account EXCEPT ![s] = to]

Open(s, due) ==
    [phase |-> "waiting", due |-> due,
     opened |-> account[s].opened + 1, payments |-> account[s].payments]

\* The first period falls due whenever the client asked for.
Start(s) ==
    /\ account'[s].due \in Nat
    /\ Step(s, "none", Open(s, account'[s].due))

Pay(s) ==
    Step(s, "waiting", [account[s] EXCEPT !.phase = "paid", !.payments = @ + 1])

OpenNext(s) == Step(s, "paid", Open(s, account[s].due + Interval))

GiveUp(s) == Step(s, "waiting", [account[s] EXCEPT !.phase = "stopped"])

Next == \E s \in Subs : Start(s) \/ Pay(s) \/ OpenNext(s) \/ GiveUp(s)

\* What the steps do, and the promise that a paid period is followed by the next.
Steps == Init /\ [][Next]_account
Spec == Steps /\ \A s \in Subs : WF_account(OpenNext(s))

\* Of the periods opened so far all but the latest are paid, and the latest is
\* paid exactly in phase "paid": no period is paid twice, none is skipped.
NoPeriodPaidTwice ==
    \A s \in Subs :
        account[s].opened = account[s].payments +
            (IF account[s].phase \in {"waiting", "stopped"} THEN 1 ELSE 0)
==============================================================================
