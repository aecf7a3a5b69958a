-------------------------- MODULE BillingRefinement --------------------------
(***************************************************************************)
(* SubscriptionBilling implements RecurringCharge: the account a customer  *)
(* sees, computed from the tables and the ledger.                          *)
(***************************************************************************)
EXTENDS SubscriptionBilling

LatestCycle(s) == CHOOSE c \in CyclesOf(s) : \A d \in CyclesOf(s) : d <= c

Phase(s) ==
    CASE CyclesOf(s) = {} -> "none"
      [] \E c \in CyclesOf(s) : cycles[c].status = "failed" -> "stopped"
      [] \E c \in CyclesOf(s) : Outstanding(c) /\ charges[c] = 0 -> "waiting"
      [] OTHER -> "paid"

AccountOf(s) ==
    [phase |-> Phase(s),
     due |-> IF CyclesOf(s) = {} THEN 0 ELSE cycles[LatestCycle(s)].due,
     opened |-> Cardinality(CyclesOf(s)),
     payments |-> Cardinality(Tally(charges, CyclesOf(s)))]

accounts == [s \in Subs |-> AccountOf(s)]

Account == INSTANCE RecurringCharge WITH account <- accounts

\* The scheduler's steps, with their retries and their three tables, do to an
\* account what RecurringCharge allows, and after a payment the next period is
\* eventually opened, when scheduler runs do not overlap, nothing fails and
\* clients only create subscriptions.
ImplementsRecurringCharge == Account!Spec

\* What the steps do to the accounts, without the promise that it goes on.
AccountsFollow == Account!Steps
==============================================================================
