------------------------------- MODULE Reports -------------------------------
(***************************************************************************)
(* Sales reports: src/src/services/SalesSummary.service.ts and its         *)
(* controller.  A summary is four queries that run beside one another and  *)
(* beside the payments they add up, each on the tables as it finds them.   *)
(***************************************************************************)
EXTENDS Handlers, FiniteSetsExt

CONSTANTS
    Payments,
    Links,      \* payment links of the user with the merchant's e-mail
    Product(_), \* the name and sku of a link
    Books,      \* tables of payments to begin with
    Dates,      \* how old a payment of the start, or of the end, of a summary is
    BestSellers \* how many products a summary lists: five

\* Ages of a payment: within a week, four weeks, three months, a year, older.
Ages == 0 .. 4
Default == [daily |-> 0, weekly |-> 1, top |-> 2, monthly |-> 3]

VARIABLES
    sales,      \* table payment: link, amount, age, status
    links,      \* payment links that are not deleted
    summary,    \* history: the last summary sent
    moved       \* history: requests whose sales changed under them

reportVars == <<sales, links, summary, moved>>

Sale == [link: Links, amount: Nat, age: Ages, status: {"pending", "completed", "failed"}]

ASSUME ReportAssumption ==
    /\ IsFiniteSet(Payments)
    /\ Books \subseteq [Payments -> Sale]
    /\ Links # {}
    /\ Dates \subseteq Ages \cup {None}
    /\ BestSellers \in Nat

ReportSteps == {"salesSummary"}
Figures == {"total", "daily", "monthly", "top"}
ReportTypeOK ==
    /\ sales \in [Payments -> Sale]
    /\ links \subseteq Links
    /\ summary # None => DOMAIN summary = Figures \cup {"from", "to", "moved"}

ReportInit ==
    /\ sales \in Books
    /\ links = Links
    /\ summary = None
    /\ moved = {}

ReportIdle ==
    /\ sales = [p \in Payments |-> [link |-> CHOOSE l \in Links : TRUE,
                  amount |-> 0, age |-> 0, status |-> "failed"]]
    /\ links = Links
    /\ summary = None
    /\ moved = {}

------------------------------------------------------------------------------
Amount(S) == MapThenSumSet(LAMBDA p : sales[p].amount, S)

\* Completed payments of the merchant's links from one date to another.
Completed(from, to) ==
    {p \in Payments : /\ sales[p].link \in links
                      /\ sales[p].status = "completed"
                      /\ sales[p].age \in to .. from}

\* Without an end, up to now.
Until(to) == IF to = None THEN 0 ELSE to
Since(from, kind) == IF from = None THEN Default[kind] ELSE from

\* Variant for testing the properties: the total has payments that failed or are pending.
TotalSalesAnyStatus(from, to) ==
    Amount({p \in Payments : /\ sales[p].link \in links
                             /\ sales[p].age \in Until(to) .. IF from = None THEN 4 ELSE from})

\* getTotalSales.  Without a link the list of the IN clause is empty, and the
\* database refuses the query.
TotalSales(from, to) == Amount(Completed(IF from = None THEN 4 ELSE from, Until(to)))

\* getSalesByTimePeriod: the sums by period, and here their ages.
SalesByTimePeriod(from, to, kind) ==
    LET S == Completed(Since(from, kind), Until(to)) IN
    [a \in {sales[p].age : p \in S} |-> Amount({p \in S : sales[p].age = a})]

\* What was sold of each name and sku.  Without start and end the date of the end,
\* which is the same object, is moved three months back, and nothing is found.
SalesByProduct(from, to) ==
    LET S == IF from = None /\ to = None THEN {} ELSE Completed(Since(from, "top"), Until(to)) IN
    [n \in {Product(sales[p].link) : p \in S} |-> Amount({p \in S : Product(sales[p].link) = n})]

\* getTopSellingProducts: the lists that may be sent, for products that sold as much
\* come in any order.
TopSellingProducts(from, to) ==
    LET sold == SalesByProduct(from, to)
        Best(T) == /\ IF Cardinality(DOMAIN sold) <= BestSellers THEN T = DOMAIN sold
                      ELSE Cardinality(T) = BestSellers
                   /\ \A n \in T, o \in DOMAIN sold \ T : sold[o] <= sold[n]
    IN {[n \in T |-> sold[n]] : T \in {T \in SUBSET DOMAIN sold : Best(T)}}

AddUp(f) == MapThenSumSet(LAMBDA x : f[x], DOMAIN f)

\* The answers a query may give.
Answers(name, from, to) ==
    CASE name = "total" -> {TotalSales(from, to)}
      [] name = "daily" -> {AddUp(SalesByTimePeriod(from, to, "daily"))}
      [] name = "monthly" -> {AddUp(SalesByTimePeriod(from, to, "monthly"))}
      [] name = "top" -> TopSellingProducts(from, to)

------------------------------------------------------------------------------
\* getSalesSummary: Promise.all of the four queries.
GetSalesSummary(q) ==
    /\ \E from, to \in Dates :
          Receive(q, "reports", "salesSummary",
             [from |-> from, to |-> to, figures |-> [n \in {} |-> 0]])
    /\ moved' = moved \ {q}
    /\ UNCHANGED <<sales, links, summary>>

QueryFigure(q) ==
    /\ At(q, "salesSummary")
    /\ \E n \in Figures \ DOMAIN mem[q].figures :
          /\ n = "total" => links # {}
          /\ \E answer \in Answers(n, mem[q].from, mem[q].to) :
             LET figures == [m \in DOMAIN mem[q].figures \cup {n} |->
                   IF m = n THEN answer ELSE mem[q].figures[m]] IN
             \/ /\ DOMAIN figures # Figures
                /\ Goto(q, "salesSummary", [mem[q] EXCEPT !.figures = figures])
                /\ UNCHANGED summary
             \/ /\ DOMAIN figures = Figures
                /\ summary' = [n2 \in Figures \cup {"from", "to", "moved"} |->
                      CASE n2 = "from" -> mem[q].from
                        [] n2 = "to" -> mem[q].to
                        [] n2 = "moved" -> q \in moved
                        [] OTHER -> figures[n2]]
                /\ Answer(q)
    /\ UNCHANGED <<sales, links, moved>>

\* The query of the total fails when every link is deleted, and the summary with it.
QueryFails(q) ==
    /\ At(q, "salesSummary")
    /\ links = {}
    /\ "total" \notin DOMAIN mem[q].figures
    /\ Answer(q)
    /\ UNCHANGED reportVars

Reading == {q \in Requests : At(q, "salesSummary")}

\* updatePaymentStatus, which allows any change, and a deletion of a link.
UpdatePaymentStatus(q) ==
    /\ Serve(q, "reports")
    /\ \E p \in Payments, st \in {"pending", "completed", "failed"} :
          /\ sales[p].status # st
          /\ sales' = [sales EXCEPT ![p].status = st]
    /\ moved' = moved \cup Reading
    /\ UNCHANGED <<links, summary>>

LinkIsDeleted(q) ==
    /\ Serve(q, "reports")
    /\ \E l \in links : links' = links \ {l}
    /\ moved' = moved \cup Reading
    /\ UNCHANGED <<sales, summary>>

ReportNext == \E q \in Requests :
    \/ GetSalesSummary(q) \/ QueryFigure(q) \/ QueryFails(q)
    \/ UpdatePaymentStatus(q) \/ LinkIsDeleted(q)

\* The figures of one summary agree although each query groups the sales in its own
\* way: with a start date the days and the months add up to the total, and the
\* products too unless the list was full; without one the days are part of the
\* months, and the months of the total.  Only sales that changed between the queries
\* can make them disagree (SalesSummary.service.ts lines 65 to 306).
SummaryAddsUp == summary # None /\ ~summary.moved =>
    LET s == summary
        top == AddUp(s.top)
    IN IF s.from = None
       THEN /\ s.daily <= s.monthly /\ top <= s.monthly /\ s.monthly <= s.total
            /\ s.to = None => top = 0
       ELSE /\ s.daily = s.total /\ s.monthly = s.total /\ top <= s.total
            /\ Cardinality(DOMAIN s.top) < BestSellers => top = s.total
==============================================================================
