------------------------------ MODULE Handlers ------------------------------
(***************************************************************************)
(* What the request handlers of the server have in common: a handler runs  *)
(* from one await to the next, and between two awaits those of other       *)
(* requests run.  A component's module extends this one and has an action  *)
(* per await; the modules BackOffice and FrontOffice compose them.         *)
(***************************************************************************)
EXTENDS Integers, FiniteSets, Sequences

CONSTANTS
    Requests,   \* HTTP requests, and jobs, that may be in progress at once
    Budgets,    \* bound: how many calls of each component a behaviour makes
    Failing,    \* whether an await may throw, or the process exit, anywhere
    None        \* null, and a row that is not there

VARIABLES
    pc,      \* the await at which a request is, "idle" outside of a handler
    mem,     \* what its handler holds in local variables
    calls    \* how many more calls of each component may begin

handlerVars == <<pc, mem, calls>>
NoMemory == <<>>

HandlersInit ==
    /\ pc = [q \in Requests |-> "idle"]
    /\ mem = [q \in Requests |-> NoMemory]
    /\ calls \in Budgets

At(q, step) == pc[q] = step

Goto(q, step, m) ==
    /\ pc' = [pc EXCEPT ![q] = step]
    /\ mem' = [mem EXCEPT ![q] = m]
    /\ UNCHANGED calls

\* The handler returns or throws, and the client gets its answer.
Answer(q) == Goto(q, "idle", NoMemory)

Call(c) ==
    /\ calls[c] > 0
    /\ calls' = [calls EXCEPT ![c] = @ - 1]

\* A request arrives for component c and waits for its first await.
Receive(q, c, step, m) ==
    /\ At(q, "idle")
    /\ Call(c)
    /\ pc' = [pc EXCEPT ![q] = step]
    /\ mem' = [mem EXCEPT ![q] = m]

\* A handler that touches shared state once.
Serve(q, c) ==
    /\ At(q, "idle")
    /\ Call(c)
    /\ UNCHANGED <<pc, mem>>

\* The next call to the database or to Redis throws, and the controller answers
\* with an error; or the process exits.  The writes made so far stay.
Interrupted(q) ==
    /\ Failing
    /\ ~At(q, "idle")
    /\ Answer(q)

\* Component c has calls to come, or a request at one of its steps.
Busy(c, steps) == calls[c] > 0 \/ \E q \in Requests : pc[q] \in steps

\* What two requests hold at once.
InBoth(Held(_)) ==
    {v \in UNION {Held(q) : q \in Requests} :
        \E q, r \in Requests : q # r /\ v \in Held(q) /\ v \in Held(r)}

\* Two requests are at steps of S.
Overlapping(S) == \E q, r \in Requests : q # r /\ pc[q] \in S /\ pc[r] \in S

\* A request's body assigned over a row: no controller takes a column out of it, and
\* what it names that is not a column is not saved.
Assigned(row, body) == [c \in DOMAIN row |-> IF c \in DOMAIN body THEN body[c] ELSE row[c]]

\* The greatest of a set of numbers: ids and places in a table are given out in order.
Latest(S) == CHOOSE p \in S : \A o \in S : o <= p
==============================================================================
