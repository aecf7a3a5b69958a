------------------------------ MODULE Referrals ------------------------------
(***************************************************************************)
(* Referral codes, rewards and programmes:                                 *)
(* src/src/services/ReferralService.ts, ReferralProgramService.ts and      *)
(* their controllers.  Every check is a read of its own before the write,  *)
(* and save() writes the whole row as it was read.                         *)
(***************************************************************************)
EXTENDS Handlers, FiniteSetsExt

CONSTANTS
    Users,
    Codes,       \* the codes generateReferralCode may draw
    Programs,    \* the ids of programmes, a set of naturals
    ProgramBodies, \* bodies of requests about programmes: the columns they name
    Issuances    \* bound: the referrers of the codes that exist to begin with

VARIABLES
    referrals,   \* table referrals, by code
    rewards,     \* table referral_rewards; with the programme, as history
    programs,    \* table referral_programs
    signups,     \* history: <<code, user>> saved by processReferralSignup
    receipts,    \* history: how often each reward was marked as paid
    contested,   \* history: codes, users and rewards two requests worked on at once
    reshuffled,  \* history: two requests held programmes at once, or one was cut off
    restated,    \* history: programmes of which a request itself said what was used
    lowered      \* history: programmes whose budget a request lowered below what was used

referralVars == <<referrals, rewards, programs, signups, receipts, contested, reshuffled,
                  restated, lowered>>
referralTables == <<referrals, rewards, programs, signups, receipts>>

Referral == [referrer: Users, referee: Users \cup {None}, status: {"PENDING", "COMPLETED"}]
Reward == [code: Codes, user: Users, type: {"REFERRER", "REFEREE"}, program: Programs,
           status: {"PENDING", "PAID"}, amount: Nat]
Program == [status: {"DRAFT", "ACTIVE", "INACTIVE"}, used: Nat, total: Nat \cup {None},
            referrerReward: Nat, refereeReward: Nat]
NewProgram == [status |-> "DRAFT", used |-> 0, total |-> None, referrerReward |-> 0, refereeReward |-> 0]

\* A row is not null, and neither is a user.  A body gives columns values they may have,
\* and a null as the budget counts as no value.
ASSUME ReferralAssumption ==
    /\ None \notin Users \cup Referral \cup Program
    /\ Programs \subseteq Nat
    /\ \A b \in ProgramBodies :
          /\ DOMAIN b \subseteq DOMAIN NewProgram
          /\ Assigned(NewProgram, b) \in Program
          /\ "total" \in DOMAIN b => b.total # None
    /\ Issuances \subseteq [Codes -> Users \cup {None}]

SignupSteps == {"findReferee", "saveReferral", "findActive", "saveRewards", "saveProgram"}
ProgramSteps == {"saveRewards", "saveProgram", "getProgram", "saveActive", "saveInactive",
                 "deactivateOthers", "updateProgram"}
ReferralSteps == SignupSteps \cup ProgramSteps \cup
    {"findCode", "insertReferral", "findReferral", "findReward", "saveReward", "insertProgram"}

Issued == {c \in Codes : referrals[c] # None}
Stored == {p \in Programs : programs[p] # None}
Active == {p \in Stored : programs[p].status = "ACTIVE"}

\* What is promised at a time under a programme, and what was under p so far.
Pair(row) == row.referrerReward + row.refereeReward
Promised(p) ==
    MapThenSumSet(LAMBDA i : rewards[i].amount, {i \in DOMAIN rewards : rewards[i].program = p})

ReferralTypeOK ==
    /\ \A c \in Issued : referrals[c] \in Referral
    /\ \A i \in DOMAIN rewards : rewards[i] \in Reward
    /\ \A p \in Stored : programs[p] \in Program
    /\ signups \subseteq Codes \X Users
    /\ receipts \in [DOMAIN rewards -> Nat]

------------------------------------------------------------------------------
\* The row of a new programme: the body names both rewards, and a budget or not.
Offers == {b \in ProgramBodies : {"referrerReward", "refereeReward"} \subseteq DOMAIN b}
Draft(body) == [Assigned(NewProgram, body) EXCEPT !.status = "DRAFT", !.used = 0]

\* Before the calls: a programme that is running or not, a second one as a draft
\* or not at all, and codes nobody has used.
ReferralInit ==
    /\ \E by \in Issuances :
          referrals = [c \in Codes |-> IF by[c] = None THEN None
             ELSE [referrer |-> by[c], referee |-> None, status |-> "PENDING"]]
    /\ \E A \in {1, 2}, offer \in Offers, other \in {None} \cup {Draft(o) : o \in Offers} :
          programs = [p \in Programs |->
             IF p = A THEN [Draft(offer) EXCEPT !.status = "ACTIVE"] ELSE other]
    /\ rewards = <<>>
    /\ signups = {}
    /\ receipts = <<>>
    /\ contested = {}
    /\ reshuffled = FALSE
    /\ restated = {} /\ lowered = {}

\* Without calls of this component its tables do not matter.
ReferralIdle ==
    /\ referrals = [c \in Codes |-> None]
    /\ programs = [p \in Programs |-> None]
    /\ rewards = <<>> /\ receipts = <<>>
    /\ signups = {} /\ contested = {} /\ reshuffled = FALSE
    /\ restated = {} /\ lowered = {}

------------------------------------------------------------------------------
\* createReferral: a code that no row has, then the insertion, which the unique
\* index refuses if another request took the code.
PostReferral(q) ==
    /\ \E u \in Users : Receive(q, "referrals", "findCode", [user |-> u])

GenerateReferralCode(q) ==
    /\ At(q, "findCode")
    /\ \/ \E c \in Codes \ Issued :
             Goto(q, "insertReferral", [user |-> mem[q].user, code |-> c])
       \/ Issued = Codes /\ Answer(q)

CreateReferral(q) ==
    /\ At(q, "insertReferral")
    /\ referrals' = IF mem[q].code \in Issued THEN referrals
          ELSE [referrals EXCEPT ![mem[q].code] =
                   [referrer |-> mem[q].user, referee |-> None, status |-> "PENDING"]]
    /\ Answer(q)

------------------------------------------------------------------------------
\* processReferralSignup.  A code may have expired at any time.
PostSignup(q) ==
    /\ \E u \in Users, c \in Codes :
          Receive(q, "referrals", "findReferral", [user |-> u, code |-> c])

Usable(c, u) == c \in Issued /\ referrals[c].referrer # u /\ referrals[c].referee = None

FindReferral(q) ==
    LET c == mem[q].code IN
    /\ At(q, "findReferral")
    /\ \/ /\ Usable(c, mem[q].user)
          /\ Goto(q, "findReferee", [user |-> mem[q].user, code |-> c, row |-> referrals[c]])
       \/ Answer(q)

Referred(u) == \E c \in Issued : referrals[c].referee = u

FindReferee(q) ==
    /\ At(q, "findReferee")
    /\ \/ ~Referred(mem[q].user) /\ Goto(q, "saveReferral", mem[q])
       \/ Referred(mem[q].user) /\ Answer(q)

\* The unique index on referrer and referee may refuse the save.
SaveReferral(q) ==
    LET c == mem[q].code
        u == mem[q].user
        taken == \E d \in Issued \ {c} :
                    referrals[d].referrer = mem[q].row.referrer /\ referrals[d].referee = u IN
    /\ At(q, "saveReferral")
    /\ \/ /\ ~taken
          /\ referrals' = [referrals EXCEPT ![c] =
                [mem[q].row EXCEPT !.referee = u, !.status = "COMPLETED"]]
          /\ signups' = signups \cup {<<c, u>>}
          /\ Goto(q, "findActive", mem[q])
       \/ taken /\ Answer(q) /\ UNCHANGED <<referrals, signups>>

\* createRewards: the latest active programme and what is left of its budget, if it has one.
Affordable ==
    {p \in Active :
        /\ p = Latest(Active)
        /\ \/ programs[p].total = None
           \/ programs[p].used + Pair(programs[p]) <= programs[p].total}

FindActiveProgram(q) ==
    /\ At(q, "findActive")
    /\ \/ \E p \in Affordable :
             Goto(q, "saveRewards", [user |-> mem[q].user, code |-> mem[q].code,
                  referrer |-> mem[q].row.referrer, program |-> p, row |-> programs[p]])
       \/ Affordable = {} /\ Answer(q)

\* Variant for testing the properties: the user and the type are swapped.
NewRewardSwapped(q, u, t) ==
    [code |-> mem[q].code, user |-> t, type |-> u, program |-> mem[q].program, status |-> "PENDING",
     amount |-> 0]

NewReward(q, u, t) ==
    [code |-> mem[q].code, user |-> u, type |-> t, program |-> mem[q].program, status |-> "PENDING",
     amount |-> IF t = "REFERRER" THEN mem[q].row.referrerReward ELSE mem[q].row.refereeReward]

SaveRewards(q) ==
    /\ At(q, "saveRewards")
    /\ rewards' = rewards \o <<NewReward(q, mem[q].referrer, "REFERRER"),
                               NewReward(q, mem[q].user, "REFEREE")>>
    /\ receipts' = receipts \o <<0, 0>>
    /\ Goto(q, "saveProgram", mem[q])

SaveProgram(q) ==
    /\ At(q, "saveProgram")
    /\ programs' = [programs EXCEPT ![mem[q].program] =
          [mem[q].row EXCEPT !.used = @ + Pair(mem[q].row)]]
    /\ Answer(q)

------------------------------------------------------------------------------
\* processRewardPayment.
PutRewardPayment(q) ==
    /\ \E i \in DOMAIN rewards :
          Receive(q, "referrals", "findReward", [reward |-> i])

FindReward(q) ==
    /\ At(q, "findReward")
    /\ \/ rewards[mem[q].reward].status = "PENDING" /\ Goto(q, "saveReward", mem[q])
       \/ rewards[mem[q].reward].status # "PENDING" /\ Answer(q)

SaveReward(q) ==
    /\ At(q, "saveReward")
    /\ rewards' = [rewards EXCEPT ![mem[q].reward].status = "PAID"]
    /\ receipts' = [receipts EXCEPT ![mem[q].reward] = @ + 1]
    /\ Answer(q)

------------------------------------------------------------------------------
\* createProgram: refused while a programme is active.  The insertion gives it an id.
PostProgram(q) ==
    /\ Active = {}
    /\ Stored # Programs
    /\ \E body \in Offers : Receive(q, "referrals", "insertProgram", [body |-> body])

CreateProgram(q) ==
    /\ At(q, "insertProgram")
    /\ \E p \in Programs \ Stored :
          programs' = [programs EXCEPT ![p] = Draft(mem[q].body)]
    /\ Answer(q)

Others(st) == [p \in Programs |->
    IF p \in Active THEN [programs[p] EXCEPT !.status = st] ELSE programs[p]]

\* updateProgram: the columns given, whichever they are, and only they are updated; a
\* body that activates the programme deactivates the running one before.
Activates(body) == "status" \in DOMAIN body /\ body.status = "ACTIVE"
PutProgram(q) ==
    /\ \E p \in Stored, body \in ProgramBodies :
          Receive(q, "referrals", IF Activates(body) THEN "deactivateOthers" ELSE "updateProgram",
                  [program |-> p, body |-> body])

\* Variant for testing the properties: the running programme is left as it is.
DeactivateNone(q) ==
    /\ At(q, "deactivateOthers")
    /\ UNCHANGED programs
    /\ Goto(q, "updateProgram", mem[q])

DeactivateOthers(q) ==
    /\ At(q, "deactivateOthers")
    /\ programs' = Others("INACTIVE")
    /\ Goto(q, "updateProgram", mem[q])

UpdateProgram(q) ==
    LET p == mem[q].program
        body == mem[q].body IN
    /\ At(q, "updateProgram")
    /\ programs' = [programs EXCEPT ![p] = Assigned(@, body)]
    /\ restated' = IF "used" \in DOMAIN body THEN restated \cup {p} ELSE restated
    /\ lowered' = CASE "total" \notin DOMAIN body -> lowered
                     [] "total" \in DOMAIN body /\ body.total < programs[p].used -> lowered \cup {p}
                     [] OTHER -> lowered \ {p}
    /\ Answer(q)

\* activateProgram deactivates the running programme before it looks whether there
\* is one to activate.
ActivateProgram(q) ==
    /\ \E p \in Programs : Receive(q, "referrals", "getProgram", [program |-> p])
    /\ programs' = Others("INACTIVE")

GetProgramToActivate(q) ==
    LET p == mem[q].program IN
    /\ At(q, "getProgram")
    /\ \/ p \in Stored /\ Goto(q, "saveActive", [program |-> p, row |-> programs[p]])
       \/ p \notin Stored /\ Answer(q)

SaveActiveProgram(q) ==
    /\ At(q, "saveActive")
    /\ programs' = [programs EXCEPT ![mem[q].program] = [mem[q].row EXCEPT !.status = "ACTIVE"]]
    /\ Answer(q)

DeactivateProgram(q) ==
    /\ \E p \in Stored :
          Receive(q, "referrals", "saveInactive", [program |-> p, row |-> programs[p]])

SaveInactiveProgram(q) ==
    /\ At(q, "saveInactive")
    /\ programs' = [programs EXCEPT ![mem[q].program] = [mem[q].row EXCEPT !.status = "INACTIVE"]]
    /\ Answer(q)

------------------------------------------------------------------------------
\* What two requests are working on at once, and which were cut off.
Signing(q) == IF pc'[q] \in SignupSteps THEN {mem'[q].code, mem'[q].user} ELSE {}
Paying(q) == IF pc'[q] \in {"findReward", "saveReward"} THEN {mem'[q].reward} ELSE {}

ReferralHistory ==
    /\ contested' = contested \cup InBoth(Signing) \cup InBoth(Paying)
    /\ reshuffled' = (reshuffled \/ Overlapping(ProgramSteps)')

ReferralReads(q) ==
    /\ \/ PostReferral(q) \/ GenerateReferralCode(q)
       \/ PostSignup(q) \/ FindReferral(q) \/ FindReferee(q) \/ FindActiveProgram(q)
       \/ PutRewardPayment(q) \/ FindReward(q)
       \/ PostProgram(q) \/ PutProgram(q) \/ GetProgramToActivate(q) \/ DeactivateProgram(q)
    /\ UNCHANGED <<referralTables, restated, lowered>>

ReferralWrites(q) ==
    \/ /\ CreateReferral(q)
       /\ UNCHANGED <<rewards, programs, signups, receipts, restated, lowered>>
    \/ /\ SaveReferral(q)
       /\ UNCHANGED <<rewards, programs, receipts, restated, lowered>>
    \/ /\ SaveRewards(q) \/ SaveReward(q)
       /\ UNCHANGED <<referrals, programs, signups, restated, lowered>>
    \/ /\ UpdateProgram(q)
       /\ UNCHANGED <<referrals, rewards, signups, receipts>>
    \/ /\ \/ SaveProgram(q) \/ CreateProgram(q) \/ DeactivateOthers(q)
          \/ ActivateProgram(q) \/ SaveActiveProgram(q) \/ SaveInactiveProgram(q)
       /\ UNCHANGED <<referrals, rewards, signups, receipts, restated, lowered>>

ReferralNext ==
    \E q \in Requests : (ReferralReads(q) \/ ReferralWrites(q)) /\ ReferralHistory

ReferralInterrupted(q) ==
    /\ pc[q] \in ReferralSteps
    /\ Interrupted(q)
    /\ reshuffled' = (reshuffled \/ pc[q] \in ProgramSteps)
    /\ UNCHANGED <<referralTables, contested, restated, lowered>>

------------------------------------------------------------------------------
\* The rewards of a code follow the signups that were stored with it: one reward
\* of each type at most per signup, the referee's for the user who signed up.  A
\* code used by two users and a reward paid twice only come from requests that
\* overlapped on it, and a user with two codes signed up for both at once or had
\* one of them overwritten (ReferralService.ts lines 76 to 110 and 237 to 255).
RewardsFollowSignups ==
    /\ \A i \in DOMAIN rewards : LET r == rewards[i] IN
          /\ r.type = "REFEREE" => <<r.code, r.user>> \in signups
          /\ r.type = "REFERRER" => r.user = referrals[r.code].referrer
          /\ receipts[i] > 1 => i \in contested
    /\ \A s, t \in signups : s # t =>
          /\ s[1] = t[1] => s[1] \in contested
          /\ s[2] = t[2] => {s[1], s[2], t[1]} \cap contested # {}
    /\ \A c \in Codes \ contested :
          Cardinality({i \in DOMAIN rewards : rewards[i].code = c}) <= 2

\* Promised under p, and not yet counted as used.
InProgress(p) ==
    MapThenSumSet(LAMBDA q : Pair(mem[q].row),
                  {q \in Requests : At(q, "saveProgram") /\ mem[q].program = p})

\* The used budget of a programme never exceeds what was really promised under it,
\* whatever its rewards were changed to in the meantime.  It is exactly that, and within
\* the total, unless two requests held rows of programmes at once or one was cut off.
\* Not so for a programme of which a request itself gave the used budget, a column as
\* any other to updateProgram; and one whose budget was lowered below what was used has
\* promised more than the new one (ReferralService.ts lines 117 to 158,
\* ReferralProgramService.ts lines 61 to 72).
BudgetFollowsRewards ==
    \A p \in Stored \ restated :
       /\ programs[p].used <= Promised(p)
       /\ ~reshuffled =>
             /\ programs[p].used + InProgress(p) = Promised(p)
             /\ p \notin lowered /\ programs[p].total # None => Promised(p) <= programs[p].total

\* However activations, updates, deactivations and signups follow one another, two
\* programmes are active only if two of them overlapped or one was cut off
\* (ReferralProgramService.ts lines 54 to 72 and 113 to 120).
OneActiveProgram == ~reshuffled => Cardinality(Active) <= 1

\* What can be relied on of rewards, budgets and programmes.
ReferralsHold == RewardsFollowSignups /\ BudgetFollowsRewards /\ OneActiveProgram
==============================================================================
