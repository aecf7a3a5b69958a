------------------------------- MODULE SignIn -------------------------------
(***************************************************************************)
(* Registration, the three ways to log in, and the second factor:          *)
(* AuthController.ts, twoFactorAuthController.ts and                       *)
(* validateTwoFactorAuthentication.ts under src/src/controllers, and       *)
(* AuthService.ts.  What becomes of the tokens is in AuthTokens.           *)
(*                                                                         *)
(* The row of a user comes with its row of two_factor_auth (eager), and    *)
(* save() of a user writes both, as they were read (cascade).              *)
(***************************************************************************)
EXTENDS Handlers

CONSTANTS
    Members,     \* users, by their e-mail address
    Passwords,
    Secrets      \* of the second factor, fresh at every activation

VARIABLES
    logins,     \* table users, with table two_factor_auth
    given,      \* history: with which code tokens were given, and what `seen` was
    seen,        \* history: second factors of its member since a request arrived
    last,        \* history: password and second factor as last answered
    spent,       \* history: secrets generated
    muddled      \* history: logins whose row two requests held at once, or an answer was lost

signInVars == <<logins, given, seen, last, spent, muddled>>
signInTables == <<logins, given, last, spent>>

Second == [secret: Secrets \cup {None}, on: BOOLEAN]
Member == [password: Passwords \cup {None}, second: Second \cup {None}]

ASSUME SignInAssumption ==
    /\ Passwords # {}
    /\ None \notin Second \cup Member

\* The steps at which a request holds a row it will save.
MemberHolding == {"saveSecond", "saveDisabled", "saveMember"}
SignInSteps == MemberHolding \cup
    {"findMember", "insertMember", "findLogin", "validate", "loginAgain", "storeToken",
     "findAuth0", "insertAuth0", "findToEnable", "findToDisable", "findToUpdate"}

Enrolled == {u \in Members : logins[u] # None}
Enabled(row) == row # None /\ row.second # None /\ row.second.on
\* The secret whose codes a login needs, None if the password is enough.
Factor(row) == IF Enabled(row) THEN row.second.secret ELSE None

\* Table logins once the row that q holds is saved.  If there was no row of
\* two_factor_auth when it was read, save() inserts one; its user is unique.
Saved(q) ==
    LET u == mem[q].member
        refused == mem[q].held = None /\ logins[u].second # None
    IN CASE At(q, "saveSecond") -> IF refused THEN logins
              ELSE [logins EXCEPT ![u].second = [secret |-> mem[q].secret, on |-> TRUE]]
         [] At(q, "saveDisabled") -> [logins EXCEPT ![u].second = [secret |-> None, on |-> FALSE]]
         [] At(q, "saveMember") -> [logins EXCEPT ![u] = mem[q].row]

SignInTypeOK ==
    /\ logins \in [Members -> Member \cup {None}]
    /\ \A g \in given : g.seen \subseteq Secrets \cup {None} /\ g.code \in Secrets \cup {None}
    /\ seen \in [Requests -> SUBSET (Secrets \cup {None})]
    /\ \A u \in Members : last[u].password \in Passwords \cup {None} /\ last[u].factor \in Secrets \cup {None}
    /\ spent \subseteq Secrets
    /\ muddled \subseteq Members

SignInInit ==
    /\ \E U \in SUBSET Members : LET p == CHOOSE x \in Passwords : TRUE IN
          /\ logins = [u \in Members |-> IF u \in U THEN [password |-> p, second |-> None] ELSE None]
          /\ last = [u \in Members |-> [password |-> IF u \in U THEN p ELSE None, factor |-> None]]
    /\ given = {}
    /\ seen = [q \in Requests |-> {}]
    /\ spent = {}
    /\ muddled = {}

SignInIdle ==
    /\ logins = [u \in Members |-> None]
    /\ last = [u \in Members |-> [password |-> None, factor |-> None]]
    /\ given = {}
    /\ seen = [q \in Requests |-> {}]
    /\ spent = {}
    /\ muddled = {}

------------------------------------------------------------------------------
\* A new user's row: register's has the password given, Auth0's a random one nobody knows.
Enrol(q, password) ==
    LET u == mem[q].member IN
    /\ logins' = [logins EXCEPT ![u] = [password |-> password, second |-> None]]
    /\ last' = [last EXCEPT ![u] = [password |-> password, factor |-> None]]
    /\ UNCHANGED <<given, spent>>

\* The unique index on the address refuses a second row.
RefuseEnrolment(q) ==
    /\ mem[q].member \in Enrolled
    /\ Answer(q)
    /\ UNCHANGED signInTables

PostRegister(q) ==
    /\ \E u \in Members, p \in Passwords : Receive(q, "signin", "findMember", [member |-> u, password |-> p])

FindMember(q) ==
    /\ At(q, "findMember")
    /\ \/ mem[q].member \notin Enrolled /\ Goto(q, "insertMember", mem[q])
       \/ mem[q].member \in Enrolled /\ Answer(q)

Register(q) ==
    /\ At(q, "insertMember")
    /\ \/ /\ mem[q].member \notin Enrolled
          /\ Enrol(q, mem[q].password)
          /\ Answer(q)
       \/ RefuseEnrolment(q)

\* The callback of Auth0, which has authenticated the address: no second factor is asked for.
Auth0Callback(q) ==
    /\ \E u \in Members : Receive(q, "signin", "findAuth0", [member |-> u])

FindAuth0User(q) ==
    /\ At(q, "findAuth0")
    /\ Goto(q, IF mem[q].member \in Enrolled THEN "storeToken" ELSE "insertAuth0",
            [member |-> mem[q].member, by |-> "auth0", code |-> None])

FindOrCreateAuth0User(q) ==
    /\ At(q, "insertAuth0")
    /\ \/ /\ mem[q].member \notin Enrolled
          /\ Enrol(q, None)
          /\ Goto(q, "storeToken", mem[q])
       \/ RefuseEnrolment(q)

------------------------------------------------------------------------------
\* login sends no code, loginWith2FA the one of a secret generated before.
PostLogin(q) ==
    /\ \E u \in Members, p \in Passwords, s \in spent \cup {None} :
          Receive(q, "signin", "findLogin", [member |-> u, password |-> p, by |-> "password", code |-> s])

Matches(q) == mem[q].member \in Enrolled /\ logins[mem[q].member].password = mem[q].password

\* Variant for testing the properties: login does not look at the second factor.
LoginPasswordOnly(q) ==
    /\ At(q, "findLogin")
    /\ \/ /\ Matches(q)
          /\ \/ mem[q].code = None /\ Goto(q, "loginAgain", mem[q])
             \/ /\ mem[q].code # None
                /\ Enabled(logins[mem[q].member])
                /\ Goto(q, "validate", mem[q])
       \/ Answer(q)

Login(q) ==
    LET row == logins[mem[q].member] IN
    /\ At(q, "findLogin")
    /\ \/ /\ Matches(q)
          /\ mem[q].code = None
          /\ ~Enabled(row)
          /\ Goto(q, "loginAgain", mem[q])
       \/ /\ Matches(q)
          /\ mem[q].code # None
          /\ Enabled(row)
          /\ Goto(q, "validate", mem[q])
       \/ /\ ~Matches(q) \/ (mem[q].code # None) # Enabled(row)
          /\ Answer(q)

\* The row is read again: another secret may be in force by now, or none.
ValidateTwoFactor(q) ==
    LET u == mem[q].member
        accepted == Enabled(logins[u]) /\ logins[u].second.secret = mem[q].code
    IN
    /\ At(q, "validate")
    /\ \/ accepted /\ Goto(q, "loginAgain", mem[q])
       \/ ~accepted /\ Answer(q)

\* And again, for the password alone.
LoginAgain(q) ==
    /\ At(q, "loginAgain")
    /\ \/ Matches(q) /\ Goto(q, "storeToken", mem[q])
       \/ ~Matches(q) /\ Answer(q)

StoreToken(q) ==
    /\ At(q, "storeToken")
    /\ given' = IF mem[q].by = "auth0" THEN given
                 ELSE given \cup {[code |-> mem[q].code, seen |-> seen[q]]}
    /\ Answer(q)
    /\ UNCHANGED <<logins, last, spent>>

------------------------------------------------------------------------------
\* enableTwoFactorAuthentication is on from its save, whether or not the secret is ever
\* used to verify, and replaces a secret in force.
PostEnable(q) ==
    /\ \E u \in Enrolled : Receive(q, "signin", "findToEnable", [member |-> u])

PostDisable(q) ==
    /\ \E u \in Enrolled : Receive(q, "signin", "findToDisable", [member |-> u])

FindToEnable(q) ==
    LET u == mem[q].member IN
    /\ At(q, "findToEnable")
    /\ \E s \in Secrets \ spent :
          /\ Goto(q, "saveSecond", [member |-> u, held |-> logins[u].second, secret |-> s])
          /\ spent' = spent \cup {s}
    /\ UNCHANGED <<logins, given, last>>

EnableTwoFactor(q) ==
    LET u == mem[q].member
        refused == Factor(Saved(q)[u]) # mem[q].secret
    IN
    /\ At(q, "saveSecond")
    /\ logins' = Saved(q)
    /\ last' = IF refused THEN last ELSE [last EXCEPT ![u].factor = mem[q].secret]
    /\ Answer(q)
    /\ UNCHANGED <<given, spent>>

FindToDisable(q) ==
    LET u == mem[q].member IN
    /\ At(q, "findToDisable")
    /\ \/ Enabled(logins[u]) /\ Goto(q, "saveDisabled", [member |-> u])
       \/ ~Enabled(logins[u]) /\ Answer(q)

DisableTwoFactor(q) ==
    /\ At(q, "saveDisabled")
    /\ logins' = Saved(q)
    /\ last' = [last EXCEPT ![mem[q].member].factor = None]
    /\ Answer(q)
    /\ UNCHANGED <<given, spent>>

\* updateUser of the password: the second factor it has read is written back.
PutPassword(q) ==
    /\ \E u \in Enrolled, p \in Passwords :
          Receive(q, "signin", "findToUpdate", [member |-> u, password |-> p])

FindToUpdate(q) ==
    LET u == mem[q].member IN
    /\ At(q, "findToUpdate")
    /\ Goto(q, "saveMember", [member |-> u, row |-> [logins[u] EXCEPT !.password = mem[q].password]])

UpdatePassword(q) ==
    /\ At(q, "saveMember")
    /\ logins' = Saved(q)
    /\ last' = [last EXCEPT ![mem[q].member].password = mem[q].row.password]
    /\ Answer(q)
    /\ UNCHANGED <<given, spent>>

------------------------------------------------------------------------------
Held(q) == IF pc'[q] \in MemberHolding THEN {mem'[q].member} ELSE {}
SignInHistory ==
    /\ seen' = [q \in Requests |-> IF pc'[q] \notin SignInSteps THEN {}
                                   ELSE seen[q] \cup {Factor(logins'[mem'[q].member])}]
    /\ muddled' = muddled \cup {u \in Members : \E q, r \in Requests : q # r /\ u \in Held(q) \cap Held(r)}

SignInReads(q) ==
    /\ \/ PostRegister(q) \/ FindMember(q) \/ Auth0Callback(q) \/ FindAuth0User(q)
       \/ PostLogin(q) \/ Login(q) \/ ValidateTwoFactor(q) \/ LoginAgain(q)
       \/ PostEnable(q) \/ PostDisable(q) \/ FindToDisable(q) \/ PutPassword(q) \/ FindToUpdate(q)
    /\ UNCHANGED signInTables

SignInWrites(q) ==
    \/ Register(q) \/ FindOrCreateAuth0User(q) \/ StoreToken(q)
    \/ FindToEnable(q) \/ EnableTwoFactor(q) \/ DisableTwoFactor(q) \/ UpdatePassword(q)

SignInNext ==
    /\ \E q \in Requests : SignInReads(q) \/ SignInWrites(q)
    /\ SignInHistory

\* A request cut off while it holds a row may have saved it without an answer.
SignInInterrupted(q) ==
    /\ pc[q] \in SignInSteps
    /\ Interrupted(q)
    /\ seen' = [seen EXCEPT ![q] = {}]
    /\ \/ UNCHANGED <<logins, muddled>>
       \/ /\ pc[q] \in MemberHolding
          /\ logins' = Saved(q)
          /\ muddled' = muddled \cup {mem[q].member}
    /\ UNCHANGED <<given, last, spent>>

------------------------------------------------------------------------------
\* Whoever is given tokens without a code had no second factor on at some moment of the
\* login, and whoever is given them for a code sent one of a secret in force at some moment
\* of it, although both logins read the row several times.  And the row holds the password
\* and the second factor last answered to the user, neither of them undone by the other,
\* unless two requests held the row at once or an answer was lost (AuthController.ts lines
\* 29 to 144, twoFactorAuthController.ts lines 7 to 42, UserService.ts lines 45 to 66).
SecondFactorHolds ==
    /\ \A g \in given : g.code \in g.seen
    /\ \A u \in Enrolled \ muddled :
          /\ logins[u].password = last[u].password
          /\ Factor(logins[u]) = last[u].factor
==============================================================================
