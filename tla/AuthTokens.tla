----------------------------- MODULE AuthTokens -----------------------------
(***************************************************************************)
(* Refresh tokens: src/src/services/AuthService.ts, the middlewares of     *)
(* src/src/middlewares/authMiddleware.ts and the handlers of               *)
(* src/src/controllers/AuthController.ts.                                  *)
(*                                                                         *)
(* A login issues an access and a refresh token with one id (jti).  Redis  *)
(* holds refresh_token:<user>:<jti>, which a refresh consumes and replaces *)
(* by that of a new id, and blacklist:<jti>, which refuses both tokens.    *)
(* Each Redis call is an await, so concurrent requests interleave between  *)
(* the steps of a rotation.                                                *)
(***************************************************************************)
EXTENDS Naturals, FiniteSets

CONSTANTS
    Tokens,       \* the ids generateTokenId may draw
    Users,
    Requests,     \* HTTP requests that may be in progress at once
    RefreshLife,  \* REFRESH_TOKEN_EXPIRY, 7 days
    AccessLife,   \* ACCESS_TOKEN_EXPIRY, 15 minutes
    Faults,       \* which of "redis", "crash" the environment does
    MaxTime       \* bound: the clock

NoToken == "no token"

ASSUME TokenAssumption ==
    /\ NoToken \notin Tokens
    /\ RefreshLife \in Nat \ {0}
    /\ AccessLife \in 1 .. RefreshLife
    /\ Faults \subseteq {"redis", "crash"}
    /\ MaxTime \in Nat

VARIABLES
    now,         \* the clock
    issued,      \* the tokens signed so far: user, iat, and where they come from
    hash,        \* Redis: when refresh_token:<user>:<jti> expires, 0 if absent
    black,       \* Redis: when blacklist:<jti> expires, 0 if absent
    delivered,   \* tokens that reached their client
    pc,          \* where each request is; steps are named for their await
    mem,         \* what a request works on
    revoked,     \* history: tokens whose logout or revocation went through
    overlapped   \* history: logins one of whose tokens was in two refreshes at once

redis == <<hash, black>>
vars == <<now, issued, redis, delivered, pc, mem, revoked, overlapped>>

Token == [user: Users, iat: Nat, parent: Tokens \cup {NoToken}, root: Tokens]
Memory == [tok: Tokens, user: Users, keys: SUBSET Tokens]
NoMemory == [keys |-> {}]

RefreshSteps == {"match", "delete", "blacklist"}
Steps == RefreshSteps \cup {"store", "ban", "banKey", "deleteKey"}

------------------------------------------------------------------------------
\* verify() and Redis: a token or key is gone when its time has come.
Expired(t) == now >= issued[t].iat + RefreshLife
Stored(t) == now < hash[t]
Banned(t) == now < black[t]
Live(t) == Stored(t) /\ ~Expired(t)

\* authMiddleware of every other route lets the access token of t through.
Admitted(t) == now < issued[t].iat + AccessLife /\ ~Banned(t)

\* Variant for testing the properties: the entry lives as long as the access token.
BanForAccessLife(t) == black' = [black EXCEPT ![t] = now + AccessLife]

\* blacklistToken(jti, exp - iat).
BlacklistToken(t) == black' = [black EXCEPT ![t] = now + RefreshLife]

Goto(q, step) == pc' = [pc EXCEPT ![q] = step]
Remember(q, m) == mem' = [mem EXCEPT ![q] = m]
Finish(q) == Goto(q, "idle") /\ Remember(q, NoMemory)
At(q, step) == pc[q] = step

\* Bound: a login or refresh starts only while an id is left for it.
RoomForToken ==
    Cardinality(Tokens \ DOMAIN issued)
        > Cardinality({q \in Requests : pc[q] \in RefreshSteps})

\* generateTokens: a fresh id, signed now, for the user of request q.
Issue(q, u, parent) ==
    \E t \in Tokens \ DOMAIN issued :
       /\ issued' = [x \in DOMAIN issued \cup {t} |->
            IF x = t
            THEN [user |-> u, iat |-> now, parent |-> parent,
                  root |-> IF parent = NoToken THEN t ELSE issued[parent].root]
            ELSE issued[x]]
       /\ Remember(q, [tok |-> t, user |-> u, keys |-> {}])
       /\ Goto(q, "store")

------------------------------------------------------------------------------
Init ==
    /\ now = 0
    /\ issued = [t \in {} |-> NoMemory]
    /\ hash = [t \in Tokens |-> 0]
    /\ black = [t \in Tokens |-> 0]
    /\ delivered = {}
    /\ pc = [q \in Requests |-> "idle"]
    /\ mem = [q \in Requests |-> NoMemory]
    /\ revoked = {}
    /\ overlapped = {}

ClockTick ==
    /\ now < MaxTime
    /\ now' = now + 1
    /\ UNCHANGED <<issued, redis, delivered, pc, mem, revoked, overlapped>>

------------------------------------------------------------------------------
\* login, loginWith2FA or auth0Callback with the right credentials, up to the
\* await of storeRefreshToken.
Login(q) ==
    /\ At(q, "idle")
    /\ RoomForToken
    /\ \E u \in Users : Issue(q, u, NoToken)
    /\ UNCHANGED <<now, redis, delivered, revoked, overlapped>>

\* storeRefreshToken: SET refresh_token:<user>:<jti> with EX; then the access
\* token and the cookie are sent.  A client that does not get them is one that
\* never presents them.
StoreRefreshToken(q) ==
    /\ At(q, "store")
    /\ hash' = [hash EXCEPT ![mem[q].tok] = now + RefreshLife]
    /\ delivered' = delivered \cup {mem[q].tok}
    /\ Finish(q)
    /\ UNCHANGED <<now, issued, black, revoked, overlapped>>

------------------------------------------------------------------------------
\* A client presents a token it got.  The code asks Redis once more than the
\* model about the blacklist, in refreshTokenMiddleware and again in refresh:
\* the later answer decides, since an entry outlives its token.
Present(q, t, step) ==
    /\ At(q, "idle")
    /\ t \in delivered
    /\ ~Expired(t)
    /\ Remember(q, [tok |-> t, user |-> issued[t].user, keys |-> {}])
    /\ Goto(q, step)

\* refresh: verify(), isTokenBlacklisted and the user, who exists.
Refresh(q) ==
    /\ RoomForToken
    /\ \E t \in delivered :
          /\ ~Banned(t)
          /\ Present(q, t, "match")
          /\ overlapped' =
                IF \E p \in Requests : pc[p] \in RefreshSteps /\ mem[p].tok = t
                THEN overlapped \cup {issued[t].root}
                ELSE overlapped
    /\ UNCHANGED <<now, issued, redis, delivered, revoked>>

\* refresh: GET refresh_token:<user>:<jti> and compare the hash.
MatchStoredHash(q) ==
    /\ At(q, "match")
    /\ IF Stored(mem[q].tok)
       THEN Goto(q, "delete") /\ UNCHANGED mem
       ELSE Finish(q)
    /\ UNCHANGED <<now, issued, redis, delivered, revoked, overlapped>>

\* Variant for testing the properties: the old hash is left to expire.
KeepOldHash(q) ==
    /\ At(q, "delete")
    /\ Goto(q, "blacklist")
    /\ UNCHANGED <<now, issued, redis, delivered, mem, revoked, overlapped>>

\* refresh: DEL refresh_token:<user>:<jti>.
DeleteOldHash(q) ==
    /\ At(q, "delete")
    /\ hash' = [hash EXCEPT ![mem[q].tok] = 0]
    /\ Goto(q, "blacklist")
    /\ UNCHANGED <<now, issued, black, delivered, mem, revoked, overlapped>>

\* Variant for testing the properties: the successor is drawn first and takes
\* the place of its parent in the blacklist.
BlacklistSuccessor(q) ==
    /\ At(q, "blacklist")
    /\ Issue(q, mem[q].user, mem[q].tok)
    /\ BlacklistToken(mem'[q].tok)
    /\ UNCHANGED <<now, hash, delivered, revoked, overlapped>>

\* refresh: blacklistToken, then generateTokens for the successor.
BlacklistOldToken(q) ==
    /\ At(q, "blacklist")
    /\ BlacklistToken(mem[q].tok)
    /\ Issue(q, mem[q].user, mem[q].tok)
    /\ UNCHANGED <<now, hash, delivered, revoked, overlapped>>

------------------------------------------------------------------------------
\* logout: verify() and DEL; an expired token is refused by verify(), and logout
\* swallows that ...
Logout(q) ==
    /\ \E t \in delivered :
          /\ Present(q, t, "ban")
          /\ hash' = [hash EXCEPT ![t] = 0]
    /\ UNCHANGED <<now, issued, black, delivered, revoked, overlapped>>

\* ... then blacklistToken.
LogoutBlacklist(q) ==
    /\ At(q, "ban")
    /\ BlacklistToken(mem[q].tok)
    /\ revoked' = revoked \cup {mem[q].tok}
    /\ Finish(q)
    /\ UNCHANGED <<now, issued, hash, delivered, overlapped>>

\* revokeAllUserSessions: KEYS refresh_token:<user>:* ...
RevokeAll(q) ==
    /\ At(q, "idle")
    /\ \E u \in Users :
          LET keys == {t \in DOMAIN issued : issued[t].user = u /\ Stored(t)}
          IN  /\ keys # {}
              /\ Goto(q, "banKey")
              /\ \E t \in keys :
                    Remember(q, [tok |-> t, user |-> u, keys |-> keys \ {t}])
    /\ UNCHANGED <<now, issued, redis, delivered, revoked, overlapped>>

\* ... and for each of them blacklistToken ...
RevokeBlacklist(q) ==
    /\ At(q, "banKey")
    /\ BlacklistToken(mem[q].tok)
    /\ Goto(q, "deleteKey")
    /\ UNCHANGED <<now, issued, hash, delivered, mem, revoked, overlapped>>

\* ... and DEL.
RevokeDelete(q) ==
    /\ At(q, "deleteKey")
    /\ hash' = [hash EXCEPT ![mem[q].tok] = 0]
    /\ revoked' = revoked \cup {mem[q].tok}
    /\ IF mem[q].keys = {}
       THEN Finish(q)
       ELSE /\ Goto(q, "banKey")
            /\ \E t \in mem[q].keys :
                  Remember(q, [mem[q] EXCEPT !.tok = t, !.keys = @ \ {t}])
    /\ UNCHANGED <<now, issued, black, delivered, overlapped>>

------------------------------------------------------------------------------
\* A Redis or database call throws: a refresh answers 401, a logout answers as if
\* it had worked.
RequestFails(q) ==
    /\ "redis" \in Faults
    /\ pc[q] \in Steps
    /\ Finish(q)
    /\ UNCHANGED <<now, issued, redis, delivered, revoked, overlapped>>

\* The server restarts: Redis keeps its keys.
Crash ==
    /\ "crash" \in Faults
    /\ pc' = [q \in Requests |-> "idle"]
    /\ mem' = [q \in Requests |-> NoMemory]
    /\ UNCHANGED <<now, issued, redis, delivered, revoked, overlapped>>

RefreshStep(q) ==
    \/ MatchStoredHash(q) \/ DeleteOldHash(q) \/ BlacklistOldToken(q)

RequestStep(q) ==
    \/ Login(q) \/ Refresh(q) \/ RefreshStep(q) \/ StoreRefreshToken(q)
    \/ Logout(q) \/ LogoutBlacklist(q)
    \/ RevokeAll(q) \/ RevokeBlacklist(q) \/ RevokeDelete(q)
    \/ RequestFails(q)

Next ==
    \/ ClockTick
    \/ \E q \in Requests : RequestStep(q)
    \/ Crash

Spec == Init /\ [][Next]_vars
------------------------------------------------------------------------------
(***************************************************************************)
(* Properties.                                                             *)
(***************************************************************************)
StoreTypes ==
    /\ now \in Nat
    /\ DOMAIN issued \subseteq Tokens
    /\ issued \in [DOMAIN issued -> Token]
    /\ \A t \in DOMAIN issued : issued[t].iat <= now
    /\ hash \in [Tokens -> Nat]
    /\ black \in [Tokens -> Nat]
    /\ delivered \subseteq DOMAIN issued
    /\ revoked \subseteq DOMAIN issued

RequestTypes ==
    /\ pc \in [Requests -> Steps \cup {"idle"}]
    /\ mem \in [Requests -> Memory \cup {NoMemory}]
    /\ \A q \in Requests : pc[q] # "idle" =>
          /\ mem[q] \in Memory
          /\ {mem[q].tok} \cup mem[q].keys \subseteq DOMAIN issued
          /\ \A t \in {mem[q].tok} \cup mem[q].keys : issued[t].user = mem[q].user

Lineage ==
    \A t \in DOMAIN issued :
       LET p == issued[t].parent
       IN  p # NoToken =>
              /\ p \in DOMAIN issued
              /\ issued[t].user = issued[p].user
              /\ issued[t].root = issued[p].root
              /\ issued[t].iat >= issued[p].iat

\* The records hold values of their type and no token is signed in the future; a
\* request works on tokens that were issued to its user, and a successor belongs
\* to the user and the login of its parent, and is not older.
TypeOK == StoreTypes /\ RequestTypes /\ Lineage

\* Neither of the two tokens is accepted, and that stays so: the refresh token is
\* not stored, the access token not admitted, and the blacklist entry lasts until
\* both have expired.
Dead(t) == ~Stored(t) /\ ~Admitted(t) /\ (Expired(t) \/ Banned(t))

\* A refresh replaces: however many refreshes of one token overlap, and whatever
\* fails, once a successor is signed its parent is dead for good.
SuccessorReplacesParent ==
    \A t \in DOMAIN issued :
        issued[t].parent # NoToken => Dead(issued[t].parent)

\* A token whose logout or revocation went through stays dead: no refresh that
\* was in progress stores it again, and the blacklist outlives it.
RevokedStaysDead == \A t \in revoked : Dead(t)

\* One login has at most one live refresh token, through all its rotations and
\* whatever fails, unless two refreshes of one of its tokens overlapped.
OneLiveTokenPerLogin ==
    \A t, u \in DOMAIN issued :
        /\ issued[t].root = issued[u].root
        /\ issued[t].root \notin overlapped
        /\ Live(t) /\ Live(u)
        => t = u
==============================================================================
