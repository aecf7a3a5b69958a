-------------------------- MODULE AuthTokensProofs --------------------------
(***************************************************************************)
(* Proofs about AuthTokens, for any number of tokens, users and requests.  *)
(***************************************************************************)
EXTENDS AuthTokens, TLAPS

\* A blacklist entry that outlives its token, and a token that is out of use.
BanLasts(t) == black[t] >= issued[t].iat + RefreshLife
Gone(t) == t \in delivered /\ hash[t] = 0 /\ BanLasts(t)

\* Only a delivered token has a hash.
StoredInv == \A t \in Tokens : hash[t] # 0 => t \in delivered

\* A request is about to store a token of its own, that was not stored before;
\* the others work on delivered tokens.
RequestInv ==
    /\ \A q \in Requests : pc[q] = "store" => mem[q].tok \notin delivered
    /\ \A p, q \in Requests :
          pc[p] = "store" /\ pc[q] = "store" /\ mem[p].tok = mem[q].tok => p = q
    /\ \A q \in Requests : pc[q] \notin {"idle", "store"} =>
          {mem[q].tok} \cup mem[q].keys \subseteq delivered

\* What a request has done to its token by the time it is at a step.
ProgressInv ==
    /\ \A q \in Requests : pc[q] \in {"blacklist", "ban"} => hash[mem[q].tok] = 0
    /\ \A q \in Requests : pc[q] = "deleteKey" => BanLasts(mem[q].tok)

GoneInv ==
    /\ \A t \in revoked : Gone(t)
    /\ \A t \in DOMAIN issued :
          issued[t].parent # NoToken => Gone(issued[t].parent)

SafeInv == StoredInv /\ RequestInv /\ ProgressInv /\ GoneInv

------------------------------------------------------------------------------
\* What generateTokens does: t is the fresh token, the others stay as they were.
IssuedAs(q, u, parent, t) ==
    /\ DOMAIN issued' = DOMAIN issued \cup {t}
    /\ issued'[t] = [user |-> u, iat |-> now, parent |-> parent,
                     root |-> IF parent = NoToken THEN t ELSE issued[parent].root]
    /\ \A x \in DOMAIN issued : issued'[x] = issued[x]
    /\ issued' = [x \in DOMAIN issued' |-> issued'[x]]
    /\ mem' = [mem EXCEPT ![q] = [tok |-> t, user |-> u, keys |-> {}]]
    /\ pc' = [pc EXCEPT ![q] = "store"]

LEMMA IssueEffect ==
    ASSUME NEW q, NEW u, NEW parent, Issue(q, u, parent)
    PROVE  \E t \in Tokens \ DOMAIN issued : IssuedAs(q, u, parent, t)
<1>1. PICK t \in Tokens \ DOMAIN issued :
         /\ issued' = [x \in DOMAIN issued \cup {t} |->
              IF x = t
              THEN [user |-> u, iat |-> now, parent |-> parent,
                    root |-> IF parent = NoToken THEN t ELSE issued[parent].root]
              ELSE issued[x]]
         /\ Remember(q, [tok |-> t, user |-> u, keys |-> {}])
         /\ Goto(q, "store")
  BY DEF Issue
<1>2. DOMAIN issued' = DOMAIN issued \cup {t}
  BY <1>1
<1>3. issued'[t] = [user |-> u, iat |-> now, parent |-> parent,
                    root |-> IF parent = NoToken THEN t ELSE issued[parent].root]
  BY <1>1
<1>4. \A x \in DOMAIN issued : issued'[x] = issued[x]
  BY <1>1
<1>5. issued' = [x \in DOMAIN issued' |-> issued'[x]]
  BY <1>1
<1>6. /\ mem' = [mem EXCEPT ![q] = [tok |-> t, user |-> u, keys |-> {}]]
      /\ pc' = [pc EXCEPT ![q] = "store"]
  BY <1>1 DEF Remember, Goto
<1>7. IssuedAs(q, u, parent, t)
  BY <1>2, <1>3, <1>4, <1>5, <1>6, Zenon DEF IssuedAs
<1> QED BY <1>7

\* A successor of an issued token, or a login, keeps the types and the lineage.
LEMMA IssueTypes ==
    ASSUME TypeOK, NEW q \in Requests, NEW u \in Users,
           NEW parent \in DOMAIN issued \cup {NoToken},
           parent # NoToken => issued[parent].user = u,
           Issue(q, u, parent), now' = now, hash' = hash,
           black' \in [Tokens -> Nat], delivered' = delivered, revoked' = revoked
    PROVE  TypeOK'
<1> USE TokenAssumption DEF TokenAssumption
<1>1. PICK t \in Tokens \ DOMAIN issued : IssuedAs(q, u, parent, t)
  BY IssueEffect
<1>2. StoreTypes'
  <2>1. (IF parent = NoToken THEN t ELSE issued[parent].root) \in Tokens
    BY <1>1 DEF TypeOK, StoreTypes, Token
  <2>2. issued'[t] \in Token
    BY <1>1, <2>1 DEF TypeOK, StoreTypes, Token, IssuedAs
  <2>3. \A x \in DOMAIN issued' : issued'[x] \in Token
    BY <1>1, <2>2 DEF TypeOK, StoreTypes, IssuedAs
  <2>4. issued' \in [DOMAIN issued' -> Token]
    BY <1>1, <2>3 DEF IssuedAs
  <2> QED BY <1>1, <2>4 DEF TypeOK, StoreTypes, IssuedAs
<1>3. RequestTypes'
  <2>1. [tok |-> t, user |-> u, keys |-> {}] \in Memory
    BY DEF Memory
  <2>2. /\ mem' \in [Requests -> Memory \cup {NoMemory}]
        /\ pc' \in [Requests -> Steps \cup {"idle"}]
    BY <1>1, <2>1 DEF TypeOK, RequestTypes, Steps, IssuedAs
  <2>3. ASSUME NEW p \in Requests, pc'[p] # "idle"
        PROVE  /\ mem'[p] \in Memory
               /\ {mem'[p].tok} \cup mem'[p].keys \subseteq DOMAIN issued'
               /\ \A x \in {mem'[p].tok} \cup mem'[p].keys :
                     issued'[x].user = mem'[p].user
    <3>1. CASE p = q
      <4>1. mem'[p] = [tok |-> t, user |-> u, keys |-> {}]
        BY <1>1, <3>1 DEF TypeOK, RequestTypes, IssuedAs
      <4> QED BY <4>1, <2>1, <1>1 DEF IssuedAs
    <3>2. CASE p # q
      <4>1. mem'[p] = mem[p] /\ pc'[p] = pc[p]
        BY <1>1, <3>2 DEF TypeOK, RequestTypes, IssuedAs
      <4> QED BY <4>1, <2>3, <1>1 DEF TypeOK, RequestTypes, IssuedAs
    <3> QED BY <3>1, <3>2
  <2> QED BY <2>2, <2>3 DEF RequestTypes
<1>4. Lineage'
  <2> SUFFICES ASSUME NEW x \in DOMAIN issued', issued'[x].parent # NoToken
               PROVE  LET p == issued'[x].parent
                      IN  /\ p \in DOMAIN issued'
                          /\ issued'[x].user = issued'[p].user
                          /\ issued'[x].root = issued'[p].root
                          /\ issued'[x].iat >= issued'[p].iat
    BY DEF Lineage
  <2>1. CASE x = t
    <3>1. /\ parent \in DOMAIN issued
          /\ issued'[x].parent = parent
      BY <2>1, <1>1 DEF IssuedAs
    <3>2. issued'[parent] = issued[parent]
      BY <3>1, <1>1 DEF IssuedAs
    <3> QED BY <2>1, <1>1, <3>1, <3>2 DEF TypeOK, StoreTypes, Token, IssuedAs
  <2>2. CASE x # t
    <3>1. x \in DOMAIN issued /\ issued'[x] = issued[x]
      BY <2>2, <1>1 DEF IssuedAs
    <3>2. PICK y : y = issued[x].parent
      OBVIOUS
    <3>3. /\ y \in DOMAIN issued
          /\ issued[x].user = issued[y].user
          /\ issued[x].root = issued[y].root
          /\ issued[x].iat >= issued[y].iat
      BY <3>1, <3>2, <2>2 DEF TypeOK, Lineage
    <3>4. issued'[y] = issued[y]
      BY <3>3, <1>1 DEF IssuedAs
    <3> QED BY <3>1, <3>2, <3>3, <3>4, <1>1 DEF IssuedAs
  <2> QED BY <2>1, <2>2
<1> QED BY <1>2, <1>3, <1>4 DEF TypeOK

\* A request that goes to a step with a fitting memory keeps the types.
LEMMA MoveTypes ==
    ASSUME TypeOK, NEW q \in Requests,
           NEW step \in Steps \cup {"idle"}, NEW m \in Memory \cup {NoMemory},
           step # "idle" =>
              /\ m \in Memory
              /\ {m.tok} \cup m.keys \subseteq DOMAIN issued
              /\ \A t \in {m.tok} \cup m.keys : issued[t].user = m.user,
           pc' = [pc EXCEPT ![q] = step], mem' = [mem EXCEPT ![q] = m],
           issued' = issued
    PROVE  RequestTypes' /\ Lineage'
<1>1. /\ pc' \in [Requests -> Steps \cup {"idle"}]
      /\ mem' \in [Requests -> Memory \cup {NoMemory}]
  BY DEF TypeOK, RequestTypes
<1>2. ASSUME NEW p \in Requests, pc'[p] # "idle"
      PROVE  /\ mem'[p] \in Memory
             /\ {mem'[p].tok} \cup mem'[p].keys \subseteq DOMAIN issued'
             /\ \A t \in {mem'[p].tok} \cup mem'[p].keys :
                   issued'[t].user = mem'[p].user
  <2>1. CASE p = q
    <3>1. mem'[p] = m /\ pc'[p] = step
      BY <2>1 DEF TypeOK, RequestTypes
    <3> QED BY <3>1, <1>2
  <2>2. CASE p # q
    <3>1. mem'[p] = mem[p] /\ pc'[p] = pc[p]
      BY <2>2 DEF TypeOK, RequestTypes
    <3> QED BY <3>1, <1>2 DEF TypeOK, RequestTypes
  <2> QED BY <2>1, <2>2
<1>3. RequestTypes'
  BY <1>1, <1>2 DEF RequestTypes
<1>4. Lineage'
  BY DEF TypeOK, Lineage
<1> QED BY <1>3, <1>4

\* A request that keeps its memory, or gives it up.
LEMMA GotoTypes ==
    ASSUME TypeOK, NEW q \in Requests, NEW step \in Steps, pc[q] # "idle",
           Goto(q, step), mem' = mem, issued' = issued
    PROVE  RequestTypes' /\ Lineage'
<1>1. /\ mem[q] \in Memory
      /\ {mem[q].tok} \cup mem[q].keys \subseteq DOMAIN issued
      /\ \A t \in {mem[q].tok} \cup mem[q].keys : issued[t].user = mem[q].user
  BY DEF TypeOK, RequestTypes
<1>2. mem' = [mem EXCEPT ![q] = mem[q]]
  BY DEF TypeOK, RequestTypes
<1>3. pc' = [pc EXCEPT ![q] = step]
  BY DEF Goto
<1> QED BY <1>1, <1>2, <1>3, MoveTypes

LEMMA FinishTypes ==
    ASSUME TypeOK, NEW q \in Requests, Finish(q), issued' = issued
    PROVE  RequestTypes' /\ Lineage'
<1>1. pc' = [pc EXCEPT ![q] = "idle"] /\ mem' = [mem EXCEPT ![q] = NoMemory]
  BY DEF Finish, Goto, Remember
<1> QED BY <1>1, MoveTypes

LEMMA PresentTypes ==
    ASSUME TypeOK, NEW q \in Requests, NEW t, NEW step \in Steps,
           Present(q, t, step), issued' = issued
    PROVE  RequestTypes' /\ Lineage'
<1>1. /\ t \in DOMAIN issued
      /\ pc' = [pc EXCEPT ![q] = step]
      /\ mem' = [mem EXCEPT ![q] = [tok |-> t, user |-> issued[t].user, keys |-> {}]]
  BY DEF Present, Goto, Remember, TypeOK, StoreTypes
<1>2. PICK m : m = [tok |-> t, user |-> issued[t].user, keys |-> {}]
  OBVIOUS
<1>3. m \in Memory /\ m.tok = t /\ m.keys = {} /\ m.user = issued[t].user
  BY <1>1, <1>2 DEF Memory, TypeOK, StoreTypes, Token
<1>4. mem' = [mem EXCEPT ![q] = m]
  BY <1>1, <1>2
<1> QED BY <1>1, <1>3, <1>4, MoveTypes

\* An idle request is at no step.
LEMMA StepFacts ==
    /\ "idle" \notin Steps
    /\ {"match", "delete", "blacklist", "store", "ban", "banKey", "deleteKey"} = Steps
BY DEF Steps, RefreshSteps

\* Writing an entry or a hash keeps the types of the stores.
LEMMA BlacklistTypes ==
    ASSUME TypeOK, NEW t \in Tokens, BlacklistToken(t)
    PROVE  black' \in [Tokens -> Nat]
BY TokenAssumption DEF TokenAssumption, BlacklistToken, TypeOK, StoreTypes

------------------------------------------------------------------------------
\* TypeOK is inductive: every step of every request keeps the types of the stores
\* and of its own memory, and the lineage of the tokens.
THEOREM TypesCorrect == Spec => []TypeOK
<1>1. Init => TypeOK
  <2> SUFFICES ASSUME Init PROVE TypeOK
    OBVIOUS
  <2>1. DOMAIN issued = {}
    BY DEF Init
  <2>2. StoreTypes
    BY <2>1 DEF Init, StoreTypes
  <2>3. RequestTypes
    BY DEF Init, RequestTypes
  <2>4. Lineage
    BY <2>1 DEF Lineage
  <2> QED BY <2>2, <2>3, <2>4 DEF TypeOK
<1>2. TypeOK /\ [Next]_vars => TypeOK'
  <2> SUFFICES ASSUME TypeOK, [Next]_vars PROVE TypeOK'
    OBVIOUS
  <2> USE DEF redis
  <2>1. CASE UNCHANGED vars
    BY <2>1 DEF vars, TypeOK, StoreTypes, RequestTypes, Lineage
  <2>2. CASE ClockTick
    <3>1. StoreTypes'
      <4>1. now \in Nat /\ now' = now + 1 /\ issued' = issued
        BY <2>2 DEF ClockTick, TypeOK, StoreTypes
      <4>2. \A t \in DOMAIN issued : issued[t].iat \in Nat /\ issued[t].iat <= now
        BY DEF TypeOK, StoreTypes, Token
      <4>3. \A t \in DOMAIN issued' : issued'[t].iat <= now'
        BY <4>1, <4>2
      <4>4. now' \in Nat
        BY <4>1
      <4> QED BY <2>2, <4>3, <4>4 DEF ClockTick, TypeOK, StoreTypes
    <3>2. RequestTypes'
      BY <2>2 DEF ClockTick, TypeOK, RequestTypes
    <3>3. Lineage'
      BY <2>2 DEF ClockTick, TypeOK, Lineage
    <3> QED BY <3>1, <3>2, <3>3 DEF TypeOK
  <2>3. CASE Crash
    <3>1. StoreTypes'
      BY <2>3 DEF Crash, TypeOK, StoreTypes
    <3>2. RequestTypes'
      BY <2>3 DEF Crash, TypeOK, RequestTypes
    <3>3. Lineage'
      BY <2>3 DEF Crash, TypeOK, Lineage
    <3> QED BY <3>1, <3>2, <3>3 DEF TypeOK
  <2>4. ASSUME NEW q \in Requests, RequestStep(q) PROVE TypeOK'
    <3>1. CASE Login(q)
      <4>1. PICK u \in Users : Issue(q, u, NoToken)
        BY <3>1 DEF Login
      <4> QED BY <3>1, <4>1, IssueTypes DEF Login, TypeOK, StoreTypes
    <3>2. CASE Refresh(q)
      <4>1. PICK t \in delivered : Present(q, t, "match")
        BY <3>2 DEF Refresh
      <4>2. StoreTypes'
        BY <3>2 DEF Refresh, TypeOK, StoreTypes
      <4>3. issued' = issued
        BY <3>2 DEF Refresh
      <4> QED BY <4>1, <4>2, <4>3, PresentTypes, StepFacts DEF TypeOK
    <3>3. CASE MatchStoredHash(q)
      <4>1. StoreTypes' /\ issued' = issued
        BY <3>3 DEF MatchStoredHash, TypeOK, StoreTypes
      <4>2. CASE Goto(q, "delete") /\ UNCHANGED mem
        BY <3>3, <4>1, <4>2, GotoTypes, StepFacts DEF MatchStoredHash, At, TypeOK
      <4>3. CASE Finish(q)
        BY <4>1, <4>3, FinishTypes DEF TypeOK
      <4> QED BY <3>3, <4>2, <4>3 DEF MatchStoredHash
    <3>4. CASE DeleteOldHash(q)
      <4>1. StoreTypes'
        BY <3>4 DEF DeleteOldHash, TypeOK, StoreTypes
      <4> QED BY <3>4, <4>1, GotoTypes, StepFacts DEF DeleteOldHash, At, TypeOK
    <3>5. CASE BlacklistOldToken(q)
      <4>1. pc[q] = "blacklist"
        BY <3>5 DEF BlacklistOldToken, At
      <4>2. PICK old, u : old = mem[q].tok /\ u = mem[q].user
        OBVIOUS
      <4>3. /\ old \in DOMAIN issued /\ old \in Tokens
            /\ u = issued[old].user /\ u \in Users
        BY <4>1, <4>2 DEF TypeOK, RequestTypes, StoreTypes, Memory
      <4>4. black' \in [Tokens -> Nat]
        BY <3>5, <4>2, <4>3, BlacklistTypes DEF BlacklistOldToken
      <4>5. Issue(q, u, old)
        BY <3>5, <4>2 DEF BlacklistOldToken
      <4> QED BY <3>5, <4>3, <4>4, <4>5, IssueTypes DEF BlacklistOldToken
    <3>6. CASE StoreRefreshToken(q)
      <4>1. mem[q].tok \in DOMAIN issued
        BY <3>6 DEF StoreRefreshToken, At, TypeOK, RequestTypes
      <4>2. StoreTypes'
        BY <3>6, <4>1, TokenAssumption
        DEF TokenAssumption, StoreRefreshToken, TypeOK, StoreTypes
      <4> QED BY <3>6, <4>2, FinishTypes DEF StoreRefreshToken, TypeOK
    <3>7. CASE Logout(q)
      <4>1. PICK t \in delivered :
               Present(q, t, "ban") /\ hash' = [hash EXCEPT ![t] = 0]
        BY <3>7 DEF Logout
      <4>2. StoreTypes' /\ issued' = issued
        BY <3>7, <4>1 DEF Logout, TypeOK, StoreTypes
      <4> QED BY <4>1, <4>2, PresentTypes, StepFacts DEF TypeOK
    <3>8. CASE LogoutBlacklist(q)
      <4>1. mem[q].tok \in DOMAIN issued /\ mem[q].tok \in Tokens
        BY <3>8 DEF LogoutBlacklist, At, TypeOK, RequestTypes, StoreTypes
      <4>2. black' \in [Tokens -> Nat]
        BY <3>8, <4>1, BlacklistTypes DEF LogoutBlacklist
      <4>3. StoreTypes'
        BY <3>8, <4>1, <4>2 DEF LogoutBlacklist, TypeOK, StoreTypes
      <4> QED BY <3>8, <4>3, FinishTypes DEF LogoutBlacklist, TypeOK
    <3>9. CASE RevokeAll(q)
      <4>1. PICK u \in Users :
               LET keys == {x \in DOMAIN issued : issued[x].user = u /\ Stored(x)}
               IN  /\ Goto(q, "banKey")
                   /\ \E t \in keys :
                        Remember(q, [tok |-> t, user |-> u, keys |-> keys \ {t}])
        BY <3>9 DEF RevokeAll
      <4>2. PICK keys : keys = {x \in DOMAIN issued : issued[x].user = u /\ Stored(x)}
        OBVIOUS
      <4>3. PICK t \in keys :
               Remember(q, [tok |-> t, user |-> u, keys |-> keys \ {t}])
        BY <4>1, <4>2
      <4>4. PICK m : m = [tok |-> t, user |-> u, keys |-> keys \ {t}]
        OBVIOUS
      <4>5. /\ m \in Memory
            /\ {m.tok} \cup m.keys \subseteq DOMAIN issued
            /\ \A x \in {m.tok} \cup m.keys : issued[x].user = m.user
        BY <4>2, <4>4 DEF Memory, TypeOK, StoreTypes
      <4>6. pc' = [pc EXCEPT ![q] = "banKey"] /\ mem' = [mem EXCEPT ![q] = m]
        BY <4>1, <4>3, <4>4 DEF Goto, Remember
      <4>7. StoreTypes' /\ issued' = issued
        BY <3>9 DEF RevokeAll, TypeOK, StoreTypes
      <4> QED BY <4>5, <4>6, <4>7, MoveTypes, StepFacts DEF TypeOK
    <3>10. CASE RevokeBlacklist(q)
      <4>1. mem[q].tok \in Tokens
        BY <3>10 DEF RevokeBlacklist, At, TypeOK, RequestTypes, StoreTypes
      <4>2. black' \in [Tokens -> Nat]
        BY <3>10, <4>1, BlacklistTypes DEF RevokeBlacklist
      <4>3. StoreTypes'
        BY <3>10, <4>2 DEF RevokeBlacklist, TypeOK, StoreTypes
      <4> QED BY <3>10, <4>3, GotoTypes, StepFacts DEF RevokeBlacklist, At, TypeOK
    <3>11. CASE RevokeDelete(q)
      <4>1. /\ mem[q] \in Memory
            /\ {mem[q].tok} \cup mem[q].keys \subseteq DOMAIN issued
            /\ \A x \in {mem[q].tok} \cup mem[q].keys : issued[x].user = mem[q].user
        BY <3>11 DEF RevokeDelete, At, TypeOK, RequestTypes
      <4>2. StoreTypes' /\ issued' = issued
        BY <3>11, <4>1 DEF RevokeDelete, TypeOK, StoreTypes
      <4>3. CASE mem[q].keys = {}
        BY <3>11, <4>2, <4>3, FinishTypes DEF RevokeDelete, TypeOK
      <4>4. CASE mem[q].keys # {}
        <5>1. PICK t \in mem[q].keys :
                 Remember(q, [mem[q] EXCEPT !.tok = t, !.keys = @ \ {t}])
          BY <3>11, <4>4 DEF RevokeDelete
        <5>2. PICK m : m = [mem[q] EXCEPT !.tok = t, !.keys = @ \ {t}]
          OBVIOUS
        <5>3. t \in Tokens
          BY <4>1, <5>1 DEF Memory
        <5>4. /\ m \in Memory
              /\ m.tok = t /\ m.keys = mem[q].keys \ {t} /\ m.user = mem[q].user
          BY <4>1, <5>2, <5>3 DEF Memory
        <5>5. pc' = [pc EXCEPT ![q] = "banKey"] /\ mem' = [mem EXCEPT ![q] = m]
          BY <3>11, <4>4, <5>1, <5>2 DEF RevokeDelete, Goto, Remember
        <5> QED BY <4>1, <4>2, <5>1, <5>4, <5>5, MoveTypes, StepFacts DEF TypeOK
      <4> QED BY <4>3, <4>4
    <3>12. CASE RequestFails(q)
      <4>1. StoreTypes'
        BY <3>12 DEF RequestFails, TypeOK, StoreTypes
      <4> QED BY <3>12, <4>1, FinishTypes DEF RequestFails, TypeOK
    <3> QED
      BY <2>4, <3>1, <3>2, <3>3, <3>4, <3>5, <3>6, <3>7, <3>8, <3>9, <3>10,
         <3>11, <3>12
      DEF RequestStep, RefreshStep
  <2> QED BY <2>1, <2>2, <2>3, <2>4 DEF Next
<1> QED BY <1>1, <1>2, PTL DEF Spec

------------------------------------------------------------------------------
\* An entry of the blacklist is only ever made longer.
LEMMA BanKept ==
    ASSUME TypeOK, black' = black \/ \E u \in Tokens : BlacklistToken(u),
           \A x \in DOMAIN issued : issued'[x] = issued[x],
           NEW t \in DOMAIN issued, BanLasts(t)
    PROVE  black'[t] >= issued'[t].iat + RefreshLife
<1>1. /\ issued[t].iat \in Nat /\ issued[t].iat <= now /\ now \in Nat
      /\ RefreshLife \in Nat /\ black[t] \in Nat
  BY TokenAssumption DEF TokenAssumption, TypeOK, StoreTypes, Token
<1>2. CASE black' = black
  BY <1>2 DEF BanLasts
<1>3. ASSUME NEW u \in Tokens, BlacklistToken(u)
      PROVE  black'[t] >= issued'[t].iat + RefreshLife
  <2>1. black'[t] = IF t = u THEN now + RefreshLife ELSE black[t]
    BY <1>3 DEF BlacklistToken, TypeOK, StoreTypes
  <2>2. CASE t = u
    BY <1>1, <2>1, <2>2
  <2>3. CASE t # u
    BY <1>1, <2>1, <2>3 DEF BanLasts
  <2> QED BY <2>2, <2>3
<1> QED BY <1>2, <1>3

\* Blacklisting covers the life of the token.
LEMMA BanCovers ==
    ASSUME TypeOK, NEW t \in DOMAIN issued, BlacklistToken(t)
    PROVE  black'[t] >= issued[t].iat + RefreshLife
<1>1. /\ issued[t].iat \in Nat /\ issued[t].iat <= now /\ now \in Nat
      /\ RefreshLife \in Nat /\ t \in Tokens
  BY TokenAssumption DEF TokenAssumption, TypeOK, StoreTypes, Token
<1>2. black'[t] = now + RefreshLife
  BY <1>1 DEF BlacklistToken, TypeOK, StoreTypes
<1> QED BY <1>1, <1>2

\* What is out of use stays so as long as its hash is not set again.
LEMMA GoneKept ==
    ASSUME TypeOK, black' = black \/ \E u \in Tokens : BlacklistToken(u),
           \A x \in DOMAIN issued : issued'[x] = issued[x],
           delivered \subseteq delivered',
           NEW t, Gone(t), hash'[t] = 0
    PROVE  Gone(t)'
<1>1. t \in DOMAIN issued /\ BanLasts(t) /\ t \in delivered
  BY DEF Gone, TypeOK, StoreTypes
<1>2. black'[t] >= issued'[t].iat + RefreshLife
  BY <1>1, BanKept
<1> QED BY <1>1, <1>2 DEF Gone, BanLasts

\* Any step of a request that neither signs nor stores a token.
LEMMA MoveSafe ==
    ASSUME TypeOK, SafeInv, NEW q \in Requests,
           NEW step \in (Steps \cup {"idle"}) \ {"store"},
           NEW m \in Memory \cup {NoMemory},
           step # "idle" => {m.tok} \cup m.keys \subseteq delivered,
           pc' = [pc EXCEPT ![q] = step], mem' = [mem EXCEPT ![q] = m],
           issued' = issued, delivered' = delivered,
           hash' = hash \/ \E u \in Tokens : hash' = [hash EXCEPT ![u] = 0],
           black' = black \/ \E u \in Tokens : BlacklistToken(u),
           step \in {"blacklist", "ban"} => hash'[m.tok] = 0,
           step = "deleteKey" => black'[m.tok] >= issued[m.tok].iat + RefreshLife,
           \A t \in revoked' \ revoked : Gone(t)'
    PROVE  SafeInv'
<1>1. \A t \in Tokens : hash'[t] = hash[t] \/ hash'[t] = 0
  BY DEF TypeOK, StoreTypes
<1>2. StoredInv'
  BY <1>1 DEF SafeInv, StoredInv
<1>3. \A p \in Requests : p # q => pc'[p] = pc[p] /\ mem'[p] = mem[p]
  BY DEF TypeOK, RequestTypes
<1>4. pc'[q] = step /\ mem'[q] = m
  BY DEF TypeOK, RequestTypes
<1>5. RequestInv'
  BY <1>3, <1>4 DEF SafeInv, RequestInv
<1>6. \A p \in Requests : pc[p] # "idle" =>
         mem[p].tok \in DOMAIN issued /\ mem[p].tok \in Tokens
  BY DEF TypeOK, RequestTypes, StoreTypes
<1>7. ProgressInv'
  <2>1. ASSUME NEW p \in Requests, pc'[p] \in {"blacklist", "ban"}
        PROVE  hash'[mem'[p].tok] = 0
    <3>1. CASE p = q
      BY <1>4, <2>1, <3>1
    <3>2. CASE p # q
      BY <1>1, <1>3, <1>6, <2>1, <3>2 DEF SafeInv, ProgressInv
    <3> QED BY <3>1, <3>2
  <2>2. ASSUME NEW p \in Requests, pc'[p] = "deleteKey"
        PROVE  black'[mem'[p].tok] >= issued'[mem'[p].tok].iat + RefreshLife
    <3>1. CASE p = q
      BY <1>4, <2>2, <3>1
    <3>2. CASE p # q
      <4>1. PICK t : t = mem[p].tok
        OBVIOUS
      <4>2. t \in DOMAIN issued /\ BanLasts(t) /\ mem'[p].tok = t
        BY <1>3, <1>6, <2>2, <3>2, <4>1 DEF SafeInv, ProgressInv
      <4> QED BY <4>2, BanKept
    <3> QED BY <3>1, <3>2
  <2> QED BY <2>1, <2>2 DEF ProgressInv, BanLasts
<1>8. ASSUME NEW t, Gone(t) PROVE Gone(t)'
  <2>1. t \in Tokens /\ hash[t] = 0
    BY <1>8 DEF Gone, TypeOK, StoreTypes
  <2>2. hash'[t] = 0
    BY <1>1, <2>1
  <2> QED BY <1>8, <2>2, GoneKept
<1>9. GoneInv'
  <2>1. \A t \in revoked' : Gone(t)'
    BY <1>8 DEF SafeInv, GoneInv
  <2>2. ASSUME NEW t \in DOMAIN issued', issued'[t].parent # NoToken
        PROVE  Gone(issued[t].parent)'
    <3>1. PICK y : y = issued[t].parent
      OBVIOUS
    <3>2. Gone(y)
      BY <2>2, <3>1 DEF SafeInv, GoneInv
    <3>3. Gone(y)'
      BY <1>8, <3>2
    <3> QED BY <3>1, <3>3
  <2> QED BY <2>1, <2>2 DEF GoneInv
<1> QED BY <1>2, <1>5, <1>7, <1>9 DEF SafeInv

\* Signing a token whose parent, if any, is out of use.
LEMMA IssueSafe ==
    ASSUME TypeOK, TypeOK', SafeInv, NEW q \in Requests, NEW u,
           NEW parent \in Tokens \cup {NoToken},
           Issue(q, u, parent), parent # NoToken => Gone(parent)',
           hash' = hash, black' = black \/ \E t \in Tokens : BlacklistToken(t),
           delivered' = delivered, revoked' = revoked
    PROVE  SafeInv'
<1>1. PICK t \in Tokens \ DOMAIN issued : IssuedAs(q, u, parent, t)
  BY IssueEffect
<1>2. StoredInv'
  BY DEF SafeInv, StoredInv
<1>3. \A p \in Requests : p # q => pc'[p] = pc[p] /\ mem'[p] = mem[p]
  BY <1>1 DEF TypeOK, RequestTypes, IssuedAs
<1>4. pc'[q] = "store" /\ mem'[q].tok = t
  BY <1>1 DEF TypeOK, RequestTypes, IssuedAs
<1>5. t \notin delivered
  BY DEF TypeOK, StoreTypes
<1>6. \A p \in Requests : pc[p] # "idle" => mem[p].tok \in DOMAIN issued
  BY DEF TypeOK, RequestTypes
<1>7. RequestInv'
  <2>1. \A p \in Requests : pc'[p] = "store" => mem'[p].tok \notin delivered'
    BY <1>3, <1>4, <1>5 DEF SafeInv, RequestInv
  <2>2. ASSUME NEW p \in Requests, NEW r \in Requests, pc'[p] = "store",
               pc'[r] = "store", mem'[p].tok = mem'[r].tok
        PROVE  p = r
    BY <1>3, <1>4, <1>6, <2>2 DEF SafeInv, RequestInv
  <2>3. \A p \in Requests : pc'[p] \notin {"idle", "store"} =>
           {mem'[p].tok} \cup mem'[p].keys \subseteq delivered'
    BY <1>3, <1>4 DEF SafeInv, RequestInv
  <2> QED BY <2>1, <2>2, <2>3 DEF RequestInv
<1>8. \A x \in DOMAIN issued : issued'[x] = issued[x]
  BY <1>1 DEF IssuedAs
<1>9. ProgressInv'
  <2>1. \A p \in Requests : pc'[p] \in {"blacklist", "ban"} => hash'[mem'[p].tok] = 0
    BY <1>3, <1>4 DEF SafeInv, ProgressInv
  <2>2. ASSUME NEW p \in Requests, pc'[p] = "deleteKey"
        PROVE  black'[mem'[p].tok] >= issued'[mem'[p].tok].iat + RefreshLife
    <3>1. PICK x : x = mem[p].tok
      OBVIOUS
    <3>2. x \in DOMAIN issued /\ BanLasts(x) /\ mem'[p].tok = x
      BY <1>3, <1>4, <1>6, <2>2, <3>1 DEF SafeInv, ProgressInv
    <3> QED BY <1>8, <3>2, BanKept
  <2> QED BY <2>1, <2>2 DEF ProgressInv, BanLasts
<1>10. ASSUME NEW x, Gone(x) PROVE Gone(x)'
  <2>1. hash'[x] = 0
    BY <1>10 DEF Gone
  <2> QED BY <1>8, <1>10, <2>1, GoneKept
<1>11. GoneInv'
  <2>1. \A x \in revoked' : Gone(x)'
    BY <1>10 DEF SafeInv, GoneInv
  <2>2. ASSUME NEW x \in DOMAIN issued', NEW y, y = issued'[x].parent, y # NoToken
        PROVE  Gone(y)'
    <3>1. CASE x = t
      BY <1>1, <2>2, <3>1 DEF IssuedAs
    <3>2. CASE x # t
      <4>1. x \in DOMAIN issued /\ y = issued[x].parent
        BY <1>1, <2>2, <3>2 DEF IssuedAs
      <4> QED BY <1>10, <2>2, <4>1 DEF SafeInv, GoneInv
    <3> QED BY <3>1, <3>2
  <2> QED BY <2>1, <2>2 DEF GoneInv
<1> QED BY <1>2, <1>7, <1>9, <1>11 DEF SafeInv

\* A token is stored once, by the request that signed it.
LEMMA StoreSafe ==
    ASSUME TypeOK, SafeInv, NEW q \in Requests, StoreRefreshToken(q)
    PROVE  SafeInv'
<1> USE DEF redis
<1>1. PICK t : t = mem[q].tok
  OBVIOUS
<1>2. t \in Tokens /\ t \notin delivered /\ pc[q] = "store"
  BY <1>1 DEF StoreRefreshToken, At, SafeInv, RequestInv, TypeOK, RequestTypes, StoreTypes
<1>3. /\ hash' = [hash EXCEPT ![t] = now + RefreshLife]
      /\ delivered' = delivered \cup {t}
      /\ pc' = [pc EXCEPT ![q] = "idle"]
      /\ mem' = [mem EXCEPT ![q] = NoMemory]
      /\ UNCHANGED <<issued, black, revoked>>
  BY <1>1 DEF StoreRefreshToken, Finish, Goto, Remember
<1>4. \A x \in Tokens : x # t => hash'[x] = hash[x]
  BY <1>3 DEF TypeOK, StoreTypes
<1>5. StoredInv'
  BY <1>3, <1>4 DEF SafeInv, StoredInv
<1>6. \A p \in Requests : p # q => pc'[p] = pc[p] /\ mem'[p] = mem[p]
  BY <1>3 DEF TypeOK, RequestTypes
<1>7. pc'[q] = "idle"
  BY <1>3 DEF TypeOK, RequestTypes
<1>8. RequestInv'
  <2>1. ASSUME NEW p \in Requests, pc'[p] = "store" PROVE mem'[p].tok \notin delivered'
    <3>1. p # q /\ pc[p] = "store" /\ mem'[p] = mem[p]
      BY <1>6, <1>7, <2>1
    <3>2. mem[p].tok # t /\ mem[p].tok \notin delivered
      BY <1>1, <1>2, <3>1 DEF SafeInv, RequestInv
    <3> QED BY <1>3, <3>1, <3>2
  <2>2. ASSUME NEW p \in Requests, NEW r \in Requests, pc'[p] = "store",
               pc'[r] = "store", mem'[p].tok = mem'[r].tok
        PROVE  p = r
    BY <1>6, <1>7, <2>2 DEF SafeInv, RequestInv
  <2>3. \A p \in Requests : pc'[p] \notin {"idle", "store"} =>
           {mem'[p].tok} \cup mem'[p].keys \subseteq delivered'
    BY <1>3, <1>6, <1>7 DEF SafeInv, RequestInv
  <2> QED BY <2>1, <2>2, <2>3 DEF RequestInv
<1>9. ProgressInv'
  <2>1. ASSUME NEW p \in Requests, pc'[p] \in {"blacklist", "ban"}
        PROVE  hash'[mem'[p].tok] = 0
    <3>1. p # q /\ pc[p] \in {"blacklist", "ban"} /\ mem'[p] = mem[p]
      BY <1>6, <1>7, <2>1
    <3>2. mem[p].tok \in delivered /\ hash[mem[p].tok] = 0
      BY <3>1 DEF SafeInv, RequestInv, ProgressInv
    <3> QED BY <1>2, <1>4, <3>1, <3>2 DEF TypeOK, StoreTypes
  <2>2. \A p \in Requests : pc'[p] = "deleteKey" =>
           black'[mem'[p].tok] >= issued'[mem'[p].tok].iat + RefreshLife
    BY <1>3, <1>6, <1>7 DEF SafeInv, ProgressInv, BanLasts
  <2> QED BY <2>1, <2>2 DEF ProgressInv, BanLasts
<1>10. ASSUME NEW x, Gone(x) PROVE Gone(x)'
  BY <1>2, <1>3, <1>4, <1>10 DEF Gone, BanLasts, TypeOK, StoreTypes
<1>11. GoneInv'
  BY <1>3, <1>10 DEF SafeInv, GoneInv
<1> QED BY <1>5, <1>8, <1>9, <1>11 DEF SafeInv

\* What is out of use is dead: neither stored nor let through, until it expires.
LEMMA GoneIsDead ==
    ASSUME TypeOK, NEW t, Gone(t)
    PROVE  Dead(t)
<1>1. /\ t \in DOMAIN issued /\ t \in Tokens
      /\ hash[t] = 0 /\ black[t] >= issued[t].iat + RefreshLife
  BY DEF Gone, BanLasts, TypeOK, StoreTypes
<1>2. /\ now \in Nat /\ issued[t].iat \in Nat /\ black[t] \in Nat
      /\ RefreshLife \in Nat /\ AccessLife \in Nat /\ AccessLife <= RefreshLife
  BY <1>1, TokenAssumption DEF TokenAssumption, TypeOK, StoreTypes, Token
<1>3. ~Stored(t)
  BY <1>1, <1>2 DEF Stored
<1>4. Expired(t) \/ Banned(t)
  BY <1>1, <1>2 DEF Expired, Banned
<1>5. ~Admitted(t)
  BY <1>1, <1>2 DEF Admitted, Banned
<1> QED BY <1>3, <1>4, <1>5 DEF Dead

\* The tokens of a request that is not idle, and its memory.
LEMMA WorkFacts ==
    ASSUME TypeOK, SafeInv, NEW q \in Requests, pc[q] \notin {"idle", "store"}
    PROVE  /\ mem[q] \in Memory
           /\ mem[q].tok \in Tokens /\ mem[q].tok \in DOMAIN issued
           /\ {mem[q].tok} \cup mem[q].keys \subseteq delivered
           /\ mem = [mem EXCEPT ![q] = mem[q]]
BY DEF TypeOK, StoreTypes, RequestTypes, SafeInv, RequestInv

LEMMA StepKeepsSafe ==
    ASSUME TypeOK, TypeOK', SafeInv, NEW q \in Requests, RequestStep(q)
    PROVE  SafeInv'
<1> USE DEF redis
<1>1. CASE Login(q)
  <2>1. PICK u \in Users : Issue(q, u, NoToken)
    BY <1>1 DEF Login
  <2> QED BY <1>1, <2>1, IssueSafe DEF Login
<1>2. CASE Refresh(q)
  <2>1. PICK t \in delivered : Present(q, t, "match")
    BY <1>2 DEF Refresh
  <2>2. PICK m : m = [tok |-> t, user |-> issued[t].user, keys |-> {}]
    OBVIOUS
  <2>3. m \in Memory /\ {m.tok} \cup m.keys \subseteq delivered
    BY <2>1, <2>2 DEF Memory, TypeOK, StoreTypes, Token
  <2>4. pc' = [pc EXCEPT ![q] = "match"] /\ mem' = [mem EXCEPT ![q] = m]
    BY <2>1, <2>2 DEF Present, Goto, Remember
  <2> QED BY <1>2, <2>3, <2>4, MoveSafe, StepFacts DEF Refresh
<1>3. CASE MatchStoredHash(q)
  <2>1. pc[q] = "match"
    BY <1>3 DEF MatchStoredHash, At
  <2>2. UNCHANGED <<issued, delivered, hash, black, revoked>>
    BY <1>3 DEF MatchStoredHash
  <2>3. CASE Goto(q, "delete") /\ UNCHANGED mem
    BY <2>1, <2>2, <2>3, WorkFacts, MoveSafe, StepFacts DEF Goto
  <2>4. CASE Finish(q)
    BY <2>2, <2>4, MoveSafe DEF Finish, Goto, Remember
  <2> QED BY <1>3, <2>3, <2>4 DEF MatchStoredHash
<1>4. CASE DeleteOldHash(q)
  <2>1. pc[q] = "delete"
    BY <1>4 DEF DeleteOldHash, At
  <2>2. hash'[mem[q].tok] = 0
    BY <1>4, <2>1, WorkFacts DEF DeleteOldHash, TypeOK, StoreTypes
  <2> QED BY <1>4, <2>1, <2>2, WorkFacts, MoveSafe, StepFacts DEF DeleteOldHash, Goto
<1>5. CASE BlacklistOldToken(q)
  <2>1. pc[q] = "blacklist"
    BY <1>5 DEF BlacklistOldToken, At
  <2>2. PICK old, u : old = mem[q].tok /\ u = mem[q].user
    OBVIOUS
  <2>3. /\ BlacklistToken(old) /\ Issue(q, u, old)
        /\ UNCHANGED <<hash, delivered, revoked>>
    BY <1>5, <2>2 DEF BlacklistOldToken
  <2>4. old \in Tokens /\ old \in DOMAIN issued /\ old \in delivered
    BY <2>1, <2>2, WorkFacts
  <2>5. hash[old] = 0
    BY <2>1, <2>2 DEF SafeInv, ProgressInv
  <2>6. black'[old] >= issued[old].iat + RefreshLife
    BY <2>3, <2>4, BanCovers
  <2>7. issued'[old] = issued[old]
    BY <2>3, <2>4, IssueEffect DEF IssuedAs
  <2>8. Gone(old)'
    BY <2>3, <2>4, <2>5, <2>6, <2>7 DEF Gone, BanLasts
  <2> QED BY <2>3, <2>4, <2>8, IssueSafe
<1>6. CASE StoreRefreshToken(q)
  BY <1>6, StoreSafe
<1>7. CASE Logout(q)
  <2>1. PICK t \in delivered : Present(q, t, "ban") /\ hash' = [hash EXCEPT ![t] = 0]
    BY <1>7 DEF Logout
  <2>2. PICK m : m = [tok |-> t, user |-> issued[t].user, keys |-> {}]
    OBVIOUS
  <2>3. m \in Memory /\ {m.tok} \cup m.keys \subseteq delivered
    BY <2>1, <2>2 DEF Memory, TypeOK, StoreTypes, Token
  <2>4. pc' = [pc EXCEPT ![q] = "ban"] /\ mem' = [mem EXCEPT ![q] = m]
    BY <2>1, <2>2 DEF Present, Goto, Remember
  <2>5. t \in Tokens /\ hash'[m.tok] = 0
    BY <2>1, <2>2 DEF TypeOK, StoreTypes
  <2> QED BY <1>7, <2>1, <2>3, <2>4, <2>5, MoveSafe, StepFacts DEF Logout
<1>8. CASE LogoutBlacklist(q)
  <2>1. pc[q] = "ban"
    BY <1>8 DEF LogoutBlacklist, At
  <2>2. PICK t : t = mem[q].tok
    OBVIOUS
  <2>3. /\ BlacklistToken(t) /\ revoked' = revoked \cup {t}
        /\ UNCHANGED <<issued, hash, delivered>>
        /\ pc' = [pc EXCEPT ![q] = "idle"] /\ mem' = [mem EXCEPT ![q] = NoMemory]
    BY <1>8, <2>2 DEF LogoutBlacklist, Finish, Goto, Remember
  <2>4. t \in Tokens /\ t \in DOMAIN issued /\ t \in delivered /\ hash[t] = 0
    BY <2>1, <2>2, WorkFacts DEF SafeInv, ProgressInv
  <2>5. Gone(t)'
    BY <2>3, <2>4, BanCovers DEF Gone, BanLasts
  <2> QED BY <2>3, <2>4, <2>5, MoveSafe
<1>9. CASE RevokeAll(q)
  <2>1. PICK u \in Users :
           LET keys == {x \in DOMAIN issued : issued[x].user = u /\ Stored(x)}
           IN  /\ Goto(q, "banKey")
               /\ \E t \in keys :
                    Remember(q, [tok |-> t, user |-> u, keys |-> keys \ {t}])
    BY <1>9 DEF RevokeAll
  <2>2. PICK keys : keys = {x \in DOMAIN issued : issued[x].user = u /\ Stored(x)}
    OBVIOUS
  <2>3. PICK t \in keys :
           Remember(q, [tok |-> t, user |-> u, keys |-> keys \ {t}])
    BY <2>1, <2>2
  <2>4. PICK m : m = [tok |-> t, user |-> u, keys |-> keys \ {t}]
    OBVIOUS
  <2>5. \A x \in keys : x \in Tokens /\ hash[x] # 0
    BY <2>2 DEF Stored, TypeOK, StoreTypes
  <2>6. m \in Memory /\ {m.tok} \cup m.keys \subseteq delivered
    BY <2>4, <2>5 DEF Memory, SafeInv, StoredInv
  <2>7. pc' = [pc EXCEPT ![q] = "banKey"] /\ mem' = [mem EXCEPT ![q] = m]
    BY <2>1, <2>3, <2>4 DEF Goto, Remember
  <2> QED BY <1>9, <2>6, <2>7, MoveSafe, StepFacts DEF RevokeAll
<1>10. CASE RevokeBlacklist(q)
  <2>1. pc[q] = "banKey"
    BY <1>10 DEF RevokeBlacklist, At
  <2>2. black'[mem[q].tok] >= issued[mem[q].tok].iat + RefreshLife
    BY <1>10, <2>1, WorkFacts, BanCovers DEF RevokeBlacklist
  <2> QED BY <1>10, <2>1, <2>2, WorkFacts, MoveSafe, StepFacts DEF RevokeBlacklist, Goto
<1>11. CASE RevokeDelete(q)
  <2>1. pc[q] = "deleteKey"
    BY <1>11 DEF RevokeDelete, At
  <2>2. PICK t : t = mem[q].tok
    OBVIOUS
  <2>3. /\ hash' = [hash EXCEPT ![t] = 0] /\ revoked' = revoked \cup {t}
        /\ UNCHANGED <<issued, black, delivered>>
    BY <1>11, <2>2 DEF RevokeDelete
  <2>4. t \in Tokens /\ t \in DOMAIN issued /\ t \in delivered /\ BanLasts(t)
    BY <2>1, <2>2, WorkFacts DEF SafeInv, ProgressInv
  <2>5. Gone(t)'
    BY <2>3, <2>4 DEF Gone, BanLasts, TypeOK, StoreTypes
  <2>6. CASE mem[q].keys = {}
    <3>1. pc' = [pc EXCEPT ![q] = "idle"] /\ mem' = [mem EXCEPT ![q] = NoMemory]
      BY <1>11, <2>6 DEF RevokeDelete, Finish, Goto, Remember
    <3> QED BY <2>3, <2>4, <2>5, <3>1, MoveSafe
  <2>7. CASE mem[q].keys # {}
    <3>1. PICK x \in mem[q].keys :
             Remember(q, [mem[q] EXCEPT !.tok = x, !.keys = @ \ {x}])
      BY <1>11, <2>7 DEF RevokeDelete
    <3>2. PICK m : m = [mem[q] EXCEPT !.tok = x, !.keys = @ \ {x}]
      OBVIOUS
    <3>3. mem[q] \in Memory /\ mem[q].keys \subseteq delivered /\ x \in Tokens
      BY <2>1, <3>1, WorkFacts DEF Memory
    <3>4. m \in Memory /\ m.tok = x /\ m.keys = mem[q].keys \ {x}
      BY <3>2, <3>3 DEF Memory
    <3>5. pc' = [pc EXCEPT ![q] = "banKey"] /\ mem' = [mem EXCEPT ![q] = m]
      BY <1>11, <2>7, <3>1, <3>2 DEF RevokeDelete, Goto, Remember
    <3> QED BY <2>3, <2>4, <2>5, <3>1, <3>3, <3>4, <3>5, MoveSafe, StepFacts
  <2> QED BY <2>6, <2>7
<1>12. CASE RequestFails(q)
  BY <1>12, MoveSafe DEF RequestFails, Finish, Goto, Remember
<1> QED
  BY <1>1, <1>2, <1>3, <1>4, <1>5, <1>6, <1>7, <1>8, <1>9, <1>10, <1>11, <1>12
  DEF RequestStep, RefreshStep

LEMMA SafeInvHolds == Spec => []SafeInv
<1>1. Init => SafeInv
  BY DEF Init, SafeInv, StoredInv, RequestInv, ProgressInv, GoneInv
<1>2. TypeOK /\ TypeOK' /\ SafeInv /\ [Next]_vars => SafeInv'
  <2> SUFFICES ASSUME TypeOK, TypeOK', SafeInv, [Next]_vars PROVE SafeInv'
    OBVIOUS
  <2> USE DEF redis
  <2>1. ASSUME UNCHANGED <<issued, redis, delivered, pc, mem, revoked, overlapped>>
        PROVE  SafeInv'
    <3>1. StoredInv' /\ RequestInv'
      BY <2>1 DEF SafeInv, StoredInv, RequestInv
    <3>2. ProgressInv'
      BY <2>1 DEF SafeInv, ProgressInv, BanLasts
    <3>3. GoneInv'
      BY <2>1 DEF SafeInv, GoneInv, Gone, BanLasts
    <3> QED BY <3>1, <3>2, <3>3 DEF SafeInv
  <2>2. CASE ClockTick \/ UNCHANGED vars
    BY <2>1, <2>2 DEF ClockTick, vars
  <2>3. CASE Crash
    <3>1. /\ UNCHANGED <<issued, hash, black, delivered, revoked>>
          /\ \A q \in Requests : pc'[q] = "idle"
      BY <2>3 DEF Crash
    <3>2. RequestInv' /\ ProgressInv'
      BY <3>1 DEF RequestInv, ProgressInv
    <3>3. StoredInv' /\ GoneInv'
      BY <3>1 DEF SafeInv, StoredInv, GoneInv, Gone, BanLasts
    <3> QED BY <3>2, <3>3 DEF SafeInv
  <2>4. CASE \E q \in Requests : RequestStep(q)
    BY <2>4, StepKeepsSafe
  <2> QED BY <2>2, <2>3, <2>4 DEF Next
<1> QED BY <1>1, <1>2, TypesCorrect, PTL DEF Spec

------------------------------------------------------------------------------
\* However many refreshes of one token overlap and whatever fails, a token that
\* has a successor is dead: refresh deletes its hash before it blacklists it, and
\* signs the successor afterwards.
THEOREM ParentIsDead == Spec => []SuccessorReplacesParent
<1>1. TypeOK /\ SafeInv => SuccessorReplacesParent
  BY GoneIsDead DEF SafeInv, GoneInv, SuccessorReplacesParent
<1> QED BY <1>1, TypesCorrect, SafeInvHolds, PTL

\* Logout and revokeAllUserSessions are final for the tokens they went through.
THEOREM RevocationIsFinal == Spec => []RevokedStaysDead
<1>1. TypeOK /\ SafeInv => RevokedStaysDead
  BY GoneIsDead DEF SafeInv, GoneInv, RevokedStaysDead
<1> QED BY <1>1, TypesCorrect, SafeInvHolds, PTL

------------------------------------------------------------------------------
\* The tokens of one login that were never refreshed by two requests at once form
\* a chain: every token but the last has its one successor.
Last(t) == t \in DOMAIN issued /\ \A x \in DOMAIN issued : issued[x].parent # t
InRefresh(q, t) == pc[q] \in RefreshSteps /\ mem[q].tok = t

RootInv == \A t \in DOMAIN issued : issued[t].root \in DOMAIN issued

RefreshInv ==
    \A t \in DOMAIN issued : issued[t].root \notin overlapped =>
       /\ \A p, q \in Requests : InRefresh(p, t) /\ InRefresh(q, t) => p = q
       /\ \A q \in Requests : InRefresh(q, t) => Last(t)

LastInv ==
    \A t, u \in DOMAIN issued :
       /\ issued[t].root = issued[u].root
       /\ issued[t].root \notin overlapped
       /\ Last(t) /\ Last(u)
       => t = u

ChainInv == RootInv /\ RefreshInv /\ LastInv

\* A step that signs nothing and starts no refresh.
LEMMA ChainKept ==
    ASSUME ChainInv, issued' = issued, overlapped' = overlapped,
           \A p \in Requests : pc'[p] \in RefreshSteps =>
              pc[p] \in RefreshSteps /\ mem'[p].tok = mem[p].tok
    PROVE  ChainInv'
<1>1. \A p \in Requests : \A t : InRefresh(p, t)' => InRefresh(p, t)
  BY DEF InRefresh
<1>2. \A t : Last(t)' <=> Last(t)
  BY DEF Last
<1>3. RootInv'
  BY DEF ChainInv, RootInv
<1>4. RefreshInv'
  BY <1>1, <1>2 DEF ChainInv, RefreshInv
<1>5. LastInv'
  BY <1>2 DEF ChainInv, LastInv
<1> QED BY <1>3, <1>4, <1>5 DEF ChainInv

\* A request other than q, and q at a step outside a refresh.
LEMMA ChainMove ==
    ASSUME TypeOK, ChainInv, NEW q \in Requests, NEW step, NEW m,
           pc' = [pc EXCEPT ![q] = step], mem' = [mem EXCEPT ![q] = m],
           step \in RefreshSteps => pc[q] \in RefreshSteps /\ m.tok = mem[q].tok,
           issued' = issued, overlapped' = overlapped
    PROVE  ChainInv'
<1>1. ASSUME NEW p \in Requests, pc'[p] \in RefreshSteps
      PROVE  pc[p] \in RefreshSteps /\ mem'[p].tok = mem[p].tok
  BY <1>1 DEF TypeOK, RequestTypes
<1> QED BY <1>1, ChainKept

\* A token with a successor is not refreshed again: verify() and the blacklist
\* refuse it.  A second refresh beside a first one is recorded.
LEMMA ChainRefresh ==
    ASSUME TypeOK, SafeInv, ChainInv, NEW q \in Requests, Refresh(q)
    PROVE  ChainInv'
<1>1. PICK t \in delivered :
         /\ ~Banned(t)
         /\ Present(q, t, "match")
         /\ overlapped' =
               IF \E p \in Requests : pc[p] \in RefreshSteps /\ mem[p].tok = t
               THEN overlapped \cup {issued[t].root}
               ELSE overlapped
  BY DEF Refresh
<1>2. issued' = issued /\ t \in DOMAIN issued /\ ~Expired(t)
  BY <1>1 DEF Refresh, Present, TypeOK, StoreTypes
<1>3. Last(t)
  <2>1. ASSUME NEW x \in DOMAIN issued, issued[x].parent = t PROVE FALSE
    <3>1. t # NoToken
      BY <1>2, TokenAssumption DEF TokenAssumption, TypeOK, StoreTypes
    <3>2. Gone(t)
      BY <2>1, <3>1 DEF SafeInv, GoneInv
    <3>3. Dead(t)
      BY <3>2, GoneIsDead
    <3> QED BY <1>1, <1>2, <3>3 DEF Dead
  <2> QED BY <1>2, <2>1 DEF Last
<1>4. pc'[q] \in RefreshSteps /\ mem'[q].tok = t
  BY <1>1 DEF Present, Goto, Remember, TypeOK, RequestTypes, RefreshSteps
<1>5. \A p \in Requests : p # q => pc'[p] = pc[p] /\ mem'[p] = mem[p]
  BY <1>1 DEF Present, Goto, Remember, TypeOK, RequestTypes
<1>6. \A p \in Requests : \A x : InRefresh(p, x)' =>
         (p = q /\ x = t) \/ (p # q /\ InRefresh(p, x))
  BY <1>4, <1>5 DEF InRefresh
<1>7. /\ overlapped \subseteq overlapped'
      /\ \A p \in Requests : InRefresh(p, t) => issued[t].root \in overlapped'
  BY <1>1 DEF InRefresh
<1>8. \A x : Last(x)' <=> Last(x)
  BY <1>2 DEF Last
<1>9. RefreshInv'
  <2> SUFFICES ASSUME NEW x \in DOMAIN issued, issued[x].root \notin overlapped'
               PROVE  /\ \A p, r \in Requests : InRefresh(p, x)' /\ InRefresh(r, x)' => p = r
                      /\ \A p \in Requests : InRefresh(p, x)' => Last(x)'
    BY <1>2 DEF RefreshInv
  <2>1. issued[x].root \notin overlapped
    BY <1>7
  <2>2. \A p, r \in Requests : InRefresh(p, x)' /\ InRefresh(r, x)' => p = r
    BY <1>6, <1>7, <2>1 DEF ChainInv, RefreshInv
  <2>3. \A p \in Requests : InRefresh(p, x)' => Last(x)'
    BY <1>3, <1>6, <1>8, <2>1 DEF ChainInv, RefreshInv
  <2> QED BY <2>2, <2>3
<1>10. LastInv'
  BY <1>2, <1>7, <1>8 DEF ChainInv, LastInv
<1>11. RootInv'
  BY <1>2 DEF ChainInv, RootInv
<1> QED BY <1>9, <1>10, <1>11 DEF ChainInv

\* A login starts a chain; the successor of a last token takes its place.
LEMMA ChainIssue ==
    ASSUME TypeOK, ChainInv, NEW q \in Requests, NEW u,
           NEW parent \in DOMAIN issued \cup {NoToken},
           parent # NoToken => InRefresh(q, parent),
           Issue(q, u, parent), overlapped' = overlapped
    PROVE  ChainInv'
<1>1. PICK t \in Tokens \ DOMAIN issued : IssuedAs(q, u, parent, t)
  BY IssueEffect
<1>2. /\ DOMAIN issued' = DOMAIN issued \cup {t}
      /\ issued'[t].parent = parent
      /\ issued'[t].root = IF parent = NoToken THEN t ELSE issued[parent].root
      /\ \A x \in DOMAIN issued : issued'[x] = issued[x]
  BY <1>1 DEF IssuedAs
<1>3. \A p \in Requests : p # q => pc'[p] = pc[p] /\ mem'[p] = mem[p]
  BY <1>1 DEF IssuedAs, TypeOK, RequestTypes
<1>4. pc'[q] = "store"
  BY <1>1 DEF IssuedAs, TypeOK, RequestTypes
<1>5. \A p \in Requests : \A x : InRefresh(p, x)' => p # q /\ InRefresh(p, x)
  BY <1>3, <1>4 DEF InRefresh, RefreshSteps
<1>6. RootInv'
  BY <1>2 DEF ChainInv, RootInv
<1>7. \A x \in DOMAIN issued : Last(x)' <=> Last(x) /\ x # parent
  BY <1>2 DEF Last
<1>8. NoToken \notin DOMAIN issued
  BY TokenAssumption DEF TokenAssumption, TypeOK, StoreTypes
<1>9. RefreshInv'
  <2> SUFFICES ASSUME NEW x \in DOMAIN issued', issued'[x].root \notin overlapped,
                      NEW p \in Requests, InRefresh(p, x)'
               PROVE  /\ \A r \in Requests : InRefresh(r, x)' => p = r
                      /\ Last(x)'
    BY DEF RefreshInv
  <2>1. p # q /\ InRefresh(p, x)
    BY <1>5
  <2>2. x \in DOMAIN issued
    BY <2>1 DEF InRefresh, RefreshSteps, TypeOK, RequestTypes
  <2>3. issued[x].root \notin overlapped
    BY <1>2, <2>2
  <2>4. \A r \in Requests : InRefresh(r, x) => p = r
    BY <2>1, <2>2, <2>3 DEF ChainInv, RefreshInv
  <2>5. Last(x)
    BY <2>1, <2>2, <2>3 DEF ChainInv, RefreshInv
  <2>6. x # parent
    BY <1>8, <2>1, <2>2, <2>4
  <2> QED BY <1>5, <1>7, <2>2, <2>4, <2>5, <2>6
<1>10. LastInv'
  <2> SUFFICES ASSUME NEW x \in DOMAIN issued', NEW y \in DOMAIN issued',
                      issued'[x].root = issued'[y].root,
                      issued'[x].root \notin overlapped, Last(x)', Last(y)'
               PROVE  x = y
    BY DEF LastInv
  <2>1. ASSUME NEW v \in DOMAIN issued, issued'[v].root = issued'[t].root,
               issued'[t].root \notin overlapped, Last(v)'
        PROVE  FALSE
    <3>1. v # parent /\ Last(v)
      BY <1>7, <2>1
    <3>2. CASE parent = NoToken
      <4>1. issued[v].root = t
        BY <1>2, <2>1, <3>2
      <4> QED BY <4>1 DEF ChainInv, RootInv
    <3>3. CASE parent # NoToken
      <4>1. parent \in DOMAIN issued /\ InRefresh(q, parent)
        BY <3>3
      <4>2. issued[v].root = issued[parent].root /\ issued[v].root \notin overlapped
        BY <1>2, <2>1, <3>3
      <4>3. Last(parent)
        BY <4>1, <4>2 DEF ChainInv, RefreshInv
      <4>4. v = parent
        BY <3>1, <4>1, <4>2, <4>3 DEF ChainInv, LastInv
      <4> QED BY <3>1, <4>4
    <3> QED BY <3>2, <3>3
  <2>2. CASE x = t \/ y = t
    BY <1>2, <2>1, <2>2
  <2>3. CASE x # t /\ y # t
    <3>1. /\ x \in DOMAIN issued /\ y \in DOMAIN issued
          /\ issued[x].root = issued[y].root /\ issued[x].root \notin overlapped
      BY <1>2, <2>3
    <3> QED BY <1>7, <3>1 DEF ChainInv, LastInv
  <2> QED BY <2>2, <2>3
<1> QED BY <1>6, <1>9, <1>10 DEF ChainInv

LEMMA StepKeepsChain ==
    ASSUME TypeOK, SafeInv, ChainInv, NEW q \in Requests, RequestStep(q)
    PROVE  ChainInv'
<1>1. CASE Login(q)
  <2>1. PICK u \in Users : Issue(q, u, NoToken)
    BY <1>1 DEF Login
  <2> QED BY <1>1, <2>1, ChainIssue DEF Login
<1>2. CASE Refresh(q)
  BY <1>2, ChainRefresh
<1>3. CASE MatchStoredHash(q)
  <2>1. \A p \in Requests : pc'[p] \in RefreshSteps =>
           pc[p] \in RefreshSteps /\ mem'[p].tok = mem[p].tok
    BY <1>3 DEF MatchStoredHash, At, Finish, Goto, Remember, RefreshSteps, TypeOK,
                RequestTypes
  <2> QED BY <1>3, <2>1, ChainKept DEF MatchStoredHash
<1>4. CASE DeleteOldHash(q)
  <2>1. \A p \in Requests : pc'[p] \in RefreshSteps =>
           pc[p] \in RefreshSteps /\ mem'[p].tok = mem[p].tok
    BY <1>4 DEF DeleteOldHash, At, Goto, RefreshSteps, TypeOK, RequestTypes
  <2> QED BY <1>4, <2>1, ChainKept DEF DeleteOldHash
<1>5. CASE BlacklistOldToken(q)
  <2>1. PICK old, u : old = mem[q].tok /\ u = mem[q].user
    OBVIOUS
  <2>2. Issue(q, u, old) /\ overlapped' = overlapped /\ pc[q] = "blacklist"
    BY <1>5, <2>1 DEF BlacklistOldToken, At
  <2>3. old \in DOMAIN issued /\ InRefresh(q, old)
    BY <2>1, <2>2 DEF InRefresh, RefreshSteps, TypeOK, RequestTypes
  <2> QED BY <2>2, <2>3, ChainIssue
<1>6. CASE StoreRefreshToken(q) \/ LogoutBlacklist(q) \/ RequestFails(q)
  <2>1. pc' = [pc EXCEPT ![q] = "idle"] /\ mem' = [mem EXCEPT ![q] = NoMemory]
    BY <1>6 DEF StoreRefreshToken, LogoutBlacklist, RequestFails, Finish, Goto, Remember
  <2>2. issued' = issued /\ overlapped' = overlapped
    BY <1>6 DEF StoreRefreshToken, LogoutBlacklist, RequestFails
  <2> QED BY <2>1, <2>2, ChainMove DEF RefreshSteps
<1>7. CASE Logout(q)
  <2>1. PICK t \in delivered : Present(q, t, "ban")
    BY <1>7 DEF Logout
  <2>2. PICK m : mem' = [mem EXCEPT ![q] = m] /\ pc' = [pc EXCEPT ![q] = "ban"]
    BY <2>1 DEF Present, Goto, Remember
  <2> QED BY <1>7, <2>2, ChainMove DEF RefreshSteps, Logout
<1>8. CASE RevokeAll(q)
  <2>1. PICK m : mem' = [mem EXCEPT ![q] = m] /\ pc' = [pc EXCEPT ![q] = "banKey"]
    BY <1>8 DEF RevokeAll, Goto, Remember
  <2> QED BY <1>8, <2>1, ChainMove DEF RefreshSteps, RevokeAll
<1>9. CASE RevokeBlacklist(q)
  <2>1. mem' = [mem EXCEPT ![q] = mem[q]] /\ pc' = [pc EXCEPT ![q] = "deleteKey"]
    BY <1>9 DEF RevokeBlacklist, Goto, TypeOK, RequestTypes
  <2> QED BY <1>9, <2>1, ChainMove DEF RefreshSteps, RevokeBlacklist
<1>10. CASE RevokeDelete(q)
  <2>1. PICK m, step : /\ mem' = [mem EXCEPT ![q] = m]
                       /\ pc' = [pc EXCEPT ![q] = step]
                       /\ step \in {"idle", "banKey"}
    BY <1>10 DEF RevokeDelete, Finish, Goto, Remember
  <2> QED BY <1>10, <2>1, ChainMove DEF RefreshSteps, RevokeDelete
<1> QED
  BY <1>1, <1>2, <1>3, <1>4, <1>5, <1>6, <1>7, <1>8, <1>9, <1>10
  DEF RequestStep, RefreshStep

\* A login has one live token through all its rotations: only the last token of
\* its chain is stored.  Two refreshes of one token at once end the guarantee.
THEOREM OneLiveToken == Spec => []OneLiveTokenPerLogin
<1>1. Init => ChainInv
  <2> SUFFICES ASSUME Init PROVE ChainInv
    OBVIOUS
  <2>1. DOMAIN issued = {}
    BY DEF Init
  <2> QED BY <2>1 DEF ChainInv, RootInv, RefreshInv, LastInv
<1>2. TypeOK /\ SafeInv /\ ChainInv /\ [Next]_vars => ChainInv'
  <2> SUFFICES ASSUME TypeOK, SafeInv, ChainInv, [Next]_vars PROVE ChainInv'
    OBVIOUS
  <2>1. CASE ClockTick \/ UNCHANGED vars
    BY <2>1, ChainKept DEF ClockTick, vars
  <2>2. CASE Crash
    BY <2>2, ChainKept DEF Crash, RefreshSteps
  <2>3. CASE \E q \in Requests : RequestStep(q)
    BY <2>3, StepKeepsChain
  <2> QED BY <2>1, <2>2, <2>3 DEF Next
<1>3. TypeOK /\ SafeInv /\ ChainInv => OneLiveTokenPerLogin
  <2> SUFFICES ASSUME TypeOK, SafeInv, ChainInv PROVE OneLiveTokenPerLogin
    OBVIOUS
  <2>1. ASSUME NEW t \in DOMAIN issued, Live(t) PROVE Last(t)
    <3>1. now \in Nat /\ t \in Tokens /\ hash[t] # 0
      BY <2>1 DEF Live, Stored, TypeOK, StoreTypes
    <3>2. t # NoToken
      BY <3>1, TokenAssumption DEF TokenAssumption
    <3> QED BY <3>1, <3>2 DEF Last, SafeInv, GoneInv, Gone
  <2> QED BY <2>1 DEF OneLiveTokenPerLogin, ChainInv, LastInv
<1> QED BY <1>1, <1>2, <1>3, TypesCorrect, SafeInvHolds, PTL DEF Spec
=============================================================================
