----------------------- MODULE ConfigurationCacheProofs -----------------------
(***************************************************************************)
(* Proofs about ConfigurationCache, for any number of servers, keys and    *)
(* requests and whatever fails.                                            *)
(***************************************************************************)
EXTENDS ConfigurationCache, TLAPS

\* What setConfig is about to save.
Entity == {e \in [id: 0 .. MaxWrites, ver: 1 .. MaxWrites, cipher: BOOLEAN, enc: BOOLEAN] :
              e.id <= e.ver /\ (e.cipher => e.enc)}

Rows == {r \in Row : r.id <= r.ver}

\* What a request holds at each step, after n calls of setConfig.
HeldAt(step, m, n) ==
    /\ step # "idle" => m.server \in Servers
    /\ step = "fill" =>
          /\ m \in [server: Servers, key: Keys, rows: Table, late: SUBSET Keys]
          /\ DOMAIN m.rows = {m.key}
    /\ step = "load" => m \in [server: Servers, rows: Table, late: SUBSET Keys]
    /\ step \in {"fill", "load"} => m.late \subseteq DOMAIN m.rows
    /\ step \in {"select", "write"} => m.key \in Keys /\ m.entity \in Entity /\ m.entity.ver <= n
    /\ step = "write" =>
          /\ m.seen \in Rows \cup {NoRow}
          /\ m.seen # NoRow => m.seen.id = m.entity.id
    /\ step \in {"clear", "remove"} => m.key \in Keys

\* The tables have the types of TypeOK, and so does each request by itself.
TableTypes ==
    /\ DOMAIN row \subseteq Keys
    /\ row = [k \in DOMAIN row |-> row[k]]
    /\ \A k \in DOMAIN row : row[k] \in Rows /\ row[k].ver <= writes
    /\ cache \in [Servers -> Table]
    /\ up \in [Servers -> BOOLEAN]
    /\ writes \in 0 .. MaxWrites
    /\ stale \in [Servers -> SUBSET Keys]
    /\ mixed \subseteq Keys
RequestTypes ==
    /\ pc \in [Requests -> Steps \cup {"idle"}]
    /\ mem = [q \in Requests |-> mem[q]]
    /\ \A q \in Requests : HeldAt(pc[q], mem[q], writes)

TypeInv == TableTypes /\ RequestTypes

------------------------------------------------------------------------------
\* Membership in Table, pointwise.
LEMMA TableMember ==
    ASSUME NEW t, NEW K \in SUBSET Keys, t \in [K -> Row]
    PROVE  t \in Table
BY DEF Table

LEMMA TableEntry ==
    ASSUME NEW t \in Table
    PROVE  /\ DOMAIN t \subseteq Keys
           /\ t \in [DOMAIN t -> Row]
BY DEF Table

LEMMA EmptyTable == [k \in {} |-> NoRow] \in Table
<1>1. [k \in {} |-> NoRow] \in [{} -> Row]
  OBVIOUS
<1> QED BY <1>1, TableMember

LEMMA WithoutEntry ==
    ASSUME NEW t, NEW k
    PROVE  /\ DOMAIN Without(t, k) = DOMAIN t \ {k}
           /\ \A x \in DOMAIN t \ {k} : Without(t, k)[x] = t[x]
           /\ Without(t, k) = [x \in DOMAIN t \ {k} |-> Without(t, k)[x]]
BY DEF Without

LEMMA WithInTable ==
    ASSUME NEW t \in Table, NEW k \in Keys, NEW v \in Row
    PROVE  With(t, k, v) \in Table
<1>1. \A x \in DOMAIN t : t[x] \in Row
  BY TableEntry
<1>3. With(t, k, v) \in [DOMAIN t \cup {k} -> Row]
  BY <1>1 DEF With
<1>2. DOMAIN t \cup {k} \in SUBSET Keys
  BY TableEntry
<1> QED BY <1>3, <1>2, TableMember

LEMMA WithoutInTable ==
    ASSUME NEW t \in Table, NEW k
    PROVE  Without(t, k) \in Table
<1>1. Without(t, k) \in [DOMAIN t \ {k} -> Row]
  BY TableEntry, WithoutEntry
<1>2. DOMAIN t \ {k} \in SUBSET Keys
  BY TableEntry
<1> QED BY <1>1, <1>2, TableMember

LEMMA PartOfTable ==
    ASSUME NEW t \in Table, NEW K \in SUBSET DOMAIN t
    PROVE  [k \in K |-> t[k]] \in Table
<1>1. [k \in K |-> t[k]] \in [K -> Row]
  BY TableEntry
<1> QED BY <1>1, TableEntry, TableMember

------------------------------------------------------------------------------
\* A request that moves, alone.
LEMMA MoveTypes ==
    ASSUME RequestTypes, NEW q \in Requests, writes \in Nat, writes' \in {writes, writes + 1},
           NEW step \in Steps \cup {"idle"}, NEW m, HeldAt(step, m, writes'),
           pc' = [pc EXCEPT ![q] = step], mem' = [mem EXCEPT ![q] = m]
    PROVE  RequestTypes'
<1>1. /\ pc' \in [Requests -> Steps \cup {"idle"}]
      /\ mem' = [p \in Requests |-> mem'[p]]
  BY DEF RequestTypes
<1>2. ASSUME NEW p \in Requests PROVE HeldAt(pc'[p], mem'[p], writes')
  <2>1. CASE p = q
    <3>1. pc'[p] = step /\ mem'[p] = m
      BY <2>1 DEF RequestTypes
    <3> QED BY <3>1
  <2>2. CASE p # q
    <3>1. pc'[p] = pc[p] /\ mem'[p] = mem[p]
      BY <2>2 DEF RequestTypes
    <3>2. HeldAt(pc[p], mem[p], writes)
      BY DEF RequestTypes
    <3> QED BY <3>1, <3>2 DEF HeldAt, Entity
  <2> QED BY <2>1, <2>2
<1> QED BY <1>1, <1>2 DEF RequestTypes

LEMMA FinishTypes ==
    ASSUME RequestTypes, NEW q \in Requests, Finish(q), writes \in Nat, writes' = writes
    PROVE  RequestTypes'
<1>1. HeldAt("idle", Idle, writes')
  BY DEF HeldAt
<1>2. pc' = [pc EXCEPT ![q] = "idle"] /\ mem' = [mem EXCEPT ![q] = Idle]
  BY DEF Finish, Goto
<1> QED BY <1>1, <1>2, MoveTypes

\* The write by q passes by the requests that read and by the other caches.
LEMMA PassesByTypes ==
    ASSUME TypeInv, NEW q \in Requests, NEW k \in Keys, PassesBy(q, k),
           pc[q] \in {"write", "remove"}, Goto(q, "clear"), writes' = writes
    PROVE  RequestTypes' /\ stale' \in [Servers -> SUBSET Keys]
<1>1. stale' \in [Servers -> SUBSET Keys]
  BY DEF TypeInv, TableTypes, PassesBy
<1>2. /\ pc' = [pc EXCEPT ![q] = "clear"]
      /\ pc' \in [Requests -> Steps \cup {"idle"}]
      /\ mem' = [p \in Requests |-> mem'[p]]
  BY DEF TypeInv, RequestTypes, PassesBy, Goto, Steps
<1>3. ASSUME NEW p \in Requests PROVE HeldAt(pc'[p], mem'[p], writes')
  <2>1. CASE p = q
    <3>1. pc'[p] = "clear" /\ mem'[p] = mem[p]
      BY <1>2, <2>1 DEF TypeInv, RequestTypes, PassesBy
    <3> QED BY <3>1, <2>1 DEF TypeInv, RequestTypes, HeldAt
  <2>2. CASE p # q
    <3>1. pc'[p] = pc[p] /\ HeldAt(pc[p], mem[p], writes)
      BY <1>2, <2>2 DEF TypeInv, RequestTypes
    <3>2. mem'[p] = IF pc[p] \in {"fill", "load"} /\ k \in DOMAIN mem[p].rows
                    THEN [mem[p] EXCEPT !.late = @ \cup {k}] ELSE mem[p]
      BY DEF PassesBy
    <3>3. CASE pc[p] = "fill" /\ k \in DOMAIN mem[p].rows
      BY <3>1, <3>2, <3>3 DEF HeldAt
    <3>4. CASE pc[p] = "load" /\ k \in DOMAIN mem[p].rows
      BY <3>1, <3>2, <3>4 DEF HeldAt
    <3>5. CASE ~(pc[p] \in {"fill", "load"} /\ k \in DOMAIN mem[p].rows)
      BY <3>1, <3>2, <3>5
    <3> QED BY <3>3, <3>4, <3>5
  <2> QED BY <2>1, <2>2
<1> QED BY <1>1, <1>2, <1>3 DEF RequestTypes

------------------------------------------------------------------------------
LEMMA TypeInvType == TypeInv => TypeOK
<1> SUFFICES ASSUME TypeInv PROVE TypeOK
  OBVIOUS
<1>1. row \in Table
  <2>1. row \in [DOMAIN row -> Row]
    BY DEF TypeInv, TableTypes, Rows
  <2> QED BY <2>1, TableMember DEF TypeInv, TableTypes
<1>2. \A q \in Requests :
          /\ pc[q] # "idle" => mem[q].server \in Servers
          /\ pc[q] \in {"fill", "load"} =>
                mem[q].rows \in Table /\ mem[q].late \subseteq DOMAIN mem[q].rows
          /\ pc[q] \notin {"idle", "find", "load"} => mem[q].key \in Keys
  <2> SUFFICES ASSUME NEW q \in Requests
               PROVE  /\ pc[q] # "idle" => mem[q].server \in Servers
                      /\ pc[q] \in {"fill", "load"} =>
                            mem[q].rows \in Table /\ mem[q].late \subseteq DOMAIN mem[q].rows
                      /\ pc[q] \notin {"idle", "find", "load"} => mem[q].key \in Keys
    OBVIOUS
  <2>1. HeldAt(pc[q], mem[q], writes) /\ pc[q] \in Steps \cup {"idle"}
    BY DEF TypeInv, RequestTypes
  <2> QED BY <2>1 DEF HeldAt, Steps
<1>3. \A k \in DOMAIN row : row[k].id <= row[k].ver
  BY DEF TypeInv, TableTypes, Rows
<1> QED BY <1>1, <1>2, <1>3 DEF TypeOK, TypeInv, TableTypes, RequestTypes

\* What the row of a key, or its absence, gives a write.
LEMMA FoundRow ==
    ASSUME TypeInv, NEW k \in Keys,
           NEW found, found = IF k \in DOMAIN row THEN row[k] ELSE NoRow
    PROVE  /\ found \in Rows \cup {NoRow}
           /\ found.id \in 0 .. MaxWrites /\ found.id <= writes
BY ConfigAssumption DEF ConfigAssumption, TypeInv, TableTypes, Rows, Row, NoRow

\* The row that a write leaves.
LEMMA InsertedRow ==
    ASSUME NEW ent \in Entity
    PROVE  Inserted(ent) \in Rows /\ Inserted(ent).ver = ent.ver
<1>1. ent.id = 0 => Inserted(ent) = [ent EXCEPT !.id = ent.ver]
  BY DEF Inserted, Entity
<1>2. ent.id # 0 => Inserted(ent) = ent
  BY DEF Inserted, Entity
<1> QED BY <1>1, <1>2, ConfigAssumption DEF ConfigAssumption, Entity, Rows, Row

LEMMA UpdatedRow ==
    ASSUME NEW ent \in Entity, NEW r \in Rows, NEW seen, r.id = ent.id
    PROVE  Updated(r, ent, seen) \in Rows /\ Updated(r, ent, seen).ver = ent.ver
<1>1. (IF ent.enc = seen.enc THEN r.enc ELSE ent.enc) \in BOOLEAN
  BY Zenon DEF Entity, Rows, Row
<1>2. PICK e \in BOOLEAN : e = IF ent.enc = seen.enc THEN r.enc ELSE ent.enc
  BY <1>1, Zenon
<1>3. Updated(r, ent, seen) = [r EXCEPT !.ver = ent.ver, !.cipher = ent.cipher, !.enc = e]
  BY <1>2, Zenon DEF Updated
<1> QED BY <1>2, <1>3, ConfigAssumption DEF ConfigAssumption, Entity, Rows, Row

\* A row that is written is typed.
LEMMA WrittenRow ==
    ASSUME TypeInv, NEW k \in Keys, NEW r \in Rows, r.ver <= writes,
           row' = With(row, k, r), writes' = writes
    PROVE  /\ DOMAIN row' \subseteq Keys
           /\ row' = [x \in DOMAIN row' |-> row'[x]]
           /\ \A x \in DOMAIN row' : row'[x] \in Rows /\ row'[x].ver <= writes'
BY DEF TypeInv, TableTypes, With

\* A typed memory and the step it is at, for the requests that move alone.
LEMMA StepKeepsTypes == ASSUME TypeInv, [Next]_vars PROVE TypeInv'
<1> USE ConfigAssumption DEF ConfigAssumption
<1>0. writes \in Nat
  BY DEF TypeInv, TableTypes
<1>1. ASSUME NEW q \in Requests, GetConfig(q) PROVE TypeInv'
  <2>1. PICK s \in Servers, k \in DOMAIN row :
          mem' = [mem EXCEPT ![q] =
                [server |-> s, key |-> k, rows |-> With([x \in {} |-> NoRow], k, row[k]),
                 late |-> {}]]
    BY <1>1 DEF GetConfig
  <2>2. With([x \in {} |-> NoRow], k, row[k]) \in Table
    BY EmptyTable, WithInTable DEF TypeInv, TableTypes, Rows
  <2>3. DOMAIN With([x \in {} |-> NoRow], k, row[k]) = {k}
    BY DEF With
  <2>4. HeldAt("fill", [server |-> s, key |-> k,
                        rows |-> With([x \in {} |-> NoRow], k, row[k]), late |-> {}], writes')
    BY <2>2, <2>3 DEF HeldAt, TypeInv, TableTypes
  <2>5. RequestTypes'
    BY <1>0, <1>1, <2>1, <2>4, MoveTypes DEF TypeInv, GetConfig, Goto, Steps
  <2> QED BY <1>1, <2>5 DEF TypeInv, TableTypes, GetConfig
<1>2. ASSUME NEW q \in Requests, FillCache(q) PROVE TypeInv'
  <2>1. PICK m : m = mem[q]
    OBVIOUS
  <2>2. HeldAt("fill", m, writes)
    BY <1>2, <2>1 DEF TypeInv, RequestTypes, FillCache, At
  <2>3. m.rows[m.key] \in Row
    BY <2>2, TableEntry DEF HeldAt
  <2>4. cache[m.server] \in Table
    BY <2>2 DEF HeldAt, TypeInv, TableTypes
  <2>5. With(cache[m.server], m.key, m.rows[m.key]) \in Table
    BY <2>2, <2>3, <2>4, WithInTable DEF HeldAt
  <2>6. cache' \in [Servers -> Table] /\ stale' \in [Servers -> SUBSET Keys]
    BY <1>2, <2>1, <2>2, <2>5 DEF TypeInv, TableTypes, FillCache, HeldAt
  <2>7. RequestTypes'
    BY <1>0, <1>2, FinishTypes DEF TypeInv, FillCache
  <2> QED BY <1>2, <2>6, <2>7 DEF TypeInv, TableTypes, FillCache
<1>3. ASSUME NEW q \in Requests, SetConfig(q) PROVE TypeInv'
  <2> DEFINE Found(k) == IF k \in DOMAIN row THEN row[k] ELSE NoRow
             Flag(k, option) == \/ option = "yes"
                                \/ option = "undefined" /\ Found(k) # NoRow /\ Found(k).enc
             Ent(k, option) == [id |-> Found(k).id, ver |-> writes + 1,
                                cipher |-> option = "yes", enc |-> Flag(k, option)]
  <2>1. PICK s \in Servers, k \in Keys, option \in Options :
          mem' = [mem EXCEPT ![q] = [server |-> s, key |-> k, entity |-> Ent(k, option)]]
    BY <1>3, Zenon DEF SetConfig
  <2>2. Found(k).id \in 0 .. MaxWrites /\ Found(k).id <= writes
    BY FoundRow
  <2>7. PICK flag \in BOOLEAN : flag = Flag(k, option)
    BY Zenon
  <2>8. PICK found : found = Found(k)
    BY Zenon
  <2>9. PICK ent : ent = Ent(k, option)
    BY Zenon
  <2>10. ent = [id |-> found.id, ver |-> writes + 1, cipher |-> option = "yes", enc |-> flag]
    BY <2>7, <2>8, <2>9, Zenon
  <2>11. option = "yes" => flag
    BY <2>7, Zenon
  <2>12. found.id \in 0 .. MaxWrites /\ found.id <= writes
    BY <2>2, <2>8, Zenon
  <2>13. mem' = [mem EXCEPT ![q] = [server |-> s, key |-> k, entity |-> ent]]
    BY <2>1, <2>9, Zenon
  <2> HIDE DEF Found, Flag, Ent
  <2>3. ent \in Entity /\ ent.ver <= writes'
    <3>1. writes' = writes + 1 /\ writes + 1 \in 1 .. MaxWrites
      BY <1>0, <1>3 DEF SetConfig, TypeInv, TableTypes
    <3> QED BY <1>0, <2>10, <2>11, <2>12, <3>1 DEF Entity
  <2>4. HeldAt("select", [server |-> s, key |-> k, entity |-> ent], writes')
    BY <2>3 DEF HeldAt
  <2>5. RequestTypes'
    BY <1>0, <1>3, <2>13, <2>4, MoveTypes DEF TypeInv, SetConfig, Goto, Steps
  <2>6. writes' \in 0 .. MaxWrites /\ writes <= writes'
    BY <1>0, <1>3 DEF SetConfig, TypeInv, TableTypes
  <2> QED BY <1>0, <1>3, <2>5, <2>6 DEF TypeInv, TableTypes, SetConfig, Rows, Row
<1>4. ASSUME NEW q \in Requests, SaveSelect(q) PROVE TypeInv'
  <2>1. PICK m, seen :
          /\ m = mem[q]
          /\ seen = IF m.key \in DOMAIN row /\ row[m.key].id = m.entity.id
                    THEN row[m.key] ELSE NoRow
          /\ mem' = [mem EXCEPT ![q] = [server |-> m.server, key |-> m.key,
                                        entity |-> m.entity, seen |-> seen]]
    BY <1>4 DEF SaveSelect
  <2>2. HeldAt("select", m, writes)
    BY <1>4, <2>1 DEF TypeInv, RequestTypes, SaveSelect, At
  <2>3. seen \in Rows \cup {NoRow} /\ (seen # NoRow => seen.id = m.entity.id)
    BY <2>1, <2>2 DEF TypeInv, TableTypes, HeldAt
  <2>4. writes' = writes
    BY <1>4 DEF SaveSelect
  <2>5. HeldAt("write", [server |-> m.server, key |-> m.key,
                         entity |-> m.entity, seen |-> seen], writes')
    BY <2>2, <2>3, <2>4 DEF HeldAt
  <2>6. RequestTypes'
    BY <1>0, <1>4, <2>1, <2>5, MoveTypes DEF TypeInv, SaveSelect, Goto, Steps
  <2> QED BY <1>4, <2>6 DEF TypeInv, TableTypes, SaveSelect
<1>5. ASSUME NEW q \in Requests, SaveInsert(q) PROVE TypeInv'
  <2>1. HeldAt("write", mem[q], writes) /\ mem[q].key \in Keys
    BY <1>5 DEF TypeInv, RequestTypes, SaveInsert, At, HeldAt
  <2>2. CASE mem[q].key \in DOMAIN row
    <3>1. Finish(q) /\ UNCHANGED <<row, stale, mixed, cache, up, writes>>
      BY <1>5, <2>2 DEF SaveInsert
    <3>2. RequestTypes'
      BY <1>0, <3>1, FinishTypes DEF TypeInv
    <3> QED BY <3>1, <3>2 DEF TypeInv, TableTypes
  <2>3. CASE mem[q].key \notin DOMAIN row
    <3>1. PICK k, ent : k = mem[q].key /\ ent = mem[q].entity
      OBVIOUS
    <3>2. /\ row' = With(row, k, Inserted(ent)) /\ Mixes(k, ent, FALSE)
          /\ PassesBy(q, k) /\ Goto(q, "clear") /\ UNCHANGED <<cache, up, writes>>
      BY <1>5, <2>3, <3>1, Zenon DEF SaveInsert
    <3>3. ent \in Entity /\ ent.ver <= writes /\ k \in Keys
      BY <2>1, <3>1 DEF HeldAt
    <3>4. Inserted(ent) \in Rows /\ Inserted(ent).ver = ent.ver
      BY <3>3, InsertedRow
    <3>5. /\ DOMAIN row' \subseteq Keys
          /\ row' = [x \in DOMAIN row' |-> row'[x]]
          /\ \A x \in DOMAIN row' : row'[x] \in Rows /\ row'[x].ver <= writes'
      BY <3>2, <3>3, <3>4, WrittenRow
    <3>6. RequestTypes' /\ stale' \in [Servers -> SUBSET Keys]
      BY <1>5, <3>2, <3>3, PassesByTypes DEF SaveInsert, At
    <3>7. mixed' \subseteq Keys
      BY <3>2, <3>3 DEF Mixes, TypeInv, TableTypes
    <3> QED BY <3>2, <3>5, <3>6, <3>7 DEF TypeInv, TableTypes
  <2> QED BY <2>2, <2>3
<1>6. ASSUME NEW q \in Requests, SaveUpdate(q) PROVE TypeInv'
  <2>1. HeldAt("write", mem[q], writes) /\ mem[q].key \in Keys
    BY <1>6 DEF TypeInv, RequestTypes, SaveUpdate, At, HeldAt
  <2>2. PICK k, ent, seen : k = mem[q].key /\ ent = mem[q].entity /\ seen = mem[q].seen
    OBVIOUS
  <2>3. CASE k \in DOMAIN row /\ row[k].id = seen.id
    <3>2. /\ row' = With(row, k, Updated(row[k], ent, seen)) /\ Mixes(k, ent, row[k] # seen)
          /\ PassesBy(q, k) /\ Goto(q, "clear") /\ UNCHANGED <<cache, up, writes>>
      BY <1>6, <2>2, <2>3, Zenon DEF SaveUpdate
    <3>3. ent \in Entity /\ ent.ver <= writes /\ k \in Keys /\ seen.id = ent.id
      BY <1>6, <2>1, <2>2 DEF HeldAt, SaveUpdate
    <3>4. /\ Updated(row[k], ent, seen) \in Rows
          /\ Updated(row[k], ent, seen).ver = ent.ver
      <4>1. row[k] \in Rows /\ row[k].id = ent.id
        BY <2>3, <3>3 DEF TypeInv, TableTypes
      <4> QED BY <3>3, <4>1, UpdatedRow
    <3>5. /\ DOMAIN row' \subseteq Keys
          /\ row' = [x \in DOMAIN row' |-> row'[x]]
          /\ \A x \in DOMAIN row' : row'[x] \in Rows /\ row'[x].ver <= writes'
      BY <3>2, <3>3, <3>4, WrittenRow
    <3>6. RequestTypes' /\ stale' \in [Servers -> SUBSET Keys]
      BY <1>6, <3>2, <3>3, PassesByTypes DEF SaveUpdate, At
    <3>7. mixed' \subseteq Keys
      BY <3>2, <3>3 DEF Mixes, TypeInv, TableTypes
    <3> QED BY <3>2, <3>5, <3>6, <3>7 DEF TypeInv, TableTypes
  <2>4. CASE ~(k \in DOMAIN row /\ row[k].id = seen.id)
    <3>1. UNCHANGED <<row, mem, stale, mixed, cache, up, writes>> /\ Goto(q, "clear")
      BY <1>6, <2>2, <2>4, Zenon DEF SaveUpdate
    <3>2. HeldAt("clear", mem[q], writes')
      BY <2>1, <3>1 DEF HeldAt
    <3>3. mem' = [mem EXCEPT ![q] = mem[q]]
      BY <3>1 DEF TypeInv, RequestTypes
    <3>4. RequestTypes'
      BY <1>0, <3>1, <3>2, <3>3, MoveTypes DEF TypeInv, Goto, Steps
    <3> QED BY <3>1, <3>4 DEF TypeInv, TableTypes
  <2> QED BY <2>3, <2>4
<1>7. ASSUME NEW q \in Requests, ClearEntry(q) PROVE TypeInv'
  <2>1. mem[q].server \in Servers
    BY <1>7 DEF TypeInv, RequestTypes, ClearEntry, At, HeldAt
  <2>2. Without(cache[mem[q].server], mem[q].key) \in Table
    BY <2>1, WithoutInTable DEF TypeInv, TableTypes
  <2>3. cache' \in [Servers -> Table] /\ stale' \in [Servers -> SUBSET Keys]
    BY <1>7, <2>1, <2>2 DEF TypeInv, TableTypes, ClearEntry
  <2>4. RequestTypes'
    BY <1>0, <1>7, FinishTypes DEF TypeInv, ClearEntry
  <2> QED BY <1>7, <2>3, <2>4 DEF TypeInv, TableTypes, ClearEntry
<1>8. ASSUME NEW q \in Requests, DeleteConfig(q) PROVE TypeInv'
  <2>1. PICK s \in Servers, k \in DOMAIN row :
          mem' = [mem EXCEPT ![q] = [server |-> s, key |-> k, entity |-> row[k]]]
    BY <1>8 DEF DeleteConfig
  <2>2. HeldAt("remove", [server |-> s, key |-> k, entity |-> row[k]], writes')
    BY DEF HeldAt, TypeInv, TableTypes
  <2>3. RequestTypes'
    BY <1>0, <1>8, <2>1, <2>2, MoveTypes DEF TypeInv, DeleteConfig, Goto, Steps
  <2> QED BY <1>8, <2>3 DEF TypeInv, TableTypes, DeleteConfig
<1>9. ASSUME NEW q \in Requests, RemoveRow(q) PROVE TypeInv'
  <2>1. HeldAt("remove", mem[q], writes) /\ mem[q].key \in Keys
    BY <1>9 DEF TypeInv, RequestTypes, RemoveRow, At, HeldAt
  <2>2. CASE mem[q].key \in DOMAIN row /\ row[mem[q].key].id = mem[q].entity.id
    <3>1. /\ row' = Without(row, mem[q].key) /\ PassesBy(q, mem[q].key)
          /\ Goto(q, "clear") /\ UNCHANGED <<cache, up, writes, mixed>>
      BY <1>9, <2>2, Zenon DEF RemoveRow
    <3>2. RequestTypes' /\ stale' \in [Servers -> SUBSET Keys]
      BY <1>9, <2>1, <3>1, PassesByTypes DEF RemoveRow, At
    <3>3. /\ DOMAIN row' \subseteq Keys
          /\ row' = [x \in DOMAIN row' |-> row'[x]]
          /\ \A x \in DOMAIN row' : row'[x] \in Rows /\ row'[x].ver <= writes'
      BY <3>1 DEF Without, TypeInv, TableTypes
    <3> QED BY <3>1, <3>2, <3>3 DEF TypeInv, TableTypes
  <2>3. CASE ~(mem[q].key \in DOMAIN row /\ row[mem[q].key].id = mem[q].entity.id)
    <3>1. UNCHANGED <<row, mem, stale, cache, up, writes, mixed>> /\ Goto(q, "clear")
      BY <1>9, <2>3, Zenon DEF RemoveRow
    <3>2. HeldAt("clear", mem[q], writes')
      BY <2>1, <3>1 DEF HeldAt
    <3>3. mem' = [mem EXCEPT ![q] = mem[q]]
      BY <3>1 DEF TypeInv, RequestTypes
    <3>4. RequestTypes'
      BY <1>0, <3>1, <3>2, <3>3, MoveTypes DEF TypeInv, Goto, Steps
    <3> QED BY <3>1, <3>4 DEF TypeInv, TableTypes
  <2> QED BY <2>2, <2>3
<1>10. ASSUME NEW q \in Requests, Reload(q) PROVE TypeInv'
  <2>1. PICK s \in Servers :
          /\ cache' = [cache EXCEPT ![s] = [k \in {} |-> NoRow]]
          /\ stale' = [stale EXCEPT ![s] = {}]
          /\ mem' = [mem EXCEPT ![q] = [server |-> s]]
    BY <1>10 DEF Reload
  <2>2. HeldAt("find", [server |-> s], writes')
    BY DEF HeldAt
  <2>3. RequestTypes'
    BY <1>0, <1>10, <2>1, <2>2, MoveTypes DEF TypeInv, Reload, Goto, Steps
  <2>4. cache' \in [Servers -> Table] /\ stale' \in [Servers -> SUBSET Keys]
    BY <2>1, EmptyTable DEF TypeInv, TableTypes
  <2> QED BY <1>10, <2>3, <2>4 DEF TypeInv, TableTypes, Reload
<1>11. ASSUME NEW q \in Requests, FindAll(q) PROVE TypeInv'
  <2>1. row \in Table
    BY TypeInvType DEF TypeOK
  <2>2. mem[q].server \in Servers
    BY <1>11 DEF TypeInv, RequestTypes, FindAll, At, HeldAt
  <2>3. HeldAt("load", [server |-> mem[q].server, rows |-> row, late |-> {}], writes')
    BY <2>1, <2>2 DEF HeldAt
  <2>4. RequestTypes'
    BY <1>0, <1>11, <2>3, MoveTypes DEF TypeInv, FindAll, Goto, Steps
  <2> QED BY <1>11, <2>4 DEF TypeInv, TableTypes, FindAll
<1>12. ASSUME NEW q \in Requests, Load(q) PROVE TypeInv'
  <2> DEFINE s == mem[q].server
             rows == mem[q].rows
  <2>2. s \in Servers /\ rows \in Table /\ mem[q].late \subseteq Keys
    BY <1>12 DEF TypeInv, RequestTypes, Load, At, HeldAt
  <2>3. PICK loaded \in SUBSET DOMAIN rows, done \in BOOLEAN :
          /\ cache' = [cache EXCEPT ![s] = [k \in loaded |-> rows[k]]]
          /\ stale' = [stale EXCEPT ![s] = mem[q].late \cap loaded]
          /\ up' = [up EXCEPT ![s] = up[s] \/ done]
    <3> DEFINE good == {k \in DOMAIN rows : Readable(rows[k])}
               done == good = DOMAIN rows
    <3>1. PICK loaded \in IF done THEN {good} ELSE IF up[s] THEN SUBSET good ELSE {{}} :
            /\ cache' = [cache EXCEPT ![s] = [k \in loaded |-> rows[k]]]
            /\ stale' = [stale EXCEPT ![s] = mem[q].late \cap loaded]
            /\ up' = [up EXCEPT ![s] = up[s] \/ done]
      BY <1>12, Zenon DEF Load
    <3>2. loaded \in SUBSET DOMAIN rows
      BY <3>1
    <3>3. PICK b \in BOOLEAN : b = done
      OBVIOUS
    <3>4. up' = [up EXCEPT ![s] = up[s] \/ b]
      BY <3>1, <3>3, Zenon
    <3> QED BY <3>1, <3>2, <3>3, <3>4, Zenon
  <2> HIDE DEF s, rows
  <2>4. [k \in loaded |-> rows[k]] \in Table
    BY <2>2, <2>3, PartOfTable
  <2>5. cache' \in [Servers -> Table] /\ stale' \in [Servers -> SUBSET Keys]
    BY <2>2, <2>3, <2>4 DEF TypeInv, TableTypes
  <2>6. up' \in [Servers -> BOOLEAN]
    BY <2>2, <2>3, Zenon DEF TypeInv, TableTypes
  <2>7. RequestTypes'
    BY <1>0, <1>12, FinishTypes DEF TypeInv, Load
  <2> QED BY <1>12, <2>5, <2>6, <2>7 DEF TypeInv, TableTypes, Load
<1>13. ASSUME NEW q \in Requests, RequestFails(q) PROVE TypeInv'
  <2>1. HeldAt(pc[q], mem[q], writes)
    BY DEF TypeInv, RequestTypes
  <2>2. stale' \in [Servers -> SUBSET Keys]
    BY <1>13, <2>1 DEF TypeInv, TableTypes, RequestFails, At, HeldAt
  <2>3. RequestTypes'
    BY <1>0, <1>13, FinishTypes DEF TypeInv, RequestFails
  <2> QED BY <1>13, <2>2, <2>3 DEF TypeInv, TableTypes, RequestFails
<1>14. CASE Crash
  <2>1. PICK s \in Servers :
          /\ up' = [up EXCEPT ![s] = FALSE]
          /\ cache' = [cache EXCEPT ![s] = [k \in {} |-> NoRow]]
          /\ stale' = [stale EXCEPT ![s] = {}]
          /\ pc' = [q \in Requests |-> IF On(q, s) THEN "idle" ELSE pc[q]]
          /\ mem' = [q \in Requests |-> IF On(q, s) THEN Idle ELSE mem[q]]
    BY <1>14 DEF Crash
  <2>2. /\ cache' \in [Servers -> Table] /\ stale' \in [Servers -> SUBSET Keys]
        /\ up' \in [Servers -> BOOLEAN]
    BY <2>1, EmptyTable DEF TypeInv, TableTypes
  <2>3. ASSUME NEW p \in Requests PROVE HeldAt(pc'[p], mem'[p], writes')
    <3>1. writes' = writes /\ HeldAt(pc[p], mem[p], writes)
      BY <1>14 DEF Crash, TypeInv, RequestTypes
    <3>2. CASE On(p, s)
      <4>1. pc'[p] = "idle"
        BY <2>1, <3>2
      <4> QED BY <4>1 DEF HeldAt
    <3>3. CASE ~On(p, s)
      <4>1. pc'[p] = pc[p] /\ mem'[p] = mem[p]
        BY <2>1, <3>3
      <4> QED BY <3>1, <4>1
    <3> QED BY <3>2, <3>3
  <2>4. pc' \in [Requests -> Steps \cup {"idle"}] /\ mem' = [p \in Requests |-> mem'[p]]
    BY <2>1 DEF TypeInv, RequestTypes
  <2> QED BY <1>14, <2>2, <2>3, <2>4 DEF TypeInv, TableTypes, RequestTypes, Crash
<1>15. CASE UNCHANGED vars
  BY <1>15 DEF vars, TypeInv, TableTypes, RequestTypes
<1> QED BY <1>1, <1>2, <1>3, <1>4, <1>5, <1>6, <1>7, <1>8, <1>9, <1>10, <1>11, <1>12,
           <1>13, <1>14, <1>15 DEF Next, Step

LEMMA InitTypes == Init => TypeInv
<1> SUFFICES ASSUME Init PROVE TypeInv
  OBVIOUS
<1> USE ConfigAssumption DEF ConfigAssumption
<1>1. TableTypes
  BY EmptyTable DEF Init, TableTypes
<1>2. RequestTypes
  BY DEF Init, RequestTypes, HeldAt
<1> QED BY <1>1, <1>2 DEF TypeInv

LEMMA TypeInvHolds == Spec => []TypeInv
BY InitTypes, StepKeepsTypes, PTL DEF Spec

\* The table, the caches and what the requests hold have their types; an id is that of
\* the first write of its row.
THEOREM TypesCorrect == Spec => []TypeOK
BY TypeInvHolds, TypeInvType, PTL
------------------------------------------------------------------------------
(***************************************************************************)
(* The cache follows the table.                                            *)
(***************************************************************************)
\* What a request read is still the table's, or it was written since.
ReadsInv ==
    \A q \in Requests : pc[q] \in {"fill", "load"} =>
        \A k \in DOMAIN mem[q].rows :
            \/ k \in DOMAIN row /\ mem[q].rows[k] = row[k]
            \/ k \in mem[q].late

CacheInv == ReadsInv /\ CacheFollowsTable

\* Entry k of the cache of s follows the table.
Follows(s, k) ==
    \/ k \in DOMAIN row /\ cache[s][k] = row[k]
    \/ k \in stale[s]
    \/ \E q \in Requests : At(q, "clear") /\ On(q, s) /\ mem[q].key = k

\* A request that moves, alone, and leaves the table.
LEMMA MoveReads ==
    ASSUME RequestTypes, ReadsInv, NEW q \in Requests, NEW step, NEW m, row' = row,
           pc' = [pc EXCEPT ![q] = step], mem' = [mem EXCEPT ![q] = m],
           step \in {"fill", "load"} =>
               \A k \in DOMAIN m.rows : k \in DOMAIN row /\ m.rows[k] = row[k]
    PROVE  ReadsInv'
<1> SUFFICES ASSUME NEW p \in Requests, pc'[p] \in {"fill", "load"},
                    NEW k \in DOMAIN mem'[p].rows
             PROVE  \/ k \in DOMAIN row' /\ mem'[p].rows[k] = row'[k]
                    \/ k \in mem'[p].late
  BY DEF ReadsInv
<1>1. CASE p = q
  <2>1. pc'[p] = step /\ mem'[p] = m
    BY <1>1 DEF RequestTypes
  <2> QED BY <2>1
<1>2. CASE p # q
  <2>1. pc'[p] = pc[p] /\ mem'[p] = mem[p]
    BY <1>2 DEF RequestTypes
  <2> QED BY <2>1 DEF ReadsInv
<1> QED BY <1>1, <1>2

\* It leaves the caches too, and was not about to clear an entry.
LEMMA MoveFollows ==
    ASSUME RequestTypes, CacheInv, NEW q \in Requests, NEW step, NEW m,
           row' = row, cache' = cache, stale' = stale, pc[q] # "clear",
           pc' = [pc EXCEPT ![q] = step], mem' = [mem EXCEPT ![q] = m],
           step \in {"fill", "load"} =>
               \A k \in DOMAIN m.rows : k \in DOMAIN row /\ m.rows[k] = row[k]
    PROVE  CacheInv'
<1>1. ReadsInv'
  BY MoveReads DEF CacheInv
<1>2. ASSUME NEW s \in Servers, NEW k \in DOMAIN cache'[s] PROVE Follows(s, k)'
  <2>1. Follows(s, k)
    BY <1>2 DEF CacheInv, CacheFollowsTable, Follows
  <2>2. ASSUME NEW p \in Requests, At(p, "clear") /\ On(p, s) /\ mem[p].key = k
        PROVE  (At(p, "clear") /\ On(p, s) /\ mem[p].key = k)'
    <3>1. p # q
      BY <2>2 DEF At
    <3>2. pc'[p] = pc[p] /\ mem'[p] = mem[p]
      BY <3>1 DEF RequestTypes
    <3> QED BY <2>2, <3>2 DEF At, On
  <2> QED BY <2>1, <2>2 DEF Follows
<1> QED BY <1>1, <1>2 DEF CacheInv, CacheFollowsTable, Follows

\* A write of key k by request q.
LEMMA WriteFollows ==
    ASSUME TypeInv, CacheInv, NEW q \in Requests, NEW k, k = mem[q].key,
           pc[q] \in {"write", "remove"}, Goto(q, "clear"), PassesBy(q, k), cache' = cache,
           \A x \in DOMAIN row \ {k} : x \in DOMAIN row' /\ row'[x] = row[x]
    PROVE  CacheInv'
<1>1. pc'[q] = "clear" /\ mem'[q] = mem[q]
  BY DEF TypeInv, RequestTypes, Goto, PassesBy
<1>2. ASSUME NEW p \in Requests
      PROVE  /\ pc'[p] \in {"fill", "load"} => pc'[p] = pc[p]
             /\ pc[p] = "clear" => pc'[p] = "clear" /\ mem'[p] = mem[p]
  BY DEF TypeInv, RequestTypes, Goto, PassesBy
<1>3. ReadsInv'
  <2> SUFFICES ASSUME NEW p \in Requests, pc'[p] \in {"fill", "load"},
                      NEW x \in DOMAIN mem'[p].rows
               PROVE  \/ x \in DOMAIN row' /\ mem'[p].rows[x] = row'[x]
                      \/ x \in mem'[p].late
    BY DEF ReadsInv
  <2>1. pc[p] = pc'[p] /\ HeldAt(pc[p], mem[p], writes)
    BY <1>2 DEF TypeInv, RequestTypes
  <2>2. mem'[p] = IF k \in DOMAIN mem[p].rows
                  THEN [mem[p] EXCEPT !.late = @ \cup {k}] ELSE mem[p]
    BY <2>1 DEF PassesBy
  <2>3. /\ mem'[p].rows = mem[p].rows /\ mem[p].late \subseteq mem'[p].late
        /\ k \in DOMAIN mem[p].rows => k \in mem'[p].late
    <3>1. CASE k \in DOMAIN mem[p].rows
      <4>1. mem'[p] = [mem[p] EXCEPT !.late = @ \cup {k}]
        BY <2>2, <3>1
      <4>2. CASE pc[p] = "fill"
        BY <2>1, <4>1, <4>2 DEF HeldAt
      <4>3. CASE pc[p] = "load"
        BY <2>1, <4>1, <4>3 DEF HeldAt
      <4> QED BY <2>1, <4>2, <4>3
    <3>2. CASE k \notin DOMAIN mem[p].rows
      BY <2>2, <3>2
    <3> QED BY <3>1, <3>2
  <2>4. (x \in DOMAIN row /\ mem[p].rows[x] = row[x]) \/ x \in mem[p].late
    BY <2>1, <2>3 DEF CacheInv, ReadsInv
  <2> QED BY <2>3, <2>4
<1>4. ASSUME NEW s \in Servers, NEW x \in DOMAIN cache'[s] PROVE Follows(s, x)'
  <2>1. Follows(s, x)
    BY <1>4 DEF CacheInv, CacheFollowsTable, Follows
  <2>2. stale'[s] = IF s # mem[q].server /\ k \in DOMAIN cache[s]
                    THEN stale[s] \cup {k} ELSE stale[s]
    BY DEF PassesBy
  <2>3. CASE x = k /\ s # mem[q].server
    BY <1>4, <2>2, <2>3 DEF Follows
  <2>4. CASE x = k /\ s = mem[q].server
    BY <1>1, <2>4 DEF Follows, At, On
  <2>5. CASE x # k /\ x \in DOMAIN row /\ cache[s][x] = row[x]
    BY <2>5 DEF Follows
  <2>6. CASE x \in stale[s]
    BY <2>2, <2>6 DEF Follows
  <2>7. ASSUME NEW p \in Requests, At(p, "clear") /\ On(p, s) /\ mem[p].key = x
        PROVE  Follows(s, x)'
    BY <1>2, <2>7 DEF Follows, At, On
  <2> QED BY <2>1, <2>3, <2>4, <2>5, <2>6, <2>7 DEF Follows
<1> QED BY <1>3, <1>4 DEF CacheInv, CacheFollowsTable, Follows
\* A request other than q that was about to clear an entry still is, when q moves.
LEMMA OthersClear ==
    ASSUME RequestTypes, NEW q \in Requests, NEW step, NEW m,
           pc' = [pc EXCEPT ![q] = step], mem' = [mem EXCEPT ![q] = m],
           NEW p \in Requests \ {q}, NEW s, NEW k,
           At(p, "clear") /\ On(p, s) /\ mem[p].key = k
    PROVE  Follows(s, k)'
<1>1. pc'[p] = pc[p] /\ mem'[p] = mem[p]
  BY DEF RequestTypes
<1> QED BY <1>1 DEF At, On, Follows

LEMMA FinishMoves ==
    ASSUME NEW q, Finish(q)
    PROVE  pc' = [pc EXCEPT ![q] = "idle"] /\ mem' = [mem EXCEPT ![q] = Idle]
BY DEF Finish, Goto

LEMMA StepKeepsCache == ASSUME TypeInv, CacheInv, [Next]_vars PROVE CacheInv'
<1>1. ASSUME NEW q \in Requests, GetConfig(q) PROVE CacheInv'
  <2>1. PICK s \in Servers, k \in DOMAIN row :
          mem' = [mem EXCEPT ![q] =
                [server |-> s, key |-> k, rows |-> With([x \in {} |-> NoRow], k, row[k]),
                 late |-> {}]]
    BY <1>1 DEF GetConfig
  <2>2. /\ DOMAIN With([x \in {} |-> NoRow], k, row[k]) = {k}
        /\ With([x \in {} |-> NoRow], k, row[k])[k] = row[k]
    BY DEF With
  <2> QED BY <1>1, <2>1, <2>2, MoveFollows DEF TypeInv, GetConfig, Goto, At
<1>2. ASSUME NEW q \in Requests, FillCache(q) PROVE CacheInv'
  <2>1. PICK m, t, k : m = mem[q] /\ t = m.server /\ k = m.key
    OBVIOUS
  <2>2. HeldAt("fill", m, writes) /\ t \in Servers
    BY <1>2, <2>1 DEF TypeInv, RequestTypes, FillCache, At, HeldAt
  <2>3. /\ cache' = [cache EXCEPT ![t] = With(cache[t], k, m.rows[k])]
        /\ stale' = [stale EXCEPT ![t] = (stale[t] \ {k}) \cup m.late]
        /\ row' = row
        /\ pc' = [pc EXCEPT ![q] = "idle"] /\ mem' = [mem EXCEPT ![q] = Idle]
    BY <1>2, <2>1, FinishMoves DEF FillCache
  <2>4. ReadsInv'
    BY <2>3, MoveReads DEF TypeInv, CacheInv
  <2>5. (k \in DOMAIN row /\ m.rows[k] = row[k]) \/ k \in m.late
    BY <1>2, <2>1, <2>2 DEF CacheInv, ReadsInv, HeldAt, FillCache, At
  <2>6. ASSUME NEW s \in Servers, NEW x \in DOMAIN cache'[s] PROVE Follows(s, x)'
    <3>1. CASE s = t /\ x = k
      <4>1. cache'[s][x] = m.rows[k] /\ stale'[s] = (stale[s] \ {k}) \cup m.late
        BY <2>2, <2>3, <3>1 DEF With, TypeInv, TableTypes
      <4> QED BY <2>3, <2>5, <3>1, <4>1 DEF Follows
    <3>2. CASE ~(s = t /\ x = k)
      <4>1. /\ x \in DOMAIN cache[s] /\ cache'[s][x] = cache[s][x]
            /\ x \in stale[s] => x \in stale'[s]
        BY <2>2, <2>3, <2>6, <3>2 DEF With, TypeInv, TableTypes
      <4>2. Follows(s, x)
        BY <4>1 DEF CacheInv, CacheFollowsTable, Follows
      <4>3. ASSUME NEW p \in Requests, At(p, "clear") /\ On(p, s) /\ mem[p].key = x
            PROVE  Follows(s, x)'
        <5>1. p # q
          BY <1>2, <4>3 DEF FillCache, At
        <5> QED BY <2>3, <4>3, <5>1, OthersClear DEF TypeInv
      <4> QED BY <2>3, <4>1, <4>2, <4>3 DEF Follows
    <3> QED BY <3>1, <3>2
  <2> QED BY <2>4, <2>6 DEF CacheInv, CacheFollowsTable, Follows
<1>3. ASSUME NEW q \in Requests, SetConfig(q) PROVE CacheInv'
  <2>1. PICK m : mem' = [mem EXCEPT ![q] = m]
    BY <1>3 DEF SetConfig
  <2> QED BY <1>3, <2>1, MoveFollows DEF TypeInv, SetConfig, Goto, At
<1>4. ASSUME NEW q \in Requests, SaveSelect(q) PROVE CacheInv'
  <2>1. PICK m : mem' = [mem EXCEPT ![q] = m]
    BY <1>4 DEF SaveSelect
  <2> QED BY <1>4, <2>1, MoveFollows DEF TypeInv, SaveSelect, Goto, At
<1>5. ASSUME NEW q \in Requests, SaveInsert(q) PROVE CacheInv'
  <2>1. CASE mem[q].key \in DOMAIN row
    <3>1. Finish(q) /\ UNCHANGED <<row, stale, cache>> /\ pc[q] # "clear"
      BY <1>5, <2>1 DEF SaveInsert, At
    <3> QED BY <3>1, FinishMoves, MoveFollows DEF TypeInv
  <2>2. CASE mem[q].key \notin DOMAIN row
    <3>1. PICK k : k = mem[q].key
      OBVIOUS
    <3>2. PICK r : r = Inserted(mem[q].entity)
      OBVIOUS
    <3>3. /\ row' = With(row, k, r) /\ PassesBy(q, k) /\ Goto(q, "clear") /\ cache' = cache
          /\ pc[q] = "write"
      BY <1>5, <2>2, <3>1, <3>2, Zenon DEF SaveInsert, At
    <3>4. \A x \in DOMAIN row \ {k} : x \in DOMAIN row' /\ row'[x] = row[x]
      BY <3>3 DEF With
    <3> QED BY <3>1, <3>3, <3>4, WriteFollows
  <2> QED BY <2>1, <2>2
<1>6. ASSUME NEW q \in Requests, SaveUpdate(q) PROVE CacheInv'
  <2>1. CASE mem[q].key \in DOMAIN row /\ row[mem[q].key].id = mem[q].seen.id
    <3>1. PICK k : k = mem[q].key
      OBVIOUS
    <3>2. PICK r : r = Updated(row[k], mem[q].entity, mem[q].seen)
      OBVIOUS
    <3>3. /\ row' = With(row, k, r) /\ PassesBy(q, k) /\ Goto(q, "clear") /\ cache' = cache
          /\ pc[q] = "write"
      BY <1>6, <2>1, <3>1, <3>2, Zenon DEF SaveUpdate, At
    <3>4. \A x \in DOMAIN row \ {k} : x \in DOMAIN row' /\ row'[x] = row[x]
      BY <3>3 DEF With
    <3> QED BY <3>1, <3>3, <3>4, WriteFollows
  <2>2. CASE ~(mem[q].key \in DOMAIN row /\ row[mem[q].key].id = mem[q].seen.id)
    <3>1. UNCHANGED <<row, mem, stale, cache>> /\ Goto(q, "clear") /\ pc[q] # "clear"
      BY <1>6, <2>2, Zenon DEF SaveUpdate, At
    <3>2. mem' = [mem EXCEPT ![q] = mem[q]]
      BY <3>1 DEF TypeInv, RequestTypes
    <3> QED BY <3>1, <3>2, MoveFollows DEF TypeInv, Goto
  <2> QED BY <2>1, <2>2
<1>7. ASSUME NEW q \in Requests, ClearEntry(q) PROVE CacheInv'
  <2>1. PICK t, k : t = mem[q].server /\ k = mem[q].key
    OBVIOUS
  <2>2. t \in Servers
    BY <1>7, <2>1 DEF TypeInv, RequestTypes, ClearEntry, At, HeldAt
  <2>3. /\ cache' = [cache EXCEPT ![t] = Without(cache[t], k)]
        /\ stale' = [stale EXCEPT ![t] = stale[t] \ {k}]
        /\ row' = row
        /\ pc' = [pc EXCEPT ![q] = "idle"] /\ mem' = [mem EXCEPT ![q] = Idle]
    BY <1>7, <2>1, FinishMoves DEF ClearEntry
  <2>4. ReadsInv'
    BY <2>3, MoveReads DEF TypeInv, CacheInv
  <2>5. ASSUME NEW s \in Servers, NEW x \in DOMAIN cache'[s] PROVE Follows(s, x)'
    <3>1. /\ ~(s = t /\ x = k) /\ x \in DOMAIN cache[s] /\ cache'[s][x] = cache[s][x]
          /\ x \in stale[s] => x \in stale'[s]
      BY <2>2, <2>3, <2>5 DEF Without, TypeInv, TableTypes
    <3>2. Follows(s, x)
      BY <3>1 DEF CacheInv, CacheFollowsTable, Follows
    <3>3. ASSUME NEW p \in Requests, At(p, "clear") /\ On(p, s) /\ mem[p].key = x
          PROVE  Follows(s, x)'
      <4>1. p # q
        BY <2>1, <3>1, <3>3 DEF On
      <4> QED BY <2>3, <3>3, <4>1, OthersClear DEF TypeInv
    <3> QED BY <2>3, <3>1, <3>2, <3>3 DEF Follows
  <2> QED BY <2>4, <2>5 DEF CacheInv, CacheFollowsTable, Follows
<1>8. ASSUME NEW q \in Requests, DeleteConfig(q) PROVE CacheInv'
  <2>1. PICK m : mem' = [mem EXCEPT ![q] = m]
    BY <1>8 DEF DeleteConfig
  <2> QED BY <1>8, <2>1, MoveFollows DEF TypeInv, DeleteConfig, Goto, At
<1>9. ASSUME NEW q \in Requests, RemoveRow(q) PROVE CacheInv'
  <2>1. CASE mem[q].key \in DOMAIN row /\ row[mem[q].key].id = mem[q].entity.id
    <3>1. PICK k : k = mem[q].key
      OBVIOUS
    <3>2. /\ row' = Without(row, k) /\ PassesBy(q, k) /\ Goto(q, "clear") /\ cache' = cache
          /\ pc[q] = "remove"
      BY <1>9, <2>1, <3>1, Zenon DEF RemoveRow, At
    <3>3. \A x \in DOMAIN row \ {k} : x \in DOMAIN row' /\ row'[x] = row[x]
      BY <3>2 DEF Without
    <3> QED BY <3>1, <3>2, <3>3, WriteFollows
  <2>2. CASE ~(mem[q].key \in DOMAIN row /\ row[mem[q].key].id = mem[q].entity.id)
    <3>1. UNCHANGED <<row, mem, stale, cache>> /\ Goto(q, "clear") /\ pc[q] # "clear"
      BY <1>9, <2>2, Zenon DEF RemoveRow, At
    <3>2. mem' = [mem EXCEPT ![q] = mem[q]]
      BY <3>1 DEF TypeInv, RequestTypes
    <3> QED BY <3>1, <3>2, MoveFollows DEF TypeInv, Goto
  <2> QED BY <2>1, <2>2
<1>10. ASSUME NEW q \in Requests, Reload(q) PROVE CacheInv'
  <2>1. PICK t \in Servers :
          /\ cache' = [cache EXCEPT ![t] = [k \in {} |-> NoRow]]
          /\ stale' = [stale EXCEPT ![t] = {}]
          /\ mem' = [mem EXCEPT ![q] = [server |-> t]]
    BY <1>10 DEF Reload
  <2>2. row' = row /\ pc[q] = "idle" /\ pc' = [pc EXCEPT ![q] = "find"]
    BY <1>10 DEF Reload, At, Goto
  <2>3. ReadsInv'
    BY <2>1, <2>2, MoveReads DEF TypeInv, CacheInv
  <2>4. ASSUME NEW s \in Servers, NEW x \in DOMAIN cache'[s] PROVE Follows(s, x)'
    <3>1. /\ x \in DOMAIN cache[s] /\ cache'[s] = cache[s] /\ stale'[s] = stale[s]
      BY <2>1, <2>4 DEF TypeInv, TableTypes
    <3>2. Follows(s, x)
      BY <3>1 DEF CacheInv, CacheFollowsTable, Follows
    <3>3. ASSUME NEW p \in Requests, At(p, "clear") /\ On(p, s) /\ mem[p].key = x
          PROVE  Follows(s, x)'
      <4>1. p # q
        BY <2>2, <3>3 DEF At
      <4> QED BY <2>1, <2>2, <3>3, <4>1, OthersClear DEF TypeInv
    <3> QED BY <2>2, <3>1, <3>2, <3>3 DEF Follows
  <2> QED BY <2>3, <2>4 DEF CacheInv, CacheFollowsTable, Follows
<1>11. ASSUME NEW q \in Requests, FindAll(q) PROVE CacheInv'
  <2>1. PICK m : m.rows = row /\ mem' = [mem EXCEPT ![q] = m]
    BY <1>11 DEF FindAll
  <2> QED BY <1>11, <2>1, MoveFollows DEF TypeInv, FindAll, Goto, At
<1>12. ASSUME NEW q \in Requests, Load(q) PROVE CacheInv'
  <2> DEFINE t == mem[q].server
             rows == mem[q].rows
  <2>1. PICK loaded \in SUBSET DOMAIN rows :
          /\ cache' = [cache EXCEPT ![t] = [k \in loaded |-> rows[k]]]
          /\ stale' = [stale EXCEPT ![t] = mem[q].late \cap loaded]
    BY <1>12 DEF Load
  <2>2. t \in Servers /\ pc[q] = "load"
    BY <1>12 DEF TypeInv, RequestTypes, Load, At, HeldAt
  <2>3. row' = row /\ pc' = [pc EXCEPT ![q] = "idle"] /\ mem' = [mem EXCEPT ![q] = Idle]
    BY <1>12, FinishMoves DEF Load
  <2>4. ReadsInv'
    BY <2>3, MoveReads DEF TypeInv, CacheInv
  <2>5. \A k \in DOMAIN rows : (k \in DOMAIN row /\ rows[k] = row[k]) \/ k \in mem[q].late
    BY <2>2 DEF CacheInv, ReadsInv
  <2>6. ASSUME NEW s \in Servers, NEW x \in DOMAIN cache'[s] PROVE Follows(s, x)'
    <3>1. CASE s = t
      <4>1. cache'[s] = [k \in loaded |-> rows[k]] /\ stale'[s] = mem[q].late \cap loaded
        BY <2>1, <2>2, <3>1 DEF TypeInv, TableTypes
      <4>2. x \in loaded /\ cache'[s][x] = rows[x]
        BY <2>6, <4>1
      <4> QED BY <2>1, <2>3, <2>5, <4>1, <4>2 DEF Follows
    <3>2. CASE s # t
      <4>1. /\ x \in DOMAIN cache[s] /\ cache'[s] = cache[s] /\ stale'[s] = stale[s]
        BY <2>1, <2>6, <3>2 DEF TypeInv, TableTypes
      <4>2. Follows(s, x)
        BY <4>1 DEF CacheInv, CacheFollowsTable, Follows
      <4>3. ASSUME NEW p \in Requests, At(p, "clear") /\ On(p, s) /\ mem[p].key = x
            PROVE  Follows(s, x)'
        <5>1. p # q
          BY <2>2, <4>3 DEF At
        <5> QED BY <2>3, <4>3, <5>1, OthersClear DEF TypeInv
      <4> QED BY <2>3, <4>1, <4>2, <4>3 DEF Follows
    <3> QED BY <3>1, <3>2
  <2> QED BY <2>4, <2>6 DEF CacheInv, CacheFollowsTable, Follows
<1>13. ASSUME NEW q \in Requests, RequestFails(q) PROVE CacheInv'
  <2>1. /\ row' = row /\ cache' = cache
        /\ pc' = [pc EXCEPT ![q] = "idle"] /\ mem' = [mem EXCEPT ![q] = Idle]
    BY <1>13, FinishMoves DEF RequestFails
  <2>2. CASE pc[q] # "clear"
    <3>1. stale' = stale
      BY <1>13, <2>2 DEF RequestFails, At
    <3> QED BY <2>1, <2>2, <3>1, MoveFollows DEF TypeInv
  <2>3. CASE pc[q] = "clear"
    <3>1. stale' = [stale EXCEPT ![mem[q].server] = @ \cup {mem[q].key}]
      BY <1>13, <2>3 DEF RequestFails, At
    <3>2. ReadsInv'
      BY <2>1, MoveReads DEF TypeInv, CacheInv
    <3>3. ASSUME NEW s \in Servers, NEW x \in DOMAIN cache'[s] PROVE Follows(s, x)'
      <4>1. Follows(s, x) /\ stale[s] \subseteq stale'[s]
        BY <2>1, <3>1, <3>3 DEF CacheInv, CacheFollowsTable, Follows, TypeInv, TableTypes
      <4>2. ASSUME NEW p \in Requests, At(p, "clear") /\ On(p, s) /\ mem[p].key = x
            PROVE  Follows(s, x)'
        <5>1. CASE p = q
          BY <3>1, <4>2, <5>1 DEF Follows, On, TypeInv, TableTypes
        <5>2. CASE p # q
          BY <2>1, <4>2, <5>2, OthersClear DEF TypeInv
        <5> QED BY <5>1, <5>2
      <4> QED BY <2>1, <4>1, <4>2 DEF Follows
    <3> QED BY <3>2, <3>3 DEF CacheInv, CacheFollowsTable, Follows
  <2> QED BY <2>2, <2>3
<1>14. CASE Crash
  <2>1. PICK t \in Servers :
          /\ cache' = [cache EXCEPT ![t] = [k \in {} |-> NoRow]]
          /\ stale' = [stale EXCEPT ![t] = {}]
          /\ pc' = [q \in Requests |-> IF On(q, t) THEN "idle" ELSE pc[q]]
          /\ mem' = [q \in Requests |-> IF On(q, t) THEN Idle ELSE mem[q]]
    BY <1>14 DEF Crash
  <2>2. row' = row
    BY <1>14 DEF Crash
  <2>3. ReadsInv'
    <3> SUFFICES ASSUME NEW p \in Requests, pc'[p] \in {"fill", "load"},
                        NEW k \in DOMAIN mem'[p].rows
                 PROVE  \/ k \in DOMAIN row' /\ mem'[p].rows[k] = row'[k]
                        \/ k \in mem'[p].late
      BY DEF ReadsInv
    <3>1. pc'[p] = pc[p] /\ mem'[p] = mem[p]
      BY <2>1
    <3> QED BY <2>2, <3>1 DEF CacheInv, ReadsInv
  <2>4. ASSUME NEW s \in Servers, NEW x \in DOMAIN cache'[s] PROVE Follows(s, x)'
    <3>1. /\ s # t /\ x \in DOMAIN cache[s]
          /\ cache'[s] = cache[s] /\ stale'[s] = stale[s]
      BY <2>1, <2>4 DEF TypeInv, TableTypes
    <3>2. Follows(s, x)
      BY <3>1 DEF CacheInv, CacheFollowsTable, Follows
    <3>3. ASSUME NEW p \in Requests, At(p, "clear") /\ On(p, s) /\ mem[p].key = x
          PROVE  Follows(s, x)'
      <4>1. ~On(p, t)
        BY <3>1, <3>3 DEF On
      <4>2. pc'[p] = pc[p] /\ mem'[p] = mem[p]
        BY <2>1, <4>1
      <4> QED BY <3>3, <4>2 DEF Follows, At, On
    <3> QED BY <2>2, <3>1, <3>2, <3>3 DEF Follows
  <2> QED BY <2>3, <2>4 DEF CacheInv, CacheFollowsTable, Follows
<1>15. CASE UNCHANGED vars
  BY <1>15 DEF vars, CacheInv, ReadsInv, CacheFollowsTable, At, On
<1> QED BY <1>1, <1>2, <1>3, <1>4, <1>5, <1>6, <1>7, <1>8, <1>9, <1>10, <1>11, <1>12,
           <1>13, <1>14, <1>15 DEF Next, Step

LEMMA InitCache == Init => CacheInv
BY DEF Init, CacheInv, ReadsInv, CacheFollowsTable

\* getConfig serves what the table holds, except between a write and its cache.delete,
\* after a fill of what was read before a write, in the other processes, and when the
\* answer of a write was lost.
THEOREM CacheIsCurrent == Spec => []CacheFollowsTable
<1>1. CacheInv => CacheFollowsTable
  BY DEF CacheInv
<1> QED BY <1>1, TypeInvHolds, InitCache, StepKeepsCache, PTL DEF Spec
------------------------------------------------------------------------------
(***************************************************************************)
(* The flag tells the cipher.                                              *)
(***************************************************************************)
LEMMA InsertedFlag ==
    ASSUME NEW ent \in Entity
    PROVE  Inserted(ent).enc = ent.enc /\ Inserted(ent).cipher = ent.cipher
BY DEF Inserted, Entity

\* An UPDATE of the row as it was read leaves the flag of the entity.
LEMMA UpdatedFlag ==
    ASSUME NEW ent \in Entity, NEW r \in Rows
    PROVE  Updated(r, ent, r).enc = ent.enc /\ Updated(r, ent, r).cipher = ent.cipher
BY DEF Updated, Rows, Row

\* The row of k is written, and r is what is written.
LEMMA WriteTells ==
    ASSUME FlagTellsCipher, NEW k, NEW r, NEW ent \in Entity, NEW overlapped,
           row' = With(row, k, r), Mixes(k, ent, overlapped),
           ~overlapped => r.enc = ent.enc /\ r.cipher = ent.cipher
    PROVE  FlagTellsCipher'
<1> SUFFICES ASSUME NEW x \in DOMAIN row'
             PROVE  row'[x].enc = row'[x].cipher \/ x \in mixed'
  BY DEF FlagTellsCipher
<1>1. CASE x = k
  <2>1. row'[x] = r
    BY <1>1 DEF With
  <2>2. CASE overlapped \/ ~Readable(ent)
    BY <1>1, <2>2 DEF Mixes
  <2>3. CASE ~overlapped /\ Readable(ent)
    <3>1. ent.enc = ent.cipher
      BY <2>3 DEF Readable, Entity
    <3> QED BY <2>1, <2>3, <3>1
  <2> QED BY <2>2, <2>3
<1>2. CASE x # k
  <2>1. x \in DOMAIN row /\ row'[x] = row[x]
    BY <1>2 DEF With
  <2>2. x \in mixed => x \in mixed'
    BY <1>2 DEF Mixes
  <2> QED BY <2>1, <2>2 DEF FlagTellsCipher
<1> QED BY <1>1, <1>2

LEMMA StepKeepsFlags == ASSUME TypeInv, FlagTellsCipher, [Next]_vars PROVE FlagTellsCipher'
<1>1. ASSUME NEW q \in Requests, SaveInsert(q) PROVE FlagTellsCipher'
  <2>1. CASE mem[q].key \in DOMAIN row
    BY <1>1, <2>1 DEF SaveInsert, FlagTellsCipher
  <2>2. CASE mem[q].key \notin DOMAIN row
    <3>1. PICK k, ent : k = mem[q].key /\ ent = mem[q].entity
      OBVIOUS
    <3>2. row' = With(row, k, Inserted(ent)) /\ Mixes(k, ent, FALSE)
      BY <1>1, <2>2, <3>1, Zenon DEF SaveInsert
    <3>3. ent \in Entity
      BY <1>1, <3>1 DEF TypeInv, RequestTypes, HeldAt, SaveInsert, At
    <3> QED BY <3>2, <3>3, InsertedFlag, WriteTells
  <2> QED BY <2>1, <2>2
<1>2. ASSUME NEW q \in Requests, SaveUpdate(q) PROVE FlagTellsCipher'
  <2>1. PICK k, ent, seen : k = mem[q].key /\ ent = mem[q].entity /\ seen = mem[q].seen
    OBVIOUS
  <2>2. CASE k \in DOMAIN row /\ row[k].id = seen.id
    <3>1. /\ row' = With(row, k, Updated(row[k], ent, seen))
          /\ Mixes(k, ent, row[k] # seen)
      BY <1>2, <2>1, <2>2, Zenon DEF SaveUpdate
    <3>2. ent \in Entity /\ row[k] \in Rows
      BY <1>2, <2>1, <2>2 DEF TypeInv, TableTypes, RequestTypes, HeldAt, SaveUpdate, At
    <3>3. PICK r : r = Updated(row[k], ent, seen)
      OBVIOUS
    <3>4. row[k] = seen => r.enc = ent.enc /\ r.cipher = ent.cipher
      BY <3>2, <3>3, UpdatedFlag
    <3> QED BY <3>1, <3>2, <3>3, <3>4, WriteTells
  <2>3. CASE ~(k \in DOMAIN row /\ row[k].id = seen.id)
    <3>1. UNCHANGED <<row, mixed>>
      BY <1>2, <2>1, <2>3, Zenon DEF SaveUpdate
    <3> QED BY <3>1 DEF FlagTellsCipher
  <2> QED BY <2>2, <2>3
<1>3. ASSUME NEW q \in Requests, RemoveRow(q) PROVE FlagTellsCipher'
  <2>1. row' = row \/ row' = Without(row, mem[q].key)
    BY <1>3 DEF RemoveRow
  <2>2. \A x \in DOMAIN row' : x \in DOMAIN row /\ row'[x] = row[x]
    BY <2>1 DEF Without
  <2> QED BY <1>3, <2>2 DEF RemoveRow, FlagTellsCipher
<1>4. CASE UNCHANGED <<row, mixed>>
  BY <1>4 DEF FlagTellsCipher
<1>5. ASSUME NEW q \in Requests, Step(q) PROVE FlagTellsCipher'
  <2>1. SaveInsert(q) \/ SaveUpdate(q) \/ RemoveRow(q) \/ UNCHANGED <<row, mixed>>
    BY <1>5 DEF Step, GetConfig, FillCache, SetConfig, SaveSelect, DeleteConfig, ClearEntry,
                Reload, FindAll, Load, RequestFails
  <2> QED BY <2>1, <1>1, <1>2, <1>3, <1>4
<1>6. CASE Crash \/ UNCHANGED vars
  BY <1>4, <1>6 DEF Crash, vars
<1> QED BY <1>5, <1>6 DEF Next

\* A row whose last write was alone and gave the option, or found the row plain, is
\* flagged as it is stored.
THEOREM FlagIsRight == Spec => []FlagTellsCipher
<1>1. Init => FlagTellsCipher
  BY DEF Init, FlagTellsCipher
<1> QED BY <1>1, TypeInvHolds, StepKeepsFlags, PTL DEF Spec
=============================================================================
