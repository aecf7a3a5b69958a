----------------------- MODULE FrontOfficeRecordsProofs -----------------------
(***************************************************************************)
(* Theorems about what FrontOffice keeps on record, for any number of      *)
(* requests and of calls, any tables and bounds, and all failures: the     *)
(* records of merchants, of users with their wallets and sessions, and the *)
(* audit trail.                                                            *)
(***************************************************************************)
EXTENDS FrontOfficeProofs

MerchantAct == MerchantNext \/ \E q \in Requests : MerchantInterrupted(q)

\* What a request holds at a step.
SavingMerchant == {"saveFraudConfig", "commitMerchant"}
KnownSteps == {"findFraudConfig", "insertFraudConfig", "findProfile"} \cup ProfileSteps
MerchantHeld(step, m) ==
    /\ step \in RegisterSteps \cup {"findMerchant"} => m.email \in Emails
    /\ step \in SavingMerchant => m.id \in MerchantIds
    /\ step = "insertHook" => m.row \in Hook
    /\ step \in HookSteps => m.hook \in HookIds /\ m.row \in Hook
    /\ step \in ProfileSteps \cup {"findProfile"} => m.id \in MerchantIds
    /\ step = "findProfile" => \/ m.removes = FALSE /\ m.body \in ProfileBodies \cup {[logo |-> Promise]}
                               \/ m.removes = TRUE /\ m.body = [logo |-> ""]
    /\ step \in ProfileSteps => /\ m.row \in MerchantRow
                                /\ m.file \in Pictures => m.row.logo = "" /\ "logo" \in m.said

MerchantTypeInv ==
    /\ PerRequest
    /\ merchants \in [MerchantIds -> Emails \cup {None}]
    /\ hooks \in [HookIds -> Hook \cup {None}]
    /\ businesses \in [MerchantIds -> Profile]
    /\ promised \in [MerchantIds -> ShopNames \cup {None}]
    /\ \A q \in Requests : MerchantHeld(pc[q], mem[q])

\* An e-mail that is being registered is not there yet, and in the hands of one request.
EmailInv ==
    /\ \A q \in Requests : \A a \in Registered :
          pc[q] \in RegisterSteps /\ merchants[a] = mem[q].email
             => mem[q].email \in shared \cup readdressed
    /\ \A q, r \in Requests :
          q # r /\ pc[q] \in RegisterSteps /\ pc[r] \in RegisterSteps /\ mem[q].email = mem[r].email
             => mem[q].email \in shared
    /\ \A q \in Requests : pc[q] \in SavingMerchant => mem[q].id \notin Registered
    /\ \A q, r \in Requests :
          pc[q] \in SavingMerchant /\ pc[r] \in SavingMerchant /\ mem[q].id = mem[r].id => q = r
    /\ \A q \in Requests : pc[q] \in KnownSteps => mem[q].id \in Registered
    /\ OnePerEmail
    /\ LimitsOfMerchants

\* An update that would make a webhook active again began when it was active.
HookInv ==
    /\ \A q, r \in Requests :
          q # r /\ pc[q] \in HookSteps /\ pc[r] \in HookSteps /\ mem[q].hook = mem[r].hook
             => mem[q].hook \in revived
    /\ \A q \in Requests : pc[q] \in HookSteps /\ mem[q].row.isActive => mem[q].hook \notin switchedOff \ revived
    /\ \A h \in switchedOff : h \in HookIds /\ hooks[h] # None
    /\ \A q \in Requests : pc[q] \in HookSteps => hooks[mem[q].hook] # None
    /\ DeletedHookStaysOff

\* A request has read f as the logo of its merchant.
ReadLogo(m, f) == m.file = f \/ ("logo" \notin m.said /\ m.row.logo = f)

\* Merchant a has file f as its logo, or had it when a request read it.
HasLogo(a, f) ==
    \/ businesses[a].logo = f
    \/ \E q \in Requests : pc[q] \in ProfileSteps /\ mem[q].id = a /\ ReadLogo(mem[q], f)

\* What the body does not name in a profile is as in the row.
AsRead(m) ==
    /\ "name" \notin m.said => m.row.name = businesses[m.id].name
    /\ "logo" \notin m.said => m.row.logo = businesses[m.id].logo

\* A profile in the hands of one request differs from the row in what the body names, and no
\* file is the logo of two merchants unless a body made it one.
ProfileInv ==
    /\ \A q, r \in Requests :
          q # r /\ pc[q] \in ProfileSteps /\ pc[r] \in ProfileSteps /\ mem[q].id = mem[r].id
             => mem[q].id \in unsettled
    /\ \A q \in Requests : pc[q] \in ProfileSteps /\ mem[q].id \notin unsettled => AsRead(mem[q])
    /\ \A f \in Pictures \ linked, a, b \in MerchantIds : HasLogo(a, f) /\ HasLogo(b, f) => a = b
    /\ \A a \in MerchantIds \ unsettled :
          /\ promised[a] # None => businesses[a].name = promised[a]
          /\ \/ businesses[a].logo \in Pictures \ linked => businesses[a].logo \in pictures
             \/ \E q \in Requests : pc[q] = "saveProfile" /\ mem[q].id = a /\ mem[q].file \in Pictures

MerchantInv == MerchantTypeInv /\ EmailInv /\ HookInv /\ ProfileInv

LEMMA MerchantInitInv == Init => MerchantInv
  <1> SUFFICES ASSUME Init PROVE MerchantInv
    OBVIOUS
  <1>1. PerRequest /\ \A q \in Requests : pc[q] = "idle"
    BY InitPerRequest DEF Init
  <1>2. PICK old : MerchantStart(old) /\ (old = {} \/ \E a \in MerchantIds : old = {a})
    BY DEF Init, MerchantInit, MerchantIdle
  <1> PICK e, f : e = (CHOOSE x \in Emails : TRUE) /\ f = (CHOOSE x \in Pictures : TRUE)
    OBVIOUS
  <1>3. e \in Emails /\ f \in Pictures
    BY MerchantAssumption
  <1>4. /\ merchants = [a \in MerchantIds |-> IF a \in old THEN e ELSE None]
        /\ businesses = [a \in MerchantIds |-> [name |-> None, logo |-> IF a \in old THEN f ELSE None]]
        /\ promised = [a \in MerchantIds |-> None] /\ hooks = [h \in HookIds |-> None]
        /\ pictures = IF old = {} THEN {} ELSE {f}
        /\ limits = {} /\ switchedOff = {}
    BY <1>2 DEF MerchantStart
  <1>5. MerchantTypeInv
    <2>1. businesses \in [MerchantIds -> Profile]
      BY <1>3, <1>4 DEF Profile
    <2> QED
      BY <1>1, <1>3, <1>4, <2>1
         DEF MerchantTypeInv, MerchantHeld, RegisterSteps, SavingMerchant, HookSteps, ProfileSteps
  <1>6. EmailInv
    <2>1. \A a, b \in Registered : a = b
      BY <1>2, <1>4 DEF Registered
    <2> QED
      BY <1>1, <1>4, <2>1
         DEF EmailInv, RegisterSteps, SavingMerchant, KnownSteps, ProfileSteps, OnePerEmail, LimitsOfMerchants
  <1>7. HookInv
    BY <1>1, <1>4 DEF HookInv, HookSteps, DeletedHookStaysOff
  <1>8. ProfileInv
    <2>1. \A q \in Requests : pc[q] \notin ProfileSteps
      BY <1>1 DEF ProfileSteps
    <2>2. \A a \in MerchantIds : /\ businesses[a].logo = IF a \in old THEN f ELSE None
                                 /\ promised[a] = None
      BY <1>4
    <2>3. \A g \in Pictures, a \in MerchantIds : HasLogo(a, g) => a \in old
      BY <2>1, <2>2, MerchantAssumption DEF HasLogo
    <2>4. \A a, b : a \in old /\ b \in old => a = b
      BY <1>2
    <2>5. \A a \in MerchantIds : businesses[a].logo \in Pictures => businesses[a].logo \in pictures
      BY <1>4, <2>2, MerchantAssumption
    <2> QED
      BY <2>1, <2>2, <2>3, <2>4, <2>5 DEF ProfileInv
  <1> QED
    BY <1>5, <1>6, <1>7, <1>8 DEF MerchantInv

------------------------------------------------------------------------------
\* The histories note what two requests hold.
MerchantNotes ==
    /\ shared \subseteq shared' /\ revived \subseteq revived' /\ unsettled \subseteq unsettled'
    /\ \A q, r \in Requests : q # r =>
          /\ pc'[q] \in RegisterSteps /\ pc'[r] \in RegisterSteps /\ mem'[q].email = mem'[r].email
                => mem'[q].email \in shared'
          /\ pc'[q] \in HookSteps /\ pc'[r] \in HookSteps /\ mem'[q].hook = mem'[r].hook
                => mem'[q].hook \in revived'
          /\ pc'[q] \in ProfileSteps /\ pc'[r] \in ProfileSteps /\ mem'[q].id = mem'[r].id
                => mem'[q].id \in unsettled'

LEMMA HistoryNotesMerchants == MerchantHistory => MerchantNotes
  <1> SUFFICES ASSUME MerchantHistory PROVE MerchantNotes
    OBVIOUS
  <1>1. shared \subseteq shared' /\ revived \subseteq revived' /\ unsettled \subseteq unsettled'
    BY DEF MerchantHistory
  <1>2. ASSUME NEW q \in Requests, NEW r \in Requests, q # r, pc'[q] \in RegisterSteps, pc'[r] \in RegisterSteps,
               mem'[q].email = mem'[r].email
        PROVE  mem'[q].email \in shared'
    <2>1. mem'[q].email \in Saving(q) /\ mem'[q].email \in Saving(r)
      BY <1>2 DEF Saving
    <2>2. mem'[q].email \in InBoth(Saving)
      BY <1>2, <2>1 DEF InBoth
    <2> QED
      BY <2>2 DEF MerchantHistory
  <1>3. ASSUME NEW q \in Requests, NEW r \in Requests, q # r, pc'[q] \in HookSteps, pc'[r] \in HookSteps,
               mem'[q].hook = mem'[r].hook
        PROVE  mem'[q].hook \in revived'
    <2>1. mem'[q].hook \in Updating(q) /\ mem'[q].hook \in Updating(r)
      BY <1>3 DEF Updating
    <2>2. mem'[q].hook \in InBoth(Updating)
      BY <1>3, <2>1 DEF InBoth
    <2> QED
      BY <2>2 DEF MerchantHistory
  <1>4. ASSUME NEW q \in Requests, NEW r \in Requests, q # r, pc'[q] \in ProfileSteps, pc'[r] \in ProfileSteps,
               mem'[q].id = mem'[r].id
        PROVE  mem'[q].id \in unsettled'
    <2>1. mem'[q].id \in Profiling(q) /\ mem'[q].id \in Profiling(r)
      BY <1>4 DEF Profiling
    <2>2. mem'[q].id \in InBoth(Profiling)
      BY <1>4, <2>1 DEF InBoth
    <2> QED
      BY <2>2 DEF MerchantHistory
  <1> QED
    BY <1>1, <1>2, <1>3, <1>4 DEF MerchantNotes

------------------------------------------------------------------------------
\* The merchants and limits stay, and what a request begins to register is not there yet.
LEMMA EmailQuiet ==
    ASSUME MerchantInv, MerchantNotes, UNCHANGED <<merchants, limits, readdressed>>,
           NEW q \in Requests, NEW step, NEW m, Put(q, step, m),
           step \in RegisterSteps => \/ pc[q] \in RegisterSteps /\ m.email = mem[q].email
                                     \/ \A a \in Registered : merchants[a] # m.email,
           step \in SavingMerchant => \/ pc[q] \in SavingMerchant /\ m.id = mem[q].id
                                      \/ m.id \notin Registered \cup Registering,
           step \in KnownSteps => m.id \in Registered
    PROVE  EmailInv'
  <1>1. pc'[q] = step /\ mem'[q] = m /\ \A r \in Requests \ {q} : pc'[r] = pc[r] /\ mem'[r] = mem[r]
    BY DEF Put
  <1>2. EmailInv /\ Registered' = Registered /\ shared \subseteq shared'
    BY DEF MerchantInv, Registered, MerchantNotes
  <1>3. \A r \in Requests : pc[r] \in SavingMerchant => mem[r].id \in Registering
    BY DEF Registering, SavingMerchant
  <1>4. (\A r \in Requests : \A a \in Registered :
            pc[r] \in RegisterSteps /\ merchants[a] = mem[r].email => mem[r].email \in shared \cup readdressed)'
    BY <1>1, <1>2 DEF EmailInv
  <1>5. (\A r, s \in Requests :
            r # s /\ pc[r] \in RegisterSteps /\ pc[s] \in RegisterSteps /\ mem[r].email = mem[s].email
               => mem[r].email \in shared)'
    BY DEF MerchantNotes
  <1>6. (\A r \in Requests : pc[r] \in SavingMerchant => mem[r].id \notin Registered)'
    BY <1>1, <1>2 DEF EmailInv
  <1>7. (\A r, s \in Requests :
            pc[r] \in SavingMerchant /\ pc[s] \in SavingMerchant /\ mem[r].id = mem[s].id => r = s)'
    BY <1>1, <1>2, <1>3 DEF EmailInv
  <1>8. (\A r \in Requests : pc[r] \in KnownSteps => mem[r].id \in Registered)'
    BY <1>1, <1>2 DEF EmailInv
  <1>9. OnePerEmail' /\ LimitsOfMerchants'
    BY <1>2 DEF EmailInv, OnePerEmail, LimitsOfMerchants
  <1> QED
    BY <1>4, <1>5, <1>6, <1>7, <1>8, <1>9 DEF EmailInv

\* The webhooks stay, and a request begins with an active one.
LEMMA HookQuiet ==
    ASSUME MerchantInv, MerchantNotes, UNCHANGED <<hooks, switchedOff>>,
           NEW q \in Requests, NEW step, NEW m, Put(q, step, m),
           step \in HookSteps => \/ pc[q] \in HookSteps /\ m.hook = mem[q].hook /\ m.row = mem[q].row
                                 \/ hooks[m.hook] # None /\ hooks[m.hook].isActive
    PROVE  HookInv'
  <1>1. pc'[q] = step /\ mem'[q] = m /\ \A r \in Requests \ {q} : pc'[r] = pc[r] /\ mem'[r] = mem[r]
    BY DEF Put
  <1>2. HookInv /\ revived \subseteq revived'
    BY DEF MerchantInv, MerchantNotes
  <1>3. (\A r, s \in Requests :
            r # s /\ pc[r] \in HookSteps /\ pc[s] \in HookSteps /\ mem[r].hook = mem[s].hook
               => mem[r].hook \in revived)'
    BY DEF MerchantNotes
  <1>4. (\A r \in Requests : pc[r] \in HookSteps /\ mem[r].row.isActive => mem[r].hook \notin switchedOff \ revived)'
    <2>1. \A h : h \in switchedOff \ revived => ~hooks[h].isActive
      BY <1>2 DEF HookInv, DeletedHookStaysOff
    <2>2. \A r \in Requests \ {q} : pc'[r] \in HookSteps /\ mem'[r].row.isActive => mem'[r].hook \notin switchedOff' \ revived'
      BY <1>1, <1>2 DEF HookInv
    <2>3. pc'[q] \in HookSteps /\ mem'[q].row.isActive => mem'[q].hook \notin switchedOff' \ revived'
      BY <1>1, <1>2, <2>1 DEF HookInv
    <2> QED
      BY <2>2, <2>3
  <1>5. (\A h \in switchedOff : h \in HookIds /\ hooks[h] # None)'
    BY <1>2 DEF HookInv
  <1>6. (\A r \in Requests : pc[r] \in HookSteps => hooks[mem[r].hook] # None)'
    BY <1>1, <1>2 DEF HookInv
  <1>7. DeletedHookStaysOff'
    BY <1>2 DEF HookInv, DeletedHookStaysOff
  <1> QED
    BY <1>3, <1>4, <1>5, <1>6, <1>7 DEF HookInv

\* The profiles stay, no file is lost that is not there, and a request begins with the row.
LEMMA ProfileQuiet ==
    ASSUME MerchantInv, MerchantNotes, UNCHANGED <<businesses, readdressed, linked, promised>>, pictures \subseteq pictures',
           NEW q \in Requests, NEW step, NEW m, Put(q, step, m),
           step \in ProfileSteps =>
              /\ m.id \in MerchantIds
              /\ \/ pc[q] \in ProfileSteps /\ m = mem[q]
                 \/ /\ AsRead(m)
                    /\ m.file \in Pictures => m.file = businesses[m.id].logo,
           pc[q] = "saveProfile" /\ mem[q].file \in Pictures => \/ step = "saveProfile" /\ m = mem[q]
                                                                \/ mem[q].id \in unsettled'
    PROVE  ProfileInv'
  <1>1. pc'[q] = step /\ mem'[q] = m /\ \A r \in Requests \ {q} : pc'[r] = pc[r] /\ mem'[r] = mem[r]
    BY DEF Put
  <1>2. ProfileInv /\ unsettled \subseteq unsettled'
    BY DEF MerchantInv, MerchantNotes
  <1>3. (\A r, s \in Requests :
            r # s /\ pc[r] \in ProfileSteps /\ pc[s] \in ProfileSteps /\ mem[r].id = mem[s].id
               => mem[r].id \in unsettled)'
    BY DEF MerchantNotes
  <1>4. (\A r \in Requests : pc[r] \in ProfileSteps /\ mem[r].id \notin unsettled => AsRead(mem[r]))'
    BY <1>1, <1>2 DEF ProfileInv, AsRead
  <1>5. \A f \in Pictures, a \in MerchantIds : HasLogo(a, f)' => HasLogo(a, f)
    BY <1>1 DEF HasLogo, ReadLogo, AsRead
  <1>6. (\A f \in Pictures \ linked, a, b \in MerchantIds : HasLogo(a, f) /\ HasLogo(b, f) => a = b)'
    BY <1>2, <1>5 DEF ProfileInv
  <1>7. (\A a \in MerchantIds \ unsettled :
            /\ promised[a] # None => businesses[a].name = promised[a]
            /\ \/ businesses[a].logo \in Pictures \ linked => businesses[a].logo \in pictures
               \/ \E r \in Requests : pc[r] = "saveProfile" /\ mem[r].id = a /\ mem[r].file \in Pictures)'
    <2> SUFFICES ASSUME NEW a \in MerchantIds \ unsettled'
                 PROVE  /\ promised[a] # None => businesses[a].name = promised[a]
                        /\ \/ businesses[a].logo \in Pictures \ linked => businesses[a].logo \in pictures'
                           \/ \E r \in Requests : pc'[r] = "saveProfile" /\ mem'[r].id = a /\ mem'[r].file \in Pictures
      OBVIOUS
    <2>1. \A r \in Requests : pc[r] = "saveProfile" /\ mem[r].id = a /\ mem[r].file \in Pictures
             => pc'[r] = "saveProfile" /\ mem'[r].id = a /\ mem'[r].file \in Pictures
      BY <1>1
    <2> QED
      BY <1>2, <2>1 DEF ProfileInv
  <1> QED
    BY <1>3, <1>4, <1>6, <1>7 DEF ProfileInv

\* The types stay correct if the tables do.
LEMMA TypeQuiet ==
    ASSUME MerchantInv, NEW q \in Requests, NEW step, NEW m, Put(q, step, m), MerchantHeld(step, m),
           (/\ merchants \in [MerchantIds -> Emails \cup {None}]
            /\ hooks \in [HookIds -> Hook \cup {None}]
            /\ businesses \in [MerchantIds -> Profile]
            /\ promised \in [MerchantIds -> ShopNames \cup {None}])'
    PROVE  MerchantTypeInv'
  <1>1. \A r \in Requests : MerchantHeld(pc'[r], mem'[r])
    BY DEF Put, MerchantInv, MerchantTypeInv
  <1> QED
    BY <1>1 DEF Put, MerchantTypeInv

LEMMA QuietMerchant ==
    ASSUME MerchantInv, MerchantNotes, UNCHANGED <<merchants, limits, hooks, switchedOff, businesses, readdressed, linked, promised>>,
           pictures \subseteq pictures',
           NEW q \in Requests, NEW step, NEW m, Put(q, step, m), MerchantHeld(step, m),
           step \in RegisterSteps => \/ pc[q] \in RegisterSteps /\ m.email = mem[q].email
                                     \/ \A a \in Registered : merchants[a] # m.email,
           step \in SavingMerchant => \/ pc[q] \in SavingMerchant /\ m.id = mem[q].id
                                      \/ m.id \notin Registered \cup Registering,
           step \in KnownSteps => m.id \in Registered,
           step \in HookSteps => \/ pc[q] \in HookSteps /\ m.hook = mem[q].hook /\ m.row = mem[q].row
                                 \/ hooks[m.hook] # None /\ hooks[m.hook].isActive,
           step \in ProfileSteps =>
              \/ pc[q] \in ProfileSteps /\ m = mem[q]
              \/ /\ AsRead(m)
                 /\ m.file \in Pictures => m.file = businesses[m.id].logo,
           pc[q] = "saveProfile" /\ mem[q].file \in Pictures => \/ step = "saveProfile" /\ m = mem[q]
                                                                \/ mem[q].id \in unsettled'
    PROVE  MerchantInv'
  <1>1. EmailInv'
    BY EmailQuiet
  <1>2. HookInv'
    BY HookQuiet
  <1>3. step \in ProfileSteps => m.id \in MerchantIds
    BY DEF MerchantHeld
  <1>4. ProfileInv'
    BY <1>3, ProfileQuiet
  <1>5. MerchantTypeInv'
    BY TypeQuiet DEF MerchantInv, MerchantTypeInv
  <1> QED
    BY <1>1, <1>2, <1>4, <1>5 DEF MerchantInv

------------------------------------------------------------------------------
LEMMA RegisterReads ==
    ASSUME MerchantInv, MerchantNotes, UNCHANGED merchantTables, UNCHANGED pictures, NEW q \in Requests,
           \/ PostMerchant(q) \/ FindMerchant(q) \/ SaveMerchant(q) \/ InitializeDefaultFraudConfig(q)
           \/ CheckTransaction(q) \/ GetMerchantConfig(q)
    PROVE  MerchantInv'
  <1> USE DEF At
  <1>0. /\ UNCHANGED <<merchants, limits, hooks, switchedOff, businesses, readdressed, linked, promised, pictures>>
        /\ pictures \subseteq pictures' /\ PerRequest /\ MerchantHeld(pc[q], mem[q]) /\ Registered \subseteq MerchantIds
    BY DEF merchantTables, profileVars, MerchantInv, MerchantTypeInv, Registered
  <1> USE DEF RegisterSteps, SavingMerchant, KnownSteps, HookSteps, ProfileSteps
  <1>1. CASE PostMerchant(q)
    <2>1. PICK e \in Emails : Receive(q, "merchants", "findMerchant", [email |-> e])
      BY <1>1 DEF PostMerchant
    <2>2. Put(q, "findMerchant", [email |-> e]) /\ pc[q] = "idle"
      BY <1>0, <2>1, ReceivePuts
    <2>3. MerchantHeld("findMerchant", [email |-> e])
      BY DEF MerchantHeld
    <2> QED
      BY <1>0, <2>2, <2>3, QuietMerchant
  <1>2. CASE FindMerchant(q)
    <2>1. pc[q] = "findMerchant" /\ mem[q].email \in Emails
      BY <1>0, <1>2 DEF FindMerchant, MerchantHeld
    <2>2. CASE Answer(q)
      <3>1. Put(q, "idle", NoMemory) /\ MerchantHeld("idle", NoMemory)
        BY <1>0, <2>2, AnswerPuts DEF MerchantHeld
      <3> QED
        BY <1>0, <2>1, <3>1, QuietMerchant
    <2>3. CASE Goto(q, "saveMerchant", mem[q]) /\ ~\E a \in Registered : merchants[a] = mem[q].email
      <3>1. Put(q, "saveMerchant", mem[q]) /\ MerchantHeld("saveMerchant", mem[q])
        BY <1>0, <2>1, <2>3, GotoPuts DEF MerchantHeld
      <3> QED
        BY <1>0, <2>1, <2>3, <3>1, QuietMerchant
    <2> QED
      BY <1>2, <2>2, <2>3 DEF FindMerchant
  <1>3. CASE SaveMerchant(q)
    <2>1. pc[q] = "saveMerchant" /\ mem[q].email \in Emails
      BY <1>0, <1>3 DEF SaveMerchant, MerchantHeld
    <2>2. PICK a \in MerchantIds \ (Registered \cup Registering) :
             Goto(q, "saveFraudConfig", [email |-> mem[q].email, id |-> a])
      BY <1>3 DEF SaveMerchant
    <2> PICK m : m = [email |-> mem[q].email, id |-> a]
      OBVIOUS
    <2>3. Put(q, "saveFraudConfig", m) /\ MerchantHeld("saveFraudConfig", m)
      BY <1>0, <2>1, <2>2, GotoPuts DEF MerchantHeld
    <2> QED
      BY <1>0, <2>1, <2>2, <2>3, QuietMerchant
  <1>4. CASE InitializeDefaultFraudConfig(q)
    <2>1. pc[q] = "saveFraudConfig" /\ mem[q].email \in Emails /\ mem[q].id \in MerchantIds
      BY <1>0, <1>4 DEF InitializeDefaultFraudConfig, MerchantHeld
    <2>2. Put(q, "commitMerchant", mem[q]) /\ MerchantHeld("commitMerchant", mem[q])
      BY <1>0, <1>4, <2>1, GotoPuts DEF InitializeDefaultFraudConfig, MerchantHeld
    <2> QED
      BY <1>0, <2>1, <2>2, QuietMerchant
  <1>5. CASE CheckTransaction(q)
    <2>1. PICK a \in Registered : Receive(q, "merchants", "findFraudConfig", [id |-> a])
      BY <1>5 DEF CheckTransaction
    <2>2. Put(q, "findFraudConfig", [id |-> a]) /\ pc[q] = "idle" /\ MerchantHeld("findFraudConfig", [id |-> a])
      BY <1>0, <2>1, ReceivePuts DEF MerchantHeld
    <2> QED
      BY <1>0, <2>2, QuietMerchant
  <1>6. CASE GetMerchantConfig(q)
    <2>1. pc[q] = "findFraudConfig" /\ mem[q].id \in Registered
      BY <1>6 DEF GetMerchantConfig, MerchantInv, EmailInv
    <2>2. CASE Answer(q)
      <3>1. Put(q, "idle", NoMemory) /\ MerchantHeld("idle", NoMemory)
        BY <1>0, <2>2, AnswerPuts DEF MerchantHeld
      <3> QED
        BY <1>0, <2>1, <3>1, QuietMerchant
    <2>3. CASE Goto(q, "insertFraudConfig", mem[q])
      <3>1. Put(q, "insertFraudConfig", mem[q]) /\ MerchantHeld("insertFraudConfig", mem[q])
        BY <1>0, <2>1, <2>3, GotoPuts DEF MerchantHeld
      <3> QED
        BY <1>0, <2>1, <3>1, QuietMerchant
    <2> QED
      BY <1>6, <2>2, <2>3 DEF GetMerchantConfig
  <1> QED
    BY <1>1, <1>2, <1>3, <1>4, <1>5, <1>6

LEMMA HookReads ==
    ASSUME MerchantInv, MerchantNotes, UNCHANGED merchantTables, UNCHANGED pictures, NEW q \in Requests,
           PostHook(q) \/ PutHook(q) \/ DeleteHook(q) \/ FindHook(q)
    PROVE  MerchantInv'
  <1> USE DEF At
  <1>0. /\ UNCHANGED <<merchants, limits, hooks, switchedOff, businesses, readdressed, linked, promised, pictures>>
        /\ pictures \subseteq pictures' /\ PerRequest /\ MerchantHeld(pc[q], mem[q]) /\ Registered \subseteq MerchantIds
    BY DEF merchantTables, profileVars, MerchantInv, MerchantTypeInv, Registered
  <1> USE DEF RegisterSteps, SavingMerchant, KnownSteps, HookSteps, ProfileSteps
  <1>1. CASE PostHook(q)
    <2>1. PICK a \in Registered, u \in Urls :
             Receive(q, "merchants", "insertHook", [row |-> [owner |-> a, url |-> u, isActive |-> TRUE]])
      BY <1>1 DEF PostHook
    <2> PICK m : m = [row |-> [owner |-> a, url |-> u, isActive |-> TRUE]]
      OBVIOUS
    <2>2. Put(q, "insertHook", m) /\ pc[q] = "idle"
      BY <1>0, <2>1, ReceivePuts
    <2>3. MerchantHeld("insertHook", m)
      BY <1>0 DEF MerchantHeld, Hook
    <2> QED
      BY <1>0, <2>2, <2>3, QuietMerchant
  <1>2. CASE PutHook(q) \/ DeleteHook(q)
    <2>1. PICK h, row :
             /\ h \in ActiveHooks
             /\ Receive(q, "merchants", "findHook", [hook |-> h, row |-> row])
             /\ (\E u \in Urls : row = [hooks[h] EXCEPT !.url = u]) \/ row = [hooks[h] EXCEPT !.isActive = FALSE]
      BY <1>2 DEF PutHook, DeleteHook
    <2>2. h \in HookIds /\ hooks[h] # None /\ hooks[h].isActive
      BY <2>1 DEF ActiveHooks
    <2>3. hooks[h] \in Hook
      BY <2>2 DEF MerchantInv, MerchantTypeInv
    <2>4. row \in Hook
      BY <2>1, <2>3 DEF Hook
    <2> PICK m : m = [hook |-> h, row |-> row]
      OBVIOUS
    <2>5. Put(q, "findHook", m) /\ pc[q] = "idle" /\ MerchantHeld("findHook", m)
      BY <1>0, <2>1, <2>2, <2>4, ReceivePuts DEF MerchantHeld
    <2> QED
      BY <1>0, <2>2, <2>5, QuietMerchant
  <1>3. CASE FindHook(q)
    <2>1. pc[q] = "findHook" /\ mem[q].hook \in HookIds /\ mem[q].row \in Hook
      BY <1>0, <1>3 DEF FindHook, MerchantHeld
    <2>2. Put(q, "saveHook", mem[q]) /\ MerchantHeld("saveHook", mem[q])
      BY <1>0, <1>3, <2>1, GotoPuts DEF FindHook, MerchantHeld
    <2> QED
      BY <1>0, <2>1, <2>2, QuietMerchant
  <1> QED
    BY <1>1, <1>2, <1>3

\* A logo assigned over the row of a merchant.
LEMMA AssignedLogo ==
    ASSUME NEW row \in MerchantRow, NEW logo \in {Promise, ""}, NEW b, b = [logo |-> logo]
    PROVE  "logo" \in DOMAIN b /\ b.logo = logo /\ Assigned(row, b) \in MerchantRow
  <1>1. DOMAIN b = {"logo"} /\ b["logo"] = logo
    OBVIOUS
  <1>2. /\ DOMAIN row = {"email", "name", "logo"}
        /\ row["email"] \in Emails /\ row["name"] \in ShopNames \cup {None}
    BY DEF MerchantRow
  <1> PICK after : after = Assigned(row, b)
    OBVIOUS
  <1>3. /\ after = [c \in {"email", "name", "logo"} |-> after[c]]
        /\ \A c \in {"email", "name", "logo"} : after[c] = IF c \in DOMAIN b THEN b[c] ELSE row[c]
    BY <1>2 DEF Assigned
  <1>4. /\ after.email = row["email"] /\ after.name = row["name"] /\ after.logo = logo
    BY <1>1, <1>3
  <1>5. after \in MerchantRow
    BY <1>2, <1>3, <1>4 DEF MerchantRow
  <1> QED
    BY <1>1, <1>5

LEMMA ProfileReads ==
    ASSUME MerchantInv, MerchantNotes, UNCHANGED <<merchants, limits, hooks, switchedOff, businesses, readdressed, linked, promised>>,
           NEW q \in Requests, PutProfile(q) \/ PostLogo(q) \/ DeleteLogo(q) \/ FindProfile(q)
    PROVE  MerchantInv'
  <1> USE DEF At
  <1>0. PerRequest /\ MerchantHeld(pc[q], mem[q]) /\ Registered \subseteq MerchantIds
    BY DEF MerchantInv, MerchantTypeInv, Registered
  <1> USE DEF RegisterSteps, SavingMerchant, KnownSteps, HookSteps, ProfileSteps
  <1>1. CASE PutProfile(q) \/ PostLogo(q) \/ DeleteLogo(q)
    <2>1. PICK a, b, removes :
             /\ a \in Registered
             /\ Receive(q, "merchants", "findProfile", [id |-> a, body |-> b, removes |-> removes])
             /\ \/ removes = FALSE /\ b \in ProfileBodies \cup {[logo |-> Promise]}
                \/ removes = TRUE /\ b = [logo |-> ""]
      <3>1. CASE PutProfile(q)
        BY <3>1 DEF PutProfile, Profiles
      <3>2. CASE PostLogo(q)
        BY <3>2 DEF PostLogo, Profiles
      <3>3. CASE DeleteLogo(q)
        BY <3>3 DEF DeleteLogo, Profiles
      <3> QED
        BY <1>1, <3>1, <3>2, <3>3
    <2>2. pictures \subseteq pictures'
      <3>1. CASE PutProfile(q) \/ DeleteLogo(q)
        BY <3>1 DEF PutProfile, DeleteLogo, merchantTables, profileVars
      <3>2. CASE PostLogo(q)
        BY <3>2 DEF PostLogo
      <3> QED
        BY <1>1, <3>1, <3>2
    <2> PICK m : m = [id |-> a, body |-> b, removes |-> removes]
      OBVIOUS
    <2>3. Put(q, "findProfile", m) /\ pc[q] = "idle" /\ MerchantHeld("findProfile", m)
      BY <1>0, <2>1, ReceivePuts DEF MerchantHeld
    <2> QED
      BY <1>0, <2>1, <2>2, <2>3, QuietMerchant
  <1>2. CASE FindProfile(q)
    <2> PICK a, b, row, file, new :
          /\ a = mem[q].id /\ b = mem[q].body
          /\ row = [email |-> merchants[a], name |-> businesses[a].name, logo |-> businesses[a].logo]
          /\ file = IF mem[q].removes THEN row.logo ELSE None
          /\ new = Assigned(row, b)
      OBVIOUS
    <2>1. /\ pc[q] = "findProfile" /\ a \in Registered
          /\ \/ mem[q].removes = FALSE /\ b \in ProfileBodies \cup {[logo |-> Promise]}
             \/ mem[q].removes = TRUE /\ b = [logo |-> ""]
      BY <1>0, <1>2 DEF FindProfile, MerchantHeld, MerchantInv, EmailInv
    <2>2. pictures \subseteq pictures'
      BY <1>2 DEF FindProfile, merchantTables, profileVars
    <2>3. row \in MerchantRow
      <3>1. merchants[a] \in Emails /\ businesses[a] \in Profile
        BY <1>0, <2>1 DEF MerchantInv, MerchantTypeInv, Registered
      <3> QED
        BY <3>1 DEF MerchantRow, Profile
    <2>4. /\ "name" \notin DOMAIN b => new.name = row.name
          /\ "logo" \notin DOMAIN b => new.logo = row.logo
          /\ "logo" \in DOMAIN b => new.logo = b.logo
      <3>1. DOMAIN row = {"email", "name", "logo"}
        OBVIOUS
      <3> QED
        BY <3>1 DEF Assigned
    <2>5. new \in MerchantRow
      <3>1. CASE b \in ProfileBodies
        BY <2>3, <3>1, MerchantAssumption
      <3>2. CASE b = [logo |-> Promise] \/ b = [logo |-> ""]
        BY <2>3, <3>2, AssignedLogo
      <3> QED
        BY <2>1, <3>1, <3>2
    <2>6. file \in Pictures => file = businesses[a].logo /\ new.logo = "" /\ "logo" \in DOMAIN b
      <3> SUFFICES ASSUME file \in Pictures PROVE file = businesses[a].logo /\ new.logo = "" /\ "logo" \in DOMAIN b
        OBVIOUS
      <3>1. None \notin Pictures
        BY MerchantAssumption
      <3>2. mem[q].removes = TRUE /\ b = [logo |-> ""]
        BY <2>1, <3>1
      <3>3. "logo" \in DOMAIN b /\ b.logo = ""
        BY <2>3, <3>2, AssignedLogo
      <3> QED
        BY <2>4, <3>2, <3>3
    <2>7. ASSUME NEW step \in ProfileSteps,
                 Goto(q, step, [id |-> a, said |-> DOMAIN b, file |-> file, row |-> new])
          PROVE  MerchantInv'
      <3> PICK m : m = [id |-> a, said |-> DOMAIN b, file |-> file, row |-> new]
        OBVIOUS
      <3>1. Put(q, step, m)
        BY <1>0, <2>7, GotoPuts
      <3>2. MerchantHeld(step, m)
        BY <1>0, <2>1, <2>5, <2>6 DEF MerchantHeld
      <3>3. AsRead(m)
        BY <2>4 DEF AsRead
      <3> QED
        BY <2>1, <2>2, <2>6, <2>7, <3>1, <3>2, <3>3, QuietMerchant
    <2>8. CASE Answer(q)
      <3>1. Put(q, "idle", NoMemory) /\ MerchantHeld("idle", NoMemory)
        BY <1>0, <2>8, AnswerPuts DEF MerchantHeld
      <3> QED
        BY <2>1, <2>2, <3>1, QuietMerchant
    <2> QED
      BY <1>2, <2>7, <2>8 DEF FindProfile
  <1> QED
    BY <1>1, <1>2

------------------------------------------------------------------------------
\* The transaction of a registration commits.
LEMMA CommitStep ==
    ASSUME MerchantInv, MerchantNotes, NEW q \in Requests, CommitMerchant(q), UNCHANGED pictures
    PROVE  MerchantInv'
  <1> PICK a, e : a = mem[q].id /\ e = mem[q].email
    OBVIOUS
  <1> USE DEF RegisterSteps, SavingMerchant, KnownSteps, HookSteps, ProfileSteps
  <1>0. /\ MerchantTypeInv /\ EmailInv /\ pc[q] = "commitMerchant" /\ a \in MerchantIds /\ e \in Emails
        /\ merchants' = [merchants EXCEPT ![a] = e] /\ limits' = limits \cup {a}
        /\ UNCHANGED <<hooks, switchedOff, businesses, readdressed, linked, promised, pictures>>
        /\ pictures \subseteq pictures'
    BY DEF CommitMerchant, At, MerchantInv, MerchantTypeInv, MerchantHeld, profileVars
  <1>1. Put(q, "idle", NoMemory)
    BY <1>0, AnswerPuts DEF CommitMerchant, MerchantTypeInv
  <1>2. pc'[q] = "idle" /\ \A r \in Requests \ {q} : pc'[r] = pc[r] /\ mem'[r] = mem[r]
    BY <1>1 DEF Put
  <1>3. /\ Registered' = Registered \cup {a} /\ a \notin Registered
        /\ merchants'[a] = e /\ \A b \in Registered : b # a /\ merchants'[b] = merchants[b]
    <2>1. a \notin Registered
      BY <1>0 DEF EmailInv
    <2>2. e # None
      BY <1>0, MerchantAssumption
    <2>3. merchants'[a] = e /\ \A b \in MerchantIds \ {a} : merchants'[b] = merchants[b]
      BY <1>0 DEF MerchantTypeInv
    <2> QED
      BY <1>0, <2>1, <2>2, <2>3 DEF Registered
  <1>4. MerchantTypeInv'
    <2>1. merchants' \in [MerchantIds -> Emails \cup {None}]
      BY <1>0 DEF MerchantTypeInv
    <2>2. MerchantHeld("idle", NoMemory)
      BY DEF MerchantHeld
    <2> QED
      BY <1>0, <1>1, <2>1, <2>2, TypeQuiet DEF MerchantTypeInv
  <1>5. EmailInv'
    <2>1. (\A r \in Requests : \A b \in Registered :
              pc[r] \in RegisterSteps /\ merchants[b] = mem[r].email => mem[r].email \in shared \cup readdressed)'
      <3> SUFFICES ASSUME NEW r \in Requests, NEW b \in Registered \cup {a}, pc'[r] \in RegisterSteps,
                          merchants'[b] = mem'[r].email
                   PROVE  mem'[r].email \in shared' \cup readdressed'
        BY <1>3
      <3>1. r # q /\ pc[r] \in RegisterSteps /\ mem'[r] = mem[r]
        BY <1>2
      <3>2. mem[r].email \in shared \cup readdressed
        BY <1>0, <1>3, <3>1 DEF EmailInv
      <3> QED
        BY <1>0, <3>1, <3>2 DEF MerchantNotes
    <2>2. (\A r, s \in Requests :
              r # s /\ pc[r] \in RegisterSteps /\ pc[s] \in RegisterSteps /\ mem[r].email = mem[s].email
                 => mem[r].email \in shared)'
      BY DEF MerchantNotes
    <2>3. (\A r \in Requests : pc[r] \in SavingMerchant => mem[r].id \notin Registered)'
      BY <1>0, <1>2, <1>3 DEF EmailInv
    <2>4. (\A r, s \in Requests :
              pc[r] \in SavingMerchant /\ pc[s] \in SavingMerchant /\ mem[r].id = mem[s].id => r = s)'
      BY <1>0, <1>2 DEF EmailInv
    <2>5. (\A r \in Requests : pc[r] \in KnownSteps => mem[r].id \in Registered)'
      BY <1>0, <1>2, <1>3 DEF EmailInv
    <2>6. OnePerEmail'
      <3> SUFFICES ASSUME NEW b \in Registered \cup {a}, NEW c \in Registered \cup {a}, b # c,
                          merchants'[b] = merchants'[c]
                   PROVE  merchants'[b] \in shared' \cup readdressed'
        BY <1>3 DEF OnePerEmail
      <3>1. CASE b \in Registered /\ c \in Registered
        BY <1>0, <1>3, <3>1 DEF EmailInv, OnePerEmail, MerchantNotes
      <3>2. CASE b = a \/ c = a
        BY <1>0, <1>3, <3>2 DEF EmailInv, MerchantNotes
      <3> QED
        BY <3>1, <3>2
    <2>7. LimitsOfMerchants'
      BY <1>0, <1>3 DEF EmailInv, LimitsOfMerchants
    <2> QED
      BY <2>1, <2>2, <2>3, <2>4, <2>5, <2>6, <2>7 DEF EmailInv
  <1>6. HookInv' /\ ProfileInv'
    BY <1>0, <1>1, HookQuiet, ProfileQuiet
  <1> QED
    BY <1>4, <1>5, <1>6 DEF MerchantInv

\* Limits are added for a merchant there is.
LEMMA CreateConfigStep ==
    ASSUME MerchantInv, MerchantNotes, NEW q \in Requests, CreateMerchantConfig(q), UNCHANGED pictures
    PROVE  MerchantInv'
  <1> USE DEF RegisterSteps, SavingMerchant, KnownSteps, HookSteps, ProfileSteps
  <1>0. /\ MerchantTypeInv /\ EmailInv /\ pc[q] = "insertFraudConfig"
        /\ limits' = limits \cup {mem[q].id}
        /\ UNCHANGED <<merchants, hooks, switchedOff, businesses, readdressed, linked, promised, pictures>>
        /\ pictures \subseteq pictures' /\ Registered' = Registered
    BY DEF CreateMerchantConfig, At, MerchantInv, profileVars, Registered
  <1>1. Put(q, "idle", NoMemory)
    BY <1>0, AnswerPuts DEF CreateMerchantConfig, MerchantTypeInv
  <1>2. pc'[q] = "idle" /\ \A r \in Requests \ {q} : pc'[r] = pc[r] /\ mem'[r] = mem[r]
    BY <1>1 DEF Put
  <1>3. MerchantTypeInv'
    <2>1. MerchantHeld("idle", NoMemory)
      BY DEF MerchantHeld
    <2> QED
      BY <1>0, <1>1, <2>1, TypeQuiet DEF MerchantTypeInv
  <1>4. EmailInv'
    <2>1. LimitsOfMerchants'
      BY <1>0 DEF EmailInv, LimitsOfMerchants
    <2>2. (\A r, s \in Requests :
              r # s /\ pc[r] \in RegisterSteps /\ pc[s] \in RegisterSteps /\ mem[r].email = mem[s].email
                 => mem[r].email \in shared)'
      BY DEF MerchantNotes
    <2>3. OnePerEmail'
      BY <1>0 DEF EmailInv, OnePerEmail, MerchantNotes
    <2>4. (\A r \in Requests : \A b \in Registered :
              pc[r] \in RegisterSteps /\ merchants[b] = mem[r].email => mem[r].email \in shared \cup readdressed)'
      BY <1>0, <1>2 DEF EmailInv, MerchantNotes
    <2> QED
      BY <1>0, <1>2, <2>1, <2>2, <2>3, <2>4 DEF EmailInv
  <1>5. HookInv' /\ ProfileInv'
    BY <1>0, <1>1, HookQuiet, ProfileQuiet
  <1> QED
    BY <1>3, <1>4, <1>5 DEF MerchantInv

\* A webhook is added in a place that was empty.
LEMMA RegisterHookStep ==
    ASSUME MerchantInv, MerchantNotes, NEW q \in Requests, RegisterHook(q), UNCHANGED pictures
    PROVE  MerchantInv'
  <1> USE DEF RegisterSteps, SavingMerchant, KnownSteps, HookSteps, ProfileSteps
  <1>0. /\ MerchantTypeInv /\ HookInv /\ pc[q] = "insertHook" /\ mem[q].row \in Hook /\ mem[q].row # None
        /\ UNCHANGED <<merchants, limits, switchedOff, businesses, readdressed, linked, promised, pictures>>
        /\ pictures \subseteq pictures'
    BY MerchantAssumption DEF RegisterHook, At, MerchantInv, MerchantTypeInv, MerchantHeld, profileVars
  <1>1. Put(q, "idle", NoMemory)
    BY <1>0, AnswerPuts DEF RegisterHook, MerchantTypeInv
  <1>2. pc'[q] = "idle" /\ \A r \in Requests \ {q} : pc'[r] = pc[r] /\ mem'[r] = mem[r]
    BY <1>1 DEF Put
  <1>3. PICK h \in HookIds : hooks[h] = None /\ hooks' = [hooks EXCEPT ![h] = mem[q].row]
    BY DEF RegisterHook
  <1>4. /\ hooks' \in [HookIds -> Hook \cup {None}] /\ hooks'[h] # None
        /\ \A g \in HookIds \ {h} : hooks'[g] = hooks[g]
    BY <1>0, <1>3 DEF MerchantTypeInv
  <1>5. MerchantTypeInv'
    <2>1. MerchantHeld("idle", NoMemory)
      BY DEF MerchantHeld
    <2> QED
      BY <1>0, <1>1, <1>4, <2>1, TypeQuiet DEF MerchantTypeInv
  <1>6. HookInv'
    <2>1. \A g \in switchedOff : g # h /\ g \in HookIds /\ hooks'[g] = hooks[g] /\ hooks[g] # None
      BY <1>0, <1>3, <1>4 DEF HookInv
    <2>2. (\A r, s \in Requests :
              r # s /\ pc[r] \in HookSteps /\ pc[s] \in HookSteps /\ mem[r].hook = mem[s].hook
                 => mem[r].hook \in revived)'
      BY DEF MerchantNotes
    <2>3. DeletedHookStaysOff'
      BY <1>0, <2>1 DEF HookInv, DeletedHookStaysOff, MerchantNotes
    <2>4. (\A r \in Requests : pc[r] \in HookSteps /\ mem[r].row.isActive => mem[r].hook \notin switchedOff \ revived)'
      BY <1>0, <1>2 DEF HookInv, MerchantNotes
    <2>5. (\A r \in Requests : pc[r] \in HookSteps => hooks[mem[r].hook] # None)'
      <3>1. \A r \in Requests : pc'[r] \in HookSteps => hooks[mem'[r].hook] # None /\ mem'[r].hook \in HookIds
        BY <1>0, <1>2 DEF HookInv, MerchantTypeInv, MerchantHeld
      <3> QED
        BY <1>4, <3>1
    <2> QED
      BY <1>0, <2>1, <2>2, <2>3, <2>4, <2>5 DEF HookInv
  <1>7. EmailInv' /\ ProfileInv'
    BY <1>0, <1>1, EmailQuiet, ProfileQuiet
  <1> QED
    BY <1>5, <1>6, <1>7 DEF MerchantInv

\* A webhook is saved as its request read it, with the change.
LEMMA UpdateHookStep ==
    ASSUME MerchantInv, MerchantNotes, NEW q \in Requests, UpdateHook(q), UNCHANGED pictures
    PROVE  MerchantInv'
  <1> PICK h, row : h = mem[q].hook /\ row = mem[q].row
    OBVIOUS
  <1> USE DEF RegisterSteps, SavingMerchant, KnownSteps, HookSteps, ProfileSteps
  <1>0. /\ MerchantTypeInv /\ HookInv /\ pc[q] = "saveHook" /\ h \in HookIds /\ row \in Hook /\ row # None
        /\ hooks' = [hooks EXCEPT ![h] = row]
        /\ switchedOff' = IF row.isActive THEN switchedOff ELSE switchedOff \cup {h}
        /\ UNCHANGED <<merchants, limits, businesses, readdressed, linked, promised, pictures>>
        /\ pictures \subseteq pictures'
    BY MerchantAssumption DEF UpdateHook, At, MerchantInv, MerchantTypeInv, MerchantHeld, profileVars
  <1>1. Put(q, "idle", NoMemory)
    BY <1>0, AnswerPuts DEF UpdateHook, MerchantTypeInv
  <1>2. pc'[q] = "idle" /\ \A r \in Requests \ {q} : pc'[r] = pc[r] /\ mem'[r] = mem[r]
    BY <1>1 DEF Put
  <1>3. /\ hooks' \in [HookIds -> Hook \cup {None}] /\ hooks'[h] = row
        /\ \A g \in HookIds \ {h} : hooks'[g] = hooks[g]
    BY <1>0 DEF MerchantTypeInv
  <1>4. MerchantTypeInv'
    <2>1. MerchantHeld("idle", NoMemory)
      BY DEF MerchantHeld
    <2> QED
      BY <1>0, <1>1, <1>3, <2>1, TypeQuiet DEF MerchantTypeInv
  <1>5. HookInv'
    <2>1. \A r \in Requests \ {q} : pc[r] \in HookSteps /\ mem[r].hook = h => h \in revived
      BY <1>0 DEF HookInv
    <2>2. (\A r, s \in Requests :
              r # s /\ pc[r] \in HookSteps /\ pc[s] \in HookSteps /\ mem[r].hook = mem[s].hook
                 => mem[r].hook \in revived)'
      BY DEF MerchantNotes
    <2>3. (\A r \in Requests : pc[r] \in HookSteps /\ mem[r].row.isActive => mem[r].hook \notin switchedOff \ revived)'
      BY <1>0, <1>2, <2>1 DEF HookInv, MerchantNotes
    <2>4. (\A g \in switchedOff : g \in HookIds /\ hooks[g] # None)'
      BY <1>0, <1>3 DEF HookInv
    <2>5. (\A r \in Requests : pc[r] \in HookSteps => hooks[mem[r].hook] # None)'
      <3>1. \A r \in Requests : pc'[r] \in HookSteps => hooks[mem'[r].hook] # None /\ mem'[r].hook \in HookIds
        BY <1>0, <1>2 DEF HookInv, MerchantTypeInv, MerchantHeld
      <3> QED
        BY <1>0, <1>3, <3>1
    <2>6. DeletedHookStaysOff'
      <3> SUFFICES ASSUME NEW g \in switchedOff' \ revived' PROVE ~hooks'[g].isActive
        BY DEF DeletedHookStaysOff
      <3>1. CASE g = h
        <4>1. row.isActive => h \notin switchedOff \ revived
          BY <1>0 DEF HookInv
        <4> QED
          BY <1>0, <1>3, <3>1, <4>1 DEF MerchantNotes
      <3>2. CASE g # h
        <4>1. g \in switchedOff \ revived /\ g \in HookIds
          BY <1>0, <3>2 DEF MerchantNotes, HookInv
        <4> QED
          BY <1>0, <1>3, <3>2, <4>1 DEF HookInv, DeletedHookStaysOff
      <3> QED
        BY <3>1, <3>2
    <2> QED
      BY <2>2, <2>3, <2>4, <2>5, <2>6 DEF HookInv
  <1>6. EmailInv' /\ ProfileInv'
    BY <1>0, <1>1, EmailQuiet, ProfileQuiet
  <1> QED
    BY <1>4, <1>5, <1>6 DEF MerchantInv

------------------------------------------------------------------------------
\* The file of a logo is deleted before the row is saved.
LEMMA Unlinked ==
    ASSUME MerchantInv, MerchantNotes, NEW q \in Requests, pc[q] = "unlinkLogo",
           UNCHANGED <<merchants, limits, hooks, switchedOff, businesses, readdressed, linked, promised>>,
           pictures' = pictures \ {mem[q].file}, Put(q, "saveProfile", mem[q])
    PROVE  MerchantInv'
  <1> PICK a, file : a = mem[q].id /\ file = mem[q].file
    OBVIOUS
  <1> USE DEF RegisterSteps, SavingMerchant, KnownSteps, HookSteps, ProfileSteps
  <1>0. MerchantTypeInv /\ EmailInv /\ ProfileInv /\ a \in MerchantIds /\ a \in Registered /\ PerRequest
    BY DEF MerchantInv, MerchantTypeInv, EmailInv, MerchantHeld
  <1>1. pc'[q] = "saveProfile" /\ mem'[q] = mem[q] /\ \A r \in Requests \ {q} : pc'[r] = pc[r] /\ mem'[r] = mem[r]
    BY DEF Put
  <1>2. MerchantHeld("saveProfile", mem[q])
    BY <1>0 DEF MerchantTypeInv, MerchantHeld
  <1>3. MerchantTypeInv'
    BY <1>0, <1>2, TypeQuiet DEF MerchantTypeInv
  <1>4. EmailInv' /\ HookInv'
    BY <1>0, EmailQuiet, HookQuiet
  <1>5. ProfileInv'
    <2>1. (\A r, s \in Requests :
              r # s /\ pc[r] \in ProfileSteps /\ pc[s] \in ProfileSteps /\ mem[r].id = mem[s].id
                 => mem[r].id \in unsettled)'
      BY DEF MerchantNotes
    <2>2. (\A r \in Requests : pc[r] \in ProfileSteps /\ mem[r].id \notin unsettled => AsRead(mem[r]))'
      BY <1>0, <1>1 DEF ProfileInv, AsRead, MerchantNotes
    <2>3. \A f \in Pictures, b \in MerchantIds : HasLogo(b, f)' => HasLogo(b, f)
      BY <1>0, <1>1 DEF HasLogo, ReadLogo
    <2>4. (\A f \in Pictures \ linked, b, c \in MerchantIds : HasLogo(b, f) /\ HasLogo(c, f) => b = c)'
      BY <1>0, <2>3 DEF ProfileInv
    <2>5. (\A b \in MerchantIds \ unsettled :
              /\ promised[b] # None => businesses[b].name = promised[b]
              /\ \/ businesses[b].logo \in Pictures \ linked => businesses[b].logo \in pictures
                 \/ \E r \in Requests : pc[r] = "saveProfile" /\ mem[r].id = b /\ mem[r].file \in Pictures)'
      <3> SUFFICES ASSUME NEW b \in MerchantIds \ unsettled'
                   PROVE  /\ promised[b] # None => businesses[b].name = promised[b]
                          /\ \/ businesses[b].logo \in Pictures \ linked => businesses[b].logo \in pictures'
                             \/ \E r \in Requests : pc'[r] = "saveProfile" /\ mem'[r].id = b /\ mem'[r].file \in Pictures
        BY <1>0
      <3>0. b \in MerchantIds \ unsettled
        BY DEF MerchantNotes
      <3>1. /\ promised[b] # None => businesses[b].name = promised[b]
            /\ \/ businesses[b].logo \in Pictures \ linked => businesses[b].logo \in pictures
               \/ \E r \in Requests : pc[r] = "saveProfile" /\ mem[r].id = b /\ mem[r].file \in Pictures
        BY <1>0, <3>0 DEF ProfileInv
      <3>2. \A r \in Requests : pc[r] = "saveProfile" => pc'[r] = pc[r] /\ mem'[r] = mem[r]
        BY <1>1
      <3>3. CASE b = a /\ file \in Pictures
        <4>1. pc'[q] = "saveProfile" /\ mem'[q].id = b /\ mem'[q].file \in Pictures
          BY <1>1, <3>3
        <4> QED
          BY <3>1, <4>1
      <3>4. CASE businesses[b].logo # file
        BY <1>0, <3>1, <3>2, <3>4
      <3>5. CASE b # a /\ businesses[b].logo = file
        <4>1. file \notin Pictures \ linked
          <5> SUFFICES ASSUME file \in Pictures \ linked PROVE FALSE
            OBVIOUS
          <5>1. HasLogo(a, file) /\ HasLogo(b, file)
            BY <1>0, <3>5 DEF HasLogo, ReadLogo
          <5> QED
            BY <1>0, <3>5, <5>1 DEF ProfileInv
        <4> QED
          BY <3>1, <3>5, <4>1
      <3>6. CASE file \notin Pictures
        BY <3>1, <3>2, <3>6
      <3> QED
        BY <3>3, <3>4, <3>5, <3>6
    <2> QED
      BY <2>1, <2>2, <2>4, <2>5 DEF ProfileInv
  <1> QED
    BY <1>3, <1>4, <1>5 DEF MerchantInv

LEMMA UnlinkStep ==
    ASSUME MerchantInv, MerchantNotes, NEW q \in Requests, UnlinkLogo(q)
    PROVE  MerchantInv'
  <1> USE DEF RegisterSteps, SavingMerchant, KnownSteps, HookSteps, ProfileSteps
  <1>0. /\ pc[q] = "unlinkLogo" /\ PerRequest
        /\ UNCHANGED <<merchants, limits, hooks, switchedOff, businesses, readdressed, linked, promised>>
        /\ pictures' = pictures \ {mem[q].file}
    BY DEF UnlinkLogo, At, MerchantInv, MerchantTypeInv
  <1>1. CASE mem[q].file \notin pictures /\ Answer(q)
    <2>1. Put(q, "idle", NoMemory) /\ MerchantHeld("idle", NoMemory)
      BY <1>0, <1>1, AnswerPuts DEF MerchantHeld
    <2>2. pictures \subseteq pictures'
      BY <1>0, <1>1
    <2> QED
      BY <1>0, <2>1, <2>2, QuietMerchant
  <1>2. CASE mem[q].file \in pictures /\ Goto(q, "saveProfile", mem[q])
    <2>1. Put(q, "saveProfile", mem[q])
      BY <1>0, <1>2, GotoPuts
    <2> QED
      BY <1>0, <2>1, Unlinked
  <1> QED
    BY <1>1, <1>2 DEF UnlinkLogo

\* A profile is saved as its request read it, with what the body names.
LEMMA SaveProfileStep ==
    ASSUME MerchantInv, MerchantNotes, NEW q \in Requests, SaveProfile(q)
    PROVE  MerchantInv'
  <1> PICK a, row, said : a = mem[q].id /\ row = mem[q].row /\ said = mem[q].said
    OBVIOUS
  <1> USE DEF RegisterSteps, SavingMerchant, KnownSteps, HookSteps, ProfileSteps
  <1>0. /\ MerchantTypeInv /\ EmailInv /\ ProfileInv /\ pc[q] = "saveProfile" /\ a \in Registered
        /\ a \in MerchantIds /\ row \in MerchantRow
        /\ mem[q].file \in Pictures => row.logo = "" /\ "logo" \in said
        /\ merchants' = [merchants EXCEPT ![a] = row.email]
        /\ businesses' = [businesses EXCEPT ![a] = [name |-> row.name, logo |-> row.logo]]
        /\ readdressed' = IF row.email = merchants[a] THEN readdressed ELSE readdressed \cup {row.email}
        /\ linked' = IF "logo" \in said THEN linked \cup ({row.logo} \cap Pictures) ELSE linked
        /\ promised' = IF "name" \in said THEN [promised EXCEPT ![a] = row.name] ELSE promised
        /\ UNCHANGED <<limits, hooks, switchedOff, pictures>> /\ PerRequest
    BY DEF SaveProfile, At, MerchantInv, MerchantTypeInv, MerchantHeld, EmailInv
  <1>1. Put(q, "idle", NoMemory) /\ MerchantHeld("idle", NoMemory)
    BY <1>0, AnswerPuts DEF SaveProfile, MerchantHeld
  <1>2. pc'[q] = "idle" /\ \A r \in Requests \ {q} : pc'[r] = pc[r] /\ mem'[r] = mem[r]
    BY <1>1 DEF Put
  <1>3. row.email \in Emails /\ row.name \in ShopNames \cup {None} /\ row.email # None
        /\ [name |-> row.name, logo |-> row.logo] \in Profile
    BY <1>0, MerchantAssumption DEF MerchantRow, Profile
  <1>4. /\ merchants' \in [MerchantIds -> Emails \cup {None}]
        /\ merchants'[a] = row.email /\ \A b \in MerchantIds \ {a} : merchants'[b] = merchants[b]
        /\ businesses' \in [MerchantIds -> Profile] /\ promised' \in [MerchantIds -> ShopNames \cup {None}]
        /\ businesses'[a].name = row.name /\ businesses'[a].logo = row.logo
        /\ promised'[a] = IF "name" \in said THEN row.name ELSE promised[a]
        /\ \A b \in MerchantIds \ {a} : businesses'[b] = businesses[b] /\ promised'[b] = promised[b]
    <2>1. merchants' \in [MerchantIds -> Emails \cup {None}] /\ merchants'[a] = row.email
          /\ \A b \in MerchantIds \ {a} : merchants'[b] = merchants[b]
      BY <1>0, <1>3 DEF MerchantTypeInv
    <2>2. businesses' \in [MerchantIds -> Profile] /\ businesses'[a] = [name |-> row.name, logo |-> row.logo]
          /\ \A b \in MerchantIds \ {a} : businesses'[b] = businesses[b]
      BY <1>0, <1>3 DEF MerchantTypeInv
    <2>4. businesses'[a].name = row.name /\ businesses'[a].logo = row.logo
      BY <2>2
    <2>3. promised' \in [MerchantIds -> ShopNames \cup {None}]
          /\ promised'[a] = (IF "name" \in said THEN row.name ELSE promised[a])
          /\ \A b \in MerchantIds \ {a} : promised'[b] = promised[b]
      <3>1. promised \in [MerchantIds -> ShopNames \cup {None}]
        BY <1>0 DEF MerchantTypeInv
      <3>2. CASE "name" \in said
        BY <1>0, <1>3, <3>1, <3>2
      <3>3. CASE "name" \notin said
        BY <1>0, <3>1, <3>3
      <3> QED
        BY <3>2, <3>3
    <2> QED
      BY <2>1, <2>2, <2>4, <2>3
  <1>5. MerchantTypeInv'
    BY <1>0, <1>1, <1>4, TypeQuiet DEF MerchantTypeInv
  <1>6. EmailInv'
    <2>1. Registered' = Registered /\ Registered \subseteq MerchantIds
      <3>1. merchants[a] # None
        BY <1>0 DEF Registered
      <3>2. merchants'[a] # None /\ \A b \in MerchantIds \ {a} : merchants'[b] = merchants[b]
        BY <1>3, <1>4
      <3>3. \A b \in MerchantIds : merchants'[b] # None <=> merchants[b] # None
        BY Zenon, <3>1, <3>2
      <3> QED
        BY Zenon, <3>3 DEF Registered
    <2>2. readdressed \subseteq readdressed' /\ shared \subseteq shared' /\ (row.email # merchants[a] => row.email \in readdressed')
      BY <1>0 DEF MerchantNotes
    <2>3. (\A r \in Requests : \A b \in Registered :
              pc[r] \in RegisterSteps /\ merchants[b] = mem[r].email => mem[r].email \in shared \cup readdressed)'
      <3> SUFFICES ASSUME NEW r \in Requests, NEW b \in Registered, pc'[r] \in RegisterSteps,
                          merchants'[b] = mem'[r].email
                   PROVE  mem'[r].email \in shared' \cup readdressed'
        BY <2>1
      <3>1. r # q /\ pc[r] \in RegisterSteps /\ mem'[r] = mem[r]
        BY <1>2
      <3>2. CASE merchants'[b] = merchants[b]
        <4>1. mem[r].email \in shared \cup readdressed
          BY <1>0, <3>1, <3>2 DEF EmailInv
        <4> QED
          BY <2>2, <3>1, <4>1
      <3>3. CASE merchants'[b] # merchants[b]
        BY <1>4, <2>1, <2>2, <3>3
      <3> QED
        BY <3>2, <3>3
    <2>4. (\A r, s \in Requests :
              r # s /\ pc[r] \in RegisterSteps /\ pc[s] \in RegisterSteps /\ mem[r].email = mem[s].email
                 => mem[r].email \in shared)'
      BY DEF MerchantNotes
    <2>5. (\A r \in Requests : pc[r] \in SavingMerchant => mem[r].id \notin Registered)'
      BY <1>0, <1>2, <2>1 DEF EmailInv
    <2>6. (\A r, s \in Requests :
              pc[r] \in SavingMerchant /\ pc[s] \in SavingMerchant /\ mem[r].id = mem[s].id => r = s)'
      BY <1>0, <1>2 DEF EmailInv
    <2>7. (\A r \in Requests : pc[r] \in KnownSteps => mem[r].id \in Registered)'
      BY <1>0, <1>2, <2>1 DEF EmailInv
    <2>8. OnePerEmail'
      <3> SUFFICES ASSUME NEW b \in Registered, NEW c \in Registered, b # c, merchants'[b] = merchants'[c]
                   PROVE  merchants'[b] \in shared' \cup readdressed'
        BY <2>1 DEF OnePerEmail
      <3>1. CASE merchants'[b] = merchants[b] /\ merchants'[c] = merchants[c]
        BY <1>0, <2>2, <3>1 DEF EmailInv, OnePerEmail
      <3>2. CASE merchants'[b] # merchants[b] \/ merchants'[c] # merchants[c]
        BY <1>4, <2>1, <2>2, <3>2
      <3> QED
        BY <3>1, <3>2
    <2>9. LimitsOfMerchants'
      BY <1>0, <2>1 DEF EmailInv, LimitsOfMerchants
    <2> QED
      BY <2>3, <2>4, <2>5, <2>6, <2>7, <2>8, <2>9 DEF EmailInv
  <1>7. HookInv'
    BY <1>0, <1>1, HookQuiet
  <1>8. ProfileInv'
    <2>0. linked \subseteq linked' /\ pictures' = pictures
      BY <1>0
    <2>1. (\A r, s \in Requests :
              r # s /\ pc[r] \in ProfileSteps /\ pc[s] \in ProfileSteps /\ mem[r].id = mem[s].id
                 => mem[r].id \in unsettled)'
      BY DEF MerchantNotes
    <2>2. \A r \in Requests \ {q} : pc[r] \in ProfileSteps /\ mem[r].id = a => a \in unsettled
      BY <1>0 DEF ProfileInv
    <2>3. (\A r \in Requests : pc[r] \in ProfileSteps /\ mem[r].id \notin unsettled => AsRead(mem[r]))'
      <3> SUFFICES ASSUME NEW r \in Requests, pc'[r] \in ProfileSteps, mem'[r].id \notin unsettled'
                   PROVE  AsRead(mem[r])'
        OBVIOUS
      <3>1. r # q /\ mem'[r] = mem[r] /\ pc'[r] = pc[r] /\ mem[r].id \notin unsettled
        BY <1>2 DEF MerchantNotes
      <3>2. mem[r].id \in MerchantIds /\ mem[r].id # a
        BY <1>0, <2>2, <3>1 DEF MerchantTypeInv, MerchantHeld
      <3>3. AsRead(mem[r])
        BY <1>0, <3>1 DEF ProfileInv
      <3>4. businesses'[mem[r].id] = businesses[mem[r].id]
        BY <1>4, <3>2
      <3> QED
        BY <3>1, <3>3, <3>4 DEF AsRead
    <2>4. \A f \in Pictures \ linked', b \in MerchantIds : HasLogo(b, f)' => HasLogo(b, f)
      <3> SUFFICES ASSUME NEW f \in Pictures \ linked', NEW b \in MerchantIds, HasLogo(b, f)' PROVE HasLogo(b, f)
        OBVIOUS
      <3>1. CASE businesses'[b].logo = f /\ b = a
        <4>1. row.logo = f /\ "logo" \notin said
          BY <1>0, <1>4, <3>1
        <4>2. ReadLogo(mem[q], f)
          BY <4>1 DEF ReadLogo
        <4> QED
          BY <1>0, <3>1, <4>2 DEF HasLogo
      <3>2. CASE businesses'[b].logo = f /\ b # a
        BY <1>4, <3>2 DEF HasLogo
      <3>3. CASE \E r \in Requests : pc'[r] \in ProfileSteps /\ mem'[r].id = b /\ ReadLogo(mem'[r], f)
        BY <1>2, <3>3 DEF HasLogo, ReadLogo
      <3> QED
        BY <3>1, <3>2, <3>3 DEF HasLogo, ReadLogo
    <2>5. (\A f \in Pictures \ linked, b, d \in MerchantIds : HasLogo(b, f) /\ HasLogo(d, f) => b = d)'
      BY <1>0, <2>0, <2>4 DEF ProfileInv
    <2>6. (\A b \in MerchantIds \ unsettled :
              /\ promised[b] # None => businesses[b].name = promised[b]
              /\ \/ businesses[b].logo \in Pictures \ linked => businesses[b].logo \in pictures
                 \/ \E r \in Requests : pc[r] = "saveProfile" /\ mem[r].id = b /\ mem[r].file \in Pictures)'
      <3> SUFFICES ASSUME NEW b \in MerchantIds \ unsettled'
                   PROVE  /\ promised'[b] # None => businesses'[b].name = promised'[b]
                          /\ \/ businesses'[b].logo \in Pictures \ linked' => businesses'[b].logo \in pictures
                             \/ \E r \in Requests : pc'[r] = "saveProfile" /\ mem'[r].id = b /\ mem'[r].file \in Pictures
        BY <2>0
      <3>0. b \in MerchantIds \ unsettled
        BY DEF MerchantNotes
      <3>1. /\ promised[b] # None => businesses[b].name = promised[b]
            /\ \/ businesses[b].logo \in Pictures \ linked => businesses[b].logo \in pictures
               \/ \E r \in Requests : pc[r] = "saveProfile" /\ mem[r].id = b /\ mem[r].file \in Pictures
        BY <1>0, <3>0 DEF ProfileInv
      <3>2. CASE b = a
        <4>0. \A r \in Requests \ {q} : ~(pc[r] = "saveProfile" /\ mem[r].id = a)
          BY <2>2, <3>0, <3>2
        <4>1. /\ "name" \notin said => row.name = businesses[a].name
              /\ "logo" \notin said => row.logo = businesses[a].logo
          <5>1. AsRead(mem[q])
            BY <1>0, <3>0, <3>2 DEF ProfileInv
          <5> QED
            BY <5>1 DEF AsRead
        <4>2. promised'[a] # None => businesses'[a].name = promised'[a]
          BY <1>4, <3>1, <3>2, <4>1
        <4>3. businesses'[a].logo \in Pictures \ linked' => businesses'[a].logo \in pictures
          <5>1. CASE "logo" \notin said
            <6>1. ~\E r \in Requests : pc[r] = "saveProfile" /\ mem[r].id = b /\ mem[r].file \in Pictures
              BY <1>0, <2>2, <3>0, <3>2, <5>1
            <6> QED
              BY <1>4, <2>0, <3>1, <3>2, <4>1, <5>1, <6>1
          <5>2. CASE "logo" \in said
            BY <1>0, <1>4, <5>2
          <5> QED
            BY <5>1, <5>2
        <4> QED
          BY <3>2, <4>2, <4>3
      <3>3. CASE b # a
        <4>1. businesses'[b] = businesses[b] /\ promised'[b] = promised[b]
          BY <1>4, <3>3
        <4>2. \A r \in Requests : pc[r] = "saveProfile" /\ mem[r].id = b => r # q /\ pc'[r] = pc[r] /\ mem'[r] = mem[r]
          BY <1>2, <3>3
        <4> QED
          BY <2>0, <3>1, <4>1, <4>2
      <3> QED
        BY <3>2, <3>3
    <2> QED
      BY <2>1, <2>3, <2>5, <2>6 DEF ProfileInv
  <1> QED
    BY <1>5, <1>6, <1>7, <1>8 DEF MerchantInv

------------------------------------------------------------------------------
LEMMA MerchantInterruptedStep ==
    ASSUME MerchantInv, NEW q \in Requests, MerchantInterrupted(q)
    PROVE  MerchantInv'
  <1> USE DEF RegisterSteps, SavingMerchant, KnownSteps, HookSteps, ProfileSteps
  <1>0. /\ PerRequest /\ EmailInv /\ HookInv /\ ProfileInv
        /\ UNCHANGED <<merchants, limits, hooks, switchedOff, businesses, readdressed, linked, promised, pictures, shared, revived>>
        /\ unsettled \subseteq unsettled' /\ pictures \subseteq pictures'
    BY DEF MerchantInterrupted, MerchantInv, MerchantTypeInv, merchantTables, profileVars
  <1>1. Put(q, "idle", NoMemory)
    BY <1>0, InterruptedPuts DEF MerchantInterrupted
  <1>2. pc'[q] = "idle" /\ \A r \in Requests \ {q} : pc'[r] = pc[r] /\ mem'[r] = mem[r]
    BY <1>1 DEF Put
  <1>3. MerchantNotes
    BY <1>0, <1>2 DEF MerchantNotes, EmailInv, HookInv, ProfileInv
  <1>4. MerchantHeld("idle", NoMemory)
    BY DEF MerchantHeld
  <1>5. pc[q] = "saveProfile" /\ mem[q].file \in Pictures => mem[q].id \in unsettled'
    <2>1. pc[q] = "saveProfile" => mem[q].id \in MerchantIds
      BY DEF MerchantInv, MerchantTypeInv, MerchantHeld
    <2> QED
      BY <2>1 DEF MerchantInterrupted, At
  <1> QED
    BY <1>0, <1>1, <1>3, <1>4, <1>5, QuietMerchant

LEMMA MerchantStepInv == MerchantInv /\ MerchantAct => MerchantInv'
  <1> SUFFICES ASSUME MerchantInv, MerchantAct PROVE MerchantInv'
    OBVIOUS
  <1>1. CASE MerchantNext
    <2>1. MerchantNotes
      BY <1>1, HistoryNotesMerchants DEF MerchantNext
    <2>2. PICK q \in Requests :
             \/ MerchantReads(q) \/ CommitMerchant(q) \/ CreateMerchantConfig(q)
             \/ RegisterHook(q) \/ UpdateHook(q)
             \/ PutProfile(q) \/ PostLogo(q) \/ DeleteLogo(q)
             \/ FindProfile(q) \/ UnlinkLogo(q) \/ SaveProfile(q)
      BY <1>1 DEF MerchantNext
    <2>3. CASE MerchantReads(q)
      <3>1. UNCHANGED merchantTables /\ UNCHANGED pictures
        BY <2>3 DEF MerchantReads, merchantTables, profileVars
      <3> QED
        BY <2>1, <2>3, <3>1, RegisterReads, HookReads DEF MerchantReads
    <2>4. CASE CommitMerchant(q) \/ CreateMerchantConfig(q) \/ RegisterHook(q) \/ UpdateHook(q)
      <3>1. UNCHANGED pictures
        BY <2>4 DEF CommitMerchant, CreateMerchantConfig, RegisterHook, UpdateHook, profileVars
      <3> QED
        BY <2>1, <2>4, <3>1, CommitStep, CreateConfigStep, RegisterHookStep, UpdateHookStep
    <2>5. CASE PutProfile(q) \/ PostLogo(q) \/ DeleteLogo(q) \/ FindProfile(q)
      <3>1. UNCHANGED <<merchants, limits, hooks, switchedOff, businesses, readdressed, linked, promised>>
        <4>1. CASE PutProfile(q)
          BY <4>1 DEF PutProfile, merchantTables, profileVars
        <4>2. CASE PostLogo(q)
          BY <4>2 DEF PostLogo
        <4>3. CASE DeleteLogo(q)
          BY <4>3 DEF DeleteLogo, merchantTables, profileVars
        <4>4. CASE FindProfile(q)
          BY <4>4 DEF FindProfile, merchantTables, profileVars
        <4> QED
          BY <2>5, <4>1, <4>2, <4>3, <4>4
      <3> QED
        BY <2>1, <2>5, <3>1, ProfileReads
    <2>6. CASE UnlinkLogo(q) \/ SaveProfile(q)
      BY <2>1, <2>6, UnlinkStep, SaveProfileStep
    <2> QED
      BY <2>2, <2>3, <2>4, <2>5, <2>6
  <1>2. ASSUME NEW q \in Requests, MerchantInterrupted(q) PROVE MerchantInv'
    BY <1>2, MerchantInterruptedStep
  <1> QED
    BY <1>1, <1>2 DEF MerchantAct

LEMMA MerchantFrame ==
    ASSUME MerchantInv, PerRequest', UNCHANGED merchantVars, Apart(MerchantSteps)
    PROVE  MerchantInv'
  <1>0. /\ UNCHANGED <<merchants, limits, hooks, businesses, pictures, switchedOff, shared, readdressed, linked, revived, promised, unsettled>>
        /\ Registered' = Registered
        /\ MerchantTypeInv /\ EmailInv /\ HookInv /\ ProfileInv
    BY DEF merchantVars, Registered, MerchantInv
  <1>1. \A q \in Requests : pc'[q] \in MerchantSteps \/ pc[q] \in MerchantSteps => pc'[q] = pc[q] /\ mem'[q] = mem[q]
    BY DEF Apart
  <1>2. RegisterSteps \cup HookSteps \cup ProfileSteps \cup SavingMerchant \cup KnownSteps
           \cup {"findProfile", "findMerchant", "insertHook", "saveProfile"} \subseteq MerchantSteps
    BY DEF MerchantSteps, RegisterSteps, HookSteps, ProfileSteps, SavingMerchant, KnownSteps
  <1>3. MerchantTypeInv'
    <2>1. ASSUME NEW q \in Requests PROVE MerchantHeld(pc'[q], mem'[q])
      <3>1. CASE pc'[q] \in MerchantSteps
        BY <1>0, <1>1, <3>1 DEF MerchantTypeInv
      <3>2. CASE pc'[q] \notin MerchantSteps
        <4>1. /\ pc'[q] \notin RegisterSteps \cup HookSteps \cup ProfileSteps \cup SavingMerchant
              /\ pc'[q] \notin {"findProfile", "findMerchant", "insertHook", "saveProfile"}
          BY <1>2, <3>2
        <4> QED
          BY <4>1 DEF MerchantHeld, ProfileSteps
      <3> QED
        BY <3>1, <3>2
    <2> QED
      BY <1>0, <2>1 DEF MerchantTypeInv
  <1>4. EmailInv'
    <2>1. OnePerEmail' /\ LimitsOfMerchants'
      BY <1>0 DEF EmailInv, OnePerEmail, LimitsOfMerchants
    <2>2. \A q \in Requests : pc'[q] \in RegisterSteps \cup SavingMerchant \cup KnownSteps
             => pc'[q] = pc[q] /\ mem'[q] = mem[q]
      BY <1>1, <1>2
    <2> QED
      BY <1>0, <2>1, <2>2 DEF EmailInv
  <1>5. HookInv'
    <2>1. \A q \in Requests : pc'[q] \in HookSteps => pc'[q] = pc[q] /\ mem'[q] = mem[q]
      BY <1>1, <1>2
    <2> QED
      BY <1>0, <2>1 DEF HookInv, DeletedHookStaysOff
  <1>6. ProfileInv'
    <2>1. \A q \in Requests : pc'[q] \in ProfileSteps \/ pc[q] \in ProfileSteps => pc'[q] = pc[q] /\ mem'[q] = mem[q]
      BY <1>1, <1>2
    <2>2. \A a, f : HasLogo(a, f)' <=> HasLogo(a, f)
      BY <1>0, <2>1 DEF HasLogo, ReadLogo
    <2>3. \A m : AsRead(m)' <=> AsRead(m)
      BY <1>0 DEF AsRead
    <2>4. (\A q \in Requests : pc[q] \in ProfileSteps /\ mem[q].id \notin unsettled => AsRead(mem[q]))'
      <3> SUFFICES ASSUME NEW q \in Requests, pc'[q] \in ProfileSteps, mem'[q].id \notin unsettled' PROVE AsRead(mem'[q])
        BY <1>0 DEF AsRead
      <3> QED
        BY <1>0, <2>1 DEF ProfileInv
    <2>5. ProfileSteps = {"unlinkLogo", "saveProfile"}
      BY DEF ProfileSteps
    <2> QED
      BY <1>0, <2>1, <2>2, <2>4, <2>5 DEF ProfileInv
  <1> QED
    BY <1>3, <1>4, <1>5, <1>6 DEF MerchantInv

LEMMA MerchantNextInv == Base /\ MerchantInv /\ [Next]_vars => MerchantInv'
  <1> SUFFICES ASSUME Base, MerchantInv, [Next]_vars PROVE MerchantInv'
    OBVIOUS
  <1>1. CASE MerchantStep
    BY <1>1, MerchantStepInv DEF MerchantStep, MerchantAct
  <1>2. CASE ~MerchantStep
    BY <1>2, MerchantApart, MerchantFrame
  <1> QED
    BY <1>1, <1>2

LEMMA MerchantInvariant == Spec => []MerchantInv
  BY BaseInit, BaseStep, MerchantInitInv, MerchantNextInv, PTL DEF Spec

\* Whatever registrations, checks, updates and failures mix: an e-mail is shared and a deleted
\* webhook active only after two requests overlapped or a body gave the e-mail, limits belong to merchants, and a business
\* keeps the name it was told and the file of its logo, save where a request's body says
\* otherwise (merchant.service.ts lines 25 to 62 and
\* 209 to 308, webhook.service.ts lines 41 to 84).
THEOREM MerchantsKeepTheirRecords == Spec => []MerchantRecordsHold
  <1>1. MerchantInv => MerchantRecordsHold
    <2> SUFFICES ASSUME MerchantInv PROVE MerchantRecordsHold
      OBVIOUS
    <2>1. OnePerEmail /\ LimitsOfMerchants /\ DeletedHookStaysOff
      BY DEF MerchantInv, EmailInv, HookInv
    <2>2. ProfilesAreKept
      BY DEF MerchantInv, ProfileInv, ProfilesAreKept, Registered, At
    <2> QED
      BY <2>1, <2>2 DEF MerchantRecordsHold
  <1> QED
    BY <1>1, MerchantInvariant, PTL

------------------------------------------------------------------------------
AccountAct == AccountNext \/ \E q \in Requests : AccountInterrupted(q)

EditSteps == {"findEmail", "saveAccount"}
WalletSteps == {"checkWallet", "saveVerified", "saveOwner"}
NewSteps == {"findNewEmail", "insertAccount"}
KeepingSteps == EditSteps \cup WalletSteps \cup {"saveConfirmed"}

\* A removal, or an update with its body.
Asks(m) == m.removes = TRUE \/ (m.removes = FALSE /\ m.body \in UserBodies)

\* What a request holds at a step.
AccountHeld(step, m) ==
    /\ step \in NewSteps => m.row \in Account
    /\ step = "findByEmail" => m.email \in Addresses
    /\ step \in HoldingSteps \cup SessionSteps \cup {"queryProfile", "cacheProfile", "findAccount", "findMailUser", "saveProof"}
          => m.user \in People
    /\ step \in KeepingSteps \cup {"cacheProfile"} => m.row \in Account
    /\ step = "findAccount" => Asks(m)
    /\ step = "saveMail" => m \in [user: People, email: Addresses]
    /\ step \in {"findMail", "findMailUser", "saveConfirmed", "removeMail"} => m.mail \in MailIds
    /\ step = "saveProof" => m.wallet \in Wallets
    /\ step \in WalletSteps \cup {"findProof"} => m.proof \in ProofIds
    /\ step \in {"deleteSession", "deleteExpired"} => m.session \in SessionIds

AccountTypeInv ==
    /\ PerRequest
    /\ AccountTypeOK
    /\ DOMAIN newest = People
    /\ \A q \in Requests : AccountHeld(pc[q], mem[q])

\* A user no two requests create sessions for has the last one, and none while one request
\* is about to save the next.
SessionInv ==
    /\ \A q, r \in Requests :
          q # r /\ pc[q] \in SessionSteps /\ pc[r] \in SessionSteps /\ mem[q].user = mem[r].user
             => mem[q].user \in crossed
    /\ \A q \in Requests : pc[q] = "deleteSession" /\ mem[q].user \notin crossed =>
          SessionsOf(mem[q].user) \subseteq {mem[q].session}
    /\ \A q \in Requests : pc[q] = "saveSession" /\ mem[q].user \notin crossed => SessionsOf(mem[q].user) = {}
    /\ OneSessionPerUser

\* The verifications V that prove a wallet of u.
ProvedIn(V, u) == {p \in ProofIds : V[p] # None /\ V[p].user = u /\ V[p].status = "verified"}
WalletsIn(V, u) == {V[p].wallet : p \in ProvedIn(V, u)}

\* The row says of u what the verifications V, the users C confirmed and the columns R that
\* bodies set allow.
EmailTrue(u, row, C, R) == row.emailVerified => u \in C \/ <<u, "emailVerified">> \in R
WalletTrue(u, row, R, V) == row.walletVerified => ProvedIn(V, u) # {} \/ <<u, "walletVerified">> \in R
WalletIs(u, row, R, V) ==
    row.walletVerified => row.wallet \in WalletsIn(V, u) \/ <<u, "wallet">> \in R \/ <<u, "walletVerified">> \in R
RowTrue(u, row, C, R, V) == EmailTrue(u, row, C, R) /\ WalletTrue(u, row, R, V) /\ WalletIs(u, row, R, V)

\* So does a row in a request's hands, but for what its save will make true; the users whose
\* row a request holds are among those, B, that were created.
HeldTrue(step, m, B, C, R, V) ==
    /\ step \in HoldingSteps => m.user \in B
    /\ step \in NewSteps => /\ m.row.emailVerified => "emailVerified" \in m.said
                            /\ m.row.walletVerified => "walletVerified" \in m.said
    /\ step \in EditSteps =>
          /\ "emailVerified" \in m.said \/ EmailTrue(m.user, m.row, C, R)
          /\ "walletVerified" \in m.said \/ WalletTrue(m.user, m.row, R, V)
          /\ "wallet" \in m.said \/ "walletVerified" \in m.said \/ WalletIs(m.user, m.row, R, V)
    /\ step = "saveConfirmed" =>
          m.row.emailVerified /\ WalletTrue(m.user, m.row, R, V) /\ WalletIs(m.user, m.row, R, V)
    /\ step \in WalletSteps => EmailTrue(m.user, m.row, C, R) /\ V[m.proof].user = m.user
    /\ step \in WalletSteps \cup {"findProof"} => V[m.proof] # None
    /\ step = "saveOwner" => V[m.proof].status = "verified"
    /\ step = "cacheProfile" => RowTrue(m.user, m.row, C, R, V)

TruthInv ==
    /\ \A u, v \in Known : accounts[u].email = accounts[v].email => u = v
    /\ Known \subseteq born /\ confirmed \subseteq born
    /\ \A p \in Proving : proofs[p].user \in Known
    /\ \A u \in People : /\ accounts[u] # None => RowTrue(u, accounts[u], confirmed, stated, proofs)
                         /\ profiles[u] # None => RowTrue(u, profiles[u], confirmed, stated, proofs)
    /\ \A q \in Requests : HeldTrue(pc[q], mem[q], born, confirmed, stated, proofs)

\* What a request has not changed in a row is as it is stored.
AsStored(step, m, row) ==
    /\ step \in EditSteps => /\ "emailVerified" \in m.said \/ m.row.emailVerified = row.emailVerified
                             /\ "walletVerified" \in m.said \/ m.row.walletVerified = row.walletVerified
    /\ step = "saveConfirmed" => m.row.walletVerified = row.walletVerified
    /\ step \in WalletSteps => m.row = row

\* The row shows each verification of its user, but for a flag a body set; that of a wallet
\* when W is past its last save.
Shows(u, row, C, R, V, W) ==
    /\ u \in C => row.emailVerified \/ <<u, "emailVerified">> \in R
    /\ ProvedIn(V, u) # {} /\ W => row.walletVerified \/ <<u, "walletVerified">> \in R

Settled(u) == \A q \in Requests : ~(pc[q] = "saveOwner" /\ mem[q].user = u)

\* A row in the hands of one request is as it was read, and shows the verifications.
KeptInv ==
    /\ \A q, r \in Requests :
          q # r /\ pc[q] \in HoldingSteps /\ pc[r] \in HoldingSteps /\ mem[q].user = mem[r].user
             => mem[q].user \in torn
    /\ \A q \in Requests : pc[q] \in KeepingSteps /\ mem[q].user \notin torn =>
          mem[q].user \in Known /\ AsStored(pc[q], mem[q], accounts[mem[q].user])
    /\ \A u \in Known \ torn : Shows(u, accounts[u], confirmed, stated, proofs, Settled(u))

AccountInv == AccountTypeInv /\ SessionInv /\ TruthInv /\ KeptInv

LEMMA AccountInitInv == Init => AccountInv
  <1> SUFFICES ASSUME Init PROVE AccountInv
    OBVIOUS
  <1>1. PerRequest /\ \A q \in Requests : pc[q] = "idle"
    BY InitPerRequest DEF Init
  <1>2. AccountInit \/ AccountIdle
    BY DEF Init
  <1>3. PICK e : e = CHOOSE a \in Addresses : TRUE
    OBVIOUS
  <1>4. PICK first : first = NewAccount(e)
    OBVIOUS
  <1>5. e \in Addresses /\ first \in Account /\ first.email = e
    BY <1>3, <1>4, AccountAssumption DEF Account, NewAccount
  <1>6. /\ accounts = [u \in People |-> None] \/ accounts = [u \in People |-> IF u = Owner THEN first ELSE None]
        /\ Owner \in born \/ accounts = [u \in People |-> None]
        /\ mails \in [MailIds -> [user: People, email: Addresses] \cup {None}]
        /\ profiles = [u \in People |-> None] /\ proofs = [p \in ProofIds |-> None]
        /\ sessions = [s \in SessionIds |-> None] /\ newest = [u \in People |-> None]
        /\ confirmed = {}
    <2>1. CASE AccountInit
      BY <1>3, <1>4, <1>5, <2>1, AccountAssumption DEF AccountInit
    <2>2. CASE AccountIdle
      BY <2>2 DEF AccountIdle
    <2> QED
      BY <1>2, <2>1, <2>2
  <1>7. \A u \in People : accounts[u] # None => u = Owner /\ accounts[u] = first /\ u \in born
    BY <1>6
  <1>8. AccountTypeInv
    BY <1>1, <1>5, <1>6
       DEF AccountTypeInv, AccountTypeOK, AccountHeld, HoldingSteps, SessionSteps, NewSteps, KeepingSteps, EditSteps, WalletSteps
  <1>9. SessionInv
    BY <1>1, <1>6 DEF SessionInv, SessionSteps, OneSessionPerUser, SessionsOf
  <1>10. TruthInv
    <2>1. ~first.emailVerified /\ ~first.walletVerified
      BY <1>4 DEF NewAccount
    <2> QED
      BY <1>1, <1>6, <1>7, <2>1
         DEF TruthInv, Known, Proving, RowTrue, EmailTrue, WalletTrue, WalletIs, HeldTrue, HoldingSteps, NewSteps,
             EditSteps, WalletSteps
  <1>11. KeptInv
    BY <1>1, <1>6 DEF KeptInv, HoldingSteps, KeepingSteps, EditSteps, WalletSteps, Shows, ProvedIn
  <1> QED
    BY <1>8, <1>9, <1>10, <1>11 DEF AccountInv

------------------------------------------------------------------------------
\* The histories note what two requests hold.
AccountNotes ==
    /\ torn \subseteq torn' /\ crossed \subseteq crossed'
    /\ \A q, r \in Requests : q # r =>
          /\ pc'[q] \in HoldingSteps /\ pc'[r] \in HoldingSteps /\ mem'[q].user = mem'[r].user
                => mem'[q].user \in torn'
          /\ pc'[q] \in SessionSteps /\ pc'[r] \in SessionSteps /\ mem'[q].user = mem'[r].user
                => mem'[q].user \in crossed'

LEMMA HistoryNotesAccounts == AccountHistory => AccountNotes
  <1> SUFFICES ASSUME AccountHistory PROVE AccountNotes
    OBVIOUS
  <1>1. torn \subseteq torn' /\ crossed \subseteq crossed'
    BY DEF AccountHistory
  <1>2. ASSUME NEW q \in Requests, NEW r \in Requests, q # r, pc'[q] \in HoldingSteps, pc'[r] \in HoldingSteps,
               mem'[q].user = mem'[r].user
        PROVE  mem'[q].user \in torn'
    <2>1. mem'[q].user \in HoldingRow(q) /\ mem'[q].user \in HoldingRow(r)
      BY <1>2 DEF HoldingRow
    <2>2. mem'[q].user \in InBoth(HoldingRow)
      BY <1>2, <2>1 DEF InBoth
    <2> QED
      BY <2>2 DEF AccountHistory
  <1>3. ASSUME NEW q \in Requests, NEW r \in Requests, q # r, pc'[q] \in SessionSteps, pc'[r] \in SessionSteps,
               mem'[q].user = mem'[r].user
        PROVE  mem'[q].user \in crossed'
    <2>1. mem'[q].user \in LoggingIn(q) /\ mem'[q].user \in LoggingIn(r)
      BY <1>3 DEF LoggingIn
    <2>2. mem'[q].user \in InBoth(LoggingIn)
      BY <1>3, <2>1 DEF InBoth
    <2> QED
      BY <2>2 DEF AccountHistory
  <1> QED
    BY <1>1, <1>2, <1>3 DEF AccountNotes

------------------------------------------------------------------------------
\* Verifications are kept, with what they verify.
Grows(V, W) ==
    \A p \in ProofIds : V[p] # None =>
        /\ W[p] # None /\ W[p].user = V[p].user /\ W[p].wallet = V[p].wallet
        /\ V[p].status = "verified" => W[p].status = "verified"

LEMMA ProofsGrow ==
    ASSUME NEW V, NEW W, Grows(V, W), NEW u
    PROVE  ProvedIn(V, u) \subseteq ProvedIn(W, u) /\ WalletsIn(V, u) \subseteq WalletsIn(W, u)
  <1>1. ProvedIn(V, u) \subseteq ProvedIn(W, u)
    BY DEF Grows, ProvedIn
  <1>2. \A p \in ProvedIn(V, u) : V[p].wallet = W[p].wallet
    BY DEF Grows, ProvedIn
  <1> QED
    BY <1>1, <1>2 DEF WalletsIn

LEMMA RowGrows ==
    ASSUME NEW u, NEW row, NEW C, NEW D, C \subseteq D, NEW R, NEW S, R \subseteq S,
           NEW V, NEW W, Grows(V, W)
    PROVE  /\ EmailTrue(u, row, C, R) => EmailTrue(u, row, D, S)
           /\ WalletTrue(u, row, R, V) => WalletTrue(u, row, S, W)
           /\ WalletIs(u, row, R, V) => WalletIs(u, row, S, W)
  BY ProofsGrow DEF EmailTrue, WalletTrue, WalletIs

LEMMA HeldGrows ==
    ASSUME NEW step, NEW m, NEW A, NEW B, A \subseteq B, NEW C, NEW D, C \subseteq D,
           NEW R, NEW S, R \subseteq S, NEW V, NEW W, Grows(V, W),
           AccountHeld(step, m), HeldTrue(step, m, A, C, R, V)
    PROVE  HeldTrue(step, m, B, D, S, W)
  <1>1. \A row, u : /\ EmailTrue(u, row, C, R) => EmailTrue(u, row, D, S)
                    /\ WalletTrue(u, row, R, V) => WalletTrue(u, row, S, W)
                    /\ WalletIs(u, row, R, V) => WalletIs(u, row, S, W)
    BY RowGrows
  <1>2. step \in WalletSteps \cup {"findProof"} => m.proof \in ProofIds
    BY DEF AccountHeld
  <1>3. step \in WalletSteps \cup {"findProof"} =>
           /\ W[m.proof] # None /\ W[m.proof].user = V[m.proof].user
           /\ V[m.proof].status = "verified" => W[m.proof].status = "verified"
    BY <1>2 DEF Grows, HeldTrue
  <1>4. step = "saveOwner" => step \in WalletSteps
    BY DEF WalletSteps
  <1> QED
    BY <1>1, <1>3, <1>4 DEF HeldTrue, RowTrue

------------------------------------------------------------------------------
\* What a step has to show of the tables and of the request that moves.
LEMMA TruthChange ==
    ASSUME AccountInv, NEW q \in Requests, NEW step, NEW m, Put(q, step, m),
           born \subseteq born', confirmed \subseteq confirmed', stated \subseteq stated',
           Grows(proofs, proofs'),
           (\A u, v \in Known : accounts[u].email = accounts[v].email => u = v)',
           (Known \subseteq born /\ confirmed \subseteq born)',
           (\A p \in Proving : proofs[p].user \in Known)',
           (\A u \in People : /\ accounts[u] # None => RowTrue(u, accounts[u], confirmed, stated, proofs)
                              /\ profiles[u] # None => RowTrue(u, profiles[u], confirmed, stated, proofs))',
           HeldTrue(step, m, born', confirmed', stated', proofs')
    PROVE  TruthInv'
  <1>1. \A r \in Requests : HeldTrue(pc'[r], mem'[r], born', confirmed', stated', proofs')
    <2> SUFFICES ASSUME NEW r \in Requests, r # q
                 PROVE  HeldTrue(pc'[r], mem'[r], born', confirmed', stated', proofs')
      BY DEF Put
    <2>1. pc'[r] = pc[r] /\ mem'[r] = mem[r]
      BY DEF Put
    <2>2. HeldTrue(pc[r], mem[r], born, confirmed, stated, proofs) /\ AccountHeld(pc[r], mem[r])
      BY DEF AccountInv, TruthInv, AccountTypeInv
    <2>3. HeldTrue(pc[r], mem[r], born', confirmed', stated', proofs')
      BY <2>2, HeldGrows
    <2> QED
      BY <2>1, <2>3
  <1> QED
    BY <1>1 DEF TruthInv

LEMMA TruthQuiet ==
    ASSUME AccountInv, NEW q \in Requests, NEW step, NEW m, Put(q, step, m),
           UNCHANGED <<accounts, profiles, proofs, born, confirmed, stated>>,
           HeldTrue(step, m, born, confirmed, stated, proofs)
    PROVE  TruthInv'
  <1>1. TruthInv /\ Known' = Known /\ Proving' = Proving
    BY DEF AccountInv, Known, Proving
  <1>2. \A r \in Requests : HeldTrue(pc'[r], mem'[r], born', confirmed', stated', proofs')
    BY <1>1 DEF TruthInv, Put
  <1> QED
    BY <1>1, <1>2 DEF TruthInv

LEMMA SessionQuiet ==
    ASSUME AccountInv, AccountNotes, UNCHANGED newest,
           \A s \in SessionIds : sessions'[s] # None => sessions[s] # None /\ sessions'[s].user = sessions[s].user,
           NEW q \in Requests, NEW step, NEW m, Put(q, step, m), AccountHeld(step, m),
           step = "deleteSession" => m.user \in crossed' \/ SessionsOf(m.user) \subseteq {m.session},
           step = "saveSession" => \/ m.user \in crossed'
                                   \/ \A s \in SessionIds : sessions'[s] # None => sessions'[s].user # m.user
    PROVE  SessionInv'
  <1>1. pc'[q] = step /\ mem'[q] = m /\ \A r \in Requests \ {q} : pc'[r] = pc[r] /\ mem'[r] = mem[r]
    BY DEF Put
  <1>2. SessionInv /\ crossed \subseteq crossed'
    BY DEF AccountInv, AccountNotes
  <1>3. \A u : SessionsOf(u)' \subseteq SessionsOf(u)
    BY DEF SessionsOf
  <1>4. (\A r, s \in Requests :
            r # s /\ pc[r] \in SessionSteps /\ pc[s] \in SessionSteps /\ mem[r].user = mem[s].user
               => mem[r].user \in crossed)'
    BY DEF AccountNotes
  <1>5. ASSUME NEW r \in Requests, pc'[r] = "deleteSession", mem'[r].user \notin crossed'
        PROVE  \A s \in SessionIds : sessions'[s] # None /\ sessions'[s].user = mem'[r].user => s = mem'[r].session
    <2>1. CASE r = q
      BY <1>1, <1>5, <2>1 DEF SessionsOf
    <2>2. CASE r # q
      BY <1>1, <1>2, <1>5, <2>2 DEF SessionInv, SessionsOf
    <2> QED
      BY <2>1, <2>2
  <1>6. ASSUME NEW r \in Requests, pc'[r] = "saveSession", mem'[r].user \notin crossed'
        PROVE  \A s \in SessionIds : ~(sessions'[s] # None /\ sessions'[s].user = mem'[r].user)
    <2>1. CASE r = q
      BY <1>1, <1>6, <2>1
    <2>2. CASE r # q
      BY <1>1, <1>2, <1>6, <2>2 DEF SessionInv, SessionsOf
    <2> QED
      BY <2>1, <2>2
  <1>7. OneSessionPerUser'
    BY <1>2, <1>3 DEF SessionInv, OneSessionPerUser
  <1> QED
    BY <1>4, <1>5, <1>6, <1>7 DEF SessionInv, SessionsOf

LEMMA AccountTypeQuiet ==
    ASSUME AccountInv, NEW q \in Requests, NEW step, NEW m, Put(q, step, m), AccountHeld(step, m),
           AccountTypeOK', DOMAIN newest' = People
    PROVE  AccountTypeInv'
  <1>1. \A r \in Requests : AccountHeld(pc'[r], mem'[r])
    BY DEF Put, AccountInv, AccountTypeInv
  <1> QED
    BY <1>1 DEF Put, AccountTypeInv

------------------------------------------------------------------------------
\* A step that disturbs the row of user u only, or says of it what the property does.
LEMMA KeptChange ==
    ASSUME AccountInv, AccountNotes, NEW q \in Requests, NEW step, NEW m, Put(q, step, m), NEW u \in People, stated \subseteq stated',
           \A v \in People \ {u} : /\ accounts'[v] = accounts[v]
                                   /\ v \in confirmed' => v \in confirmed
                                   /\ ProvedIn(proofs', v) \subseteq ProvedIn(proofs, v),
           \A r \in Requests \ {q} : pc[r] \in KeepingSteps => mem[r].user # u \/ u \in torn',
           pc[q] = "saveOwner" => mem[q].user = u \/ mem[q].user \in torn',
           step \in KeepingSteps => \/ m.user \in torn'
                                    \/ m.user \in People /\ accounts'[m.user] # None /\ AsStored(step, m, accounts'[m.user]),
           u \in torn' \/ accounts'[u] = None
              \/ /\ u \in confirmed' => accounts'[u].emailVerified \/ <<u, "emailVerified">> \in stated'
                 /\ ProvedIn(proofs', u) # {} /\ (\A r \in Requests : ~(pc'[r] = "saveOwner" /\ mem'[r].user = u))
                       => accounts'[u].walletVerified \/ <<u, "walletVerified">> \in stated'
    PROVE  KeptInv'
  <1>1. pc'[q] = step /\ mem'[q] = m /\ \A r \in Requests \ {q} : pc'[r] = pc[r] /\ mem'[r] = mem[r]
    BY DEF Put
  <1>2. /\ KeptInv /\ torn \subseteq torn'
        /\ \A r \in Requests : pc[r] \in KeepingSteps => mem[r].user \in People
    BY DEF AccountInv, AccountNotes, AccountTypeInv, AccountHeld, KeepingSteps, EditSteps, WalletSteps, HoldingSteps
  <1>3. (\A r, s \in Requests :
            r # s /\ pc[r] \in HoldingSteps /\ pc[s] \in HoldingSteps /\ mem[r].user = mem[s].user
               => mem[r].user \in torn)'
    BY DEF AccountNotes
  <1>4. ASSUME NEW r \in Requests, pc'[r] \in KeepingSteps, mem'[r].user \notin torn'
        PROVE  /\ mem'[r].user \in People /\ accounts'[mem'[r].user] # None
               /\ AsStored(pc'[r], mem'[r], accounts'[mem'[r].user])
    <2>1. CASE r = q
      BY <1>1, <1>4, <2>1
    <2>2. CASE r # q
      <3>1. pc'[r] = pc[r] /\ mem'[r] = mem[r] /\ mem[r].user \in People \ {u} /\ mem[r].user \notin torn
        BY <1>1, <1>2, <1>4, <2>2
      <3>2. mem[r].user \in Known /\ AsStored(pc[r], mem[r], accounts[mem[r].user])
        BY <1>2, <1>4, <3>1 DEF KeptInv
      <3>3. accounts'[mem[r].user] = accounts[mem[r].user] /\ accounts[mem[r].user] # None
        BY <3>1, <3>2 DEF Known
      <3> QED
        BY <3>1, <3>2, <3>3
    <2> QED
      BY <2>1, <2>2
  <1>5. ASSUME NEW v \in People, v \notin torn', accounts'[v] # None
        PROVE  Shows(v, accounts'[v], confirmed', stated', proofs', \A r \in Requests : ~(pc'[r] = "saveOwner" /\ mem'[r].user = v))
    <2>1. CASE v = u
      BY <1>5, <2>1 DEF Shows
    <2>2. CASE v # u
      <3>1. accounts'[v] = accounts[v] /\ v \in Known \ torn
        BY <1>2, <1>5, <2>2 DEF Known
      <3>2. Shows(v, accounts[v], confirmed, stated, proofs, Settled(v))
        BY <1>2, <3>1 DEF KeptInv
      <3>3. (\A r \in Requests : ~(pc'[r] = "saveOwner" /\ mem'[r].user = v)) => Settled(v)
        BY <1>1, <1>5, <2>2 DEF Settled
      <3>4. (v \in confirmed' => v \in confirmed) /\ ProvedIn(proofs', v) \subseteq ProvedIn(proofs, v)
        BY <2>2
      <3> QED
        BY <3>1, <3>2, <3>3, <3>4 DEF Shows
    <2> QED
      BY <2>1, <2>2
  <1> QED
    BY <1>3, <1>4, <1>5 DEF KeptInv, Known, Settled

LEMMA KeptQuiet ==
    ASSUME AccountInv, AccountNotes, UNCHANGED <<accounts, confirmed, stated>>,
           \A v \in People : ProvedIn(proofs', v) \subseteq ProvedIn(proofs, v),
           NEW q \in Requests, NEW step, NEW m, Put(q, step, m), AccountHeld(step, m),
           pc[q] = "saveOwner" => \/ step = "saveOwner" /\ m = mem[q]
                                  \/ mem[q].user \in torn',
           step \in KeepingSteps => \/ m.user \in torn'
                                    \/ m.user \in Known /\ AsStored(step, m, accounts[m.user])
    PROVE  KeptInv'
  <1>1. pc'[q] = step /\ mem'[q] = m /\ \A r \in Requests \ {q} : pc'[r] = pc[r] /\ mem'[r] = mem[r]
    BY DEF Put
  <1>2. KeptInv /\ torn \subseteq torn' /\ Known' = Known
    BY DEF AccountInv, AccountNotes, Known
  <1>3. (\A r, s \in Requests :
            r # s /\ pc[r] \in HoldingSteps /\ pc[s] \in HoldingSteps /\ mem[r].user = mem[s].user
               => mem[r].user \in torn)'
    BY DEF AccountNotes
  <1>4. ASSUME NEW r \in Requests, pc'[r] \in KeepingSteps, mem'[r].user \notin torn'
        PROVE  mem'[r].user \in Known /\ AsStored(pc'[r], mem'[r], accounts[mem'[r].user])
    <2>1. CASE r = q
      BY <1>1, <1>4, <2>1
    <2>2. CASE r # q
      BY <1>1, <1>2, <1>4, <2>2 DEF KeptInv
    <2> QED
      BY <2>1, <2>2
  <1>5. ASSUME NEW v \in Known, v \notin torn'
        PROVE  Shows(v, accounts[v], confirmed, stated', proofs', \A r \in Requests : ~(pc'[r] = "saveOwner" /\ mem'[r].user = v))
    <2>1. Shows(v, accounts[v], confirmed, stated, proofs, Settled(v))
      BY <1>2, <1>5 DEF KeptInv
    <2>2. (\A r \in Requests : ~(pc'[r] = "saveOwner" /\ mem'[r].user = v)) => Settled(v)
      BY <1>1, <1>5 DEF Settled
    <2>3. ProvedIn(proofs', v) \subseteq ProvedIn(proofs, v)
      BY <1>5 DEF Known
    <2> QED
      BY <2>1, <2>2, <2>3 DEF Shows
  <1> QED
    BY <1>2, <1>3, <1>4, <1>5 DEF KeptInv, Settled

\* A step that leaves the tables but for the mails.
LEMMA QuietAccount ==
    ASSUME AccountInv, AccountNotes, UNCHANGED <<accounts, profiles, proofs, sessions, born, newest, confirmed, stated>>,
           (mails \in [MailIds -> [user: People, email: Addresses] \cup {None}])',
           NEW q \in Requests, NEW step, NEW m, Put(q, step, m), AccountHeld(step, m),
           HeldTrue(step, m, born, confirmed, stated, proofs),
           step = "deleteSession" => m.user \in crossed' \/ SessionsOf(m.user) \subseteq {m.session},
           step = "saveSession" => m.user \in crossed' \/ SessionsOf(m.user) = {},
           pc[q] # "saveOwner" \/ mem[q].user \in torn',
           step \in KeepingSteps => \/ m.user \in torn'
                                    \/ m.user \in Known /\ AsStored(step, m, accounts[m.user])
    PROVE  AccountInv'
  <1>1. TruthInv'
    BY TruthQuiet
  <1>2. step = "saveSession" => \/ m.user \in crossed'
                                \/ \A s \in SessionIds : sessions'[s] # None => sessions'[s].user # m.user
    BY DEF SessionsOf
  <1>3. SessionInv'
    BY <1>2, SessionQuiet
  <1>4. KeptInv'
    <2>1. \A v \in People : ProvedIn(proofs', v) \subseteq ProvedIn(proofs, v)
      BY DEF ProvedIn
    <2> QED
      BY <2>1, KeptQuiet
  <1>5. AccountTypeOK' /\ DOMAIN newest' = People
    BY DEF AccountInv, AccountTypeInv, AccountTypeOK
  <1>6. AccountTypeInv'
    BY <1>5, AccountTypeQuiet
  <1> QED
    BY <1>1, <1>3, <1>4, <1>6 DEF AccountInv

------------------------------------------------------------------------------
\* A request goes on to a step at which it holds no row and ends no session.
PlainSteps == {"idle", "findAccount", "queryProfile", "saveMail", "findByEmail",
               "findMail", "findMailUser", "removeMail", "saveProof", "findSession", "deleteExpired"}
LEMMA PlainAccount ==
    ASSUME AccountInv, AccountNotes, UNCHANGED <<accounts, profiles, proofs, sessions, born, newest, confirmed, stated>>,
           (mails \in [MailIds -> [user: People, email: Addresses] \cup {None}])',
           NEW q \in Requests, NEW step, NEW m, Put(q, step, m), AccountHeld(step, m),
           step \in PlainSteps, pc[q] # "saveOwner" \/ mem[q].user \in torn'
    PROVE  AccountInv'
  <1>1. /\ step \notin HoldingSteps \cup EditSteps \cup WalletSteps \cup KeepingSteps
        /\ step \notin NewSteps
        /\ step \notin {"saveConfirmed", "saveOwner", "cacheProfile", "findProof", "deleteSession", "saveSession"}
    BY DEF PlainSteps, NewSteps, HoldingSteps, KeepingSteps, EditSteps, WalletSteps
  <1>2. HeldTrue(step, m, born, confirmed, stated, proofs)
    BY <1>1 DEF HeldTrue
  <1> QED
    BY <1>1, <1>2, QuietAccount

LEMMA PlainHeld ==
    ASSUME NEW step, NEW m, step \in PlainSteps,
           step = "findByEmail" => m.email \in Addresses,
           step \in {"findAccount", "queryProfile", "findMailUser", "saveProof", "findSession"} => m.user \in People,
           step = "findAccount" => Asks(m),
           step = "saveMail" => m \in [user: People, email: Addresses],
           step \in {"findMail", "findMailUser", "removeMail"} => m.mail \in MailIds,
           step = "saveProof" => m.wallet \in Wallets,
           step = "deleteExpired" => m.session \in SessionIds
    PROVE  AccountHeld(step, m)
  BY DEF AccountHeld, PlainSteps, NewSteps, HoldingSteps, SessionSteps, KeepingSteps, EditSteps, WalletSteps

LEMMA TypedMails == AccountInv => mails \in [MailIds -> [user: People, email: Addresses] \cup {None}]
  BY DEF AccountInv, AccountTypeInv, AccountTypeOK

LEMMA AccountRequests ==
    ASSUME AccountInv, AccountNotes, UNCHANGED accountTables, NEW q \in Requests,
           \/ GetUser(q) \/ PutUser(q) \/ PostMail(q) \/ PostMailAgain(q) \/ GetVerifyEmail(q)
           \/ PostProof(q) \/ PostSession(q) \/ UseSession(q)
    PROVE  AccountInv'
  <1>1. PICK step, m : step \in PlainSteps /\ Receive(q, "accounts", step, m) /\ AccountHeld(step, m)
    <2>2. CASE GetUser(q)
      <3>1. PICK u \in People : Receive(q, "accounts", "queryProfile", [user |-> u])
        BY <2>2 DEF GetUser
      <3>2. AccountHeld("queryProfile", [user |-> u]) /\ "queryProfile" \in PlainSteps
        BY PlainHeld DEF PlainSteps
      <3> QED
        BY <3>1, <3>2
    <2>3. CASE PutUser(q)
      <3>0. "findAccount" \in PlainSteps
        BY DEF PlainSteps
      <3>1. PICK u \in People :
               \/ \E b \in UserBodies : Receive(q, "accounts", "findAccount", [user |-> u, removes |-> FALSE, body |-> b])
               \/ Receive(q, "accounts", "findAccount", [user |-> u, removes |-> TRUE])
        BY <2>3 DEF PutUser
      <3>2. CASE Receive(q, "accounts", "findAccount", [user |-> u, removes |-> TRUE])
        <4>1. Asks([user |-> u, removes |-> TRUE])
          BY DEF Asks
        <4>2. AccountHeld("findAccount", [user |-> u, removes |-> TRUE])
          BY <3>0, <4>1, PlainHeld
        <4> QED
          BY <3>0, <3>2, <4>2
      <3>3. ASSUME NEW b \in UserBodies, Receive(q, "accounts", "findAccount", [user |-> u, removes |-> FALSE, body |-> b])
            PROVE  \E step, m : step \in PlainSteps /\ Receive(q, "accounts", step, m) /\ AccountHeld(step, m)
        <4>1. Asks([user |-> u, removes |-> FALSE, body |-> b])
          BY DEF Asks
        <4>2. AccountHeld("findAccount", [user |-> u, removes |-> FALSE, body |-> b])
          BY <3>0, <4>1, PlainHeld
        <4> QED
          BY <3>0, <3>3, <4>2
      <3> QED
        BY <3>1, <3>2, <3>3
    <2>4. CASE PostMail(q)
      <3>1. PICK u \in People, e \in Addresses : Receive(q, "accounts", "saveMail", [user |-> u, email |-> e])
        BY <2>4 DEF PostMail
      <3>2. AccountHeld("saveMail", [user |-> u, email |-> e]) /\ "saveMail" \in PlainSteps
        BY PlainHeld DEF PlainSteps
      <3> QED
        BY <3>1, <3>2
    <2>5. CASE PostMailAgain(q)
      <3>1. PICK e \in Addresses : Receive(q, "accounts", "findByEmail", [email |-> e])
        BY <2>5 DEF PostMailAgain
      <3>2. AccountHeld("findByEmail", [email |-> e]) /\ "findByEmail" \in PlainSteps
        BY PlainHeld DEF PlainSteps
      <3> QED
        BY <3>1, <3>2
    <2>6. CASE GetVerifyEmail(q)
      <3>1. PICK n \in MailIds : Receive(q, "accounts", "findMail", [mail |-> n])
        BY <2>6 DEF GetVerifyEmail
      <3>2. AccountHeld("findMail", [mail |-> n]) /\ "findMail" \in PlainSteps
        BY PlainHeld DEF PlainSteps
      <3> QED
        BY <3>1, <3>2
    <2>7. CASE PostProof(q)
      <3>1. PICK u \in People, w \in Wallets : Receive(q, "accounts", "saveProof", [user |-> u, wallet |-> w])
        BY <2>7 DEF PostProof
      <3>2. AccountHeld("saveProof", [user |-> u, wallet |-> w]) /\ "saveProof" \in PlainSteps
        BY PlainHeld DEF PlainSteps
      <3> QED
        BY <3>1, <3>2
    <2>8. CASE PostSession(q)
      <3>1. PICK u \in People : Receive(q, "accounts", "findSession", [user |-> u])
        BY <2>8 DEF PostSession, Known
      <3>2. AccountHeld("findSession", [user |-> u]) /\ "findSession" \in PlainSteps
        BY PlainHeld DEF PlainSteps
      <3> QED
        BY <3>1, <3>2
    <2>9. CASE UseSession(q)
      <3>1. PICK s \in SessionIds : Receive(q, "accounts", "deleteExpired", [session |-> s])
        BY <2>9 DEF UseSession
      <3>2. AccountHeld("deleteExpired", [session |-> s]) /\ "deleteExpired" \in PlainSteps
        BY PlainHeld DEF PlainSteps
      <3> QED
        BY <3>1, <3>2
    <2> QED
      BY <2>2, <2>3, <2>4, <2>5, <2>6, <2>7, <2>8, <2>9
  <1>2. Put(q, step, m) /\ pc[q] = "idle"
    BY <1>1, ReceivePuts DEF AccountInv, AccountTypeInv
  <1> QED
    BY <1>1, <1>2, TypedMails, PlainAccount DEF accountTables

\* A reader answers, or goes on to a plain step.
LEMMA PlainRead ==
    ASSUME AccountInv, AccountNotes, UNCHANGED accountTables, NEW q \in Requests, NEW step \in PlainSteps, NEW m,
           Goto(q, step, m), AccountHeld(step, m), pc[q] # "saveOwner"
    PROVE  AccountInv'
  <1>1. Put(q, step, m)
    BY GotoPuts DEF AccountInv, AccountTypeInv
  <1> QED
    BY <1>1, TypedMails, PlainAccount DEF accountTables

LEMMA AnswerRead ==
    ASSUME AccountInv, AccountNotes, UNCHANGED accountTables, NEW q \in Requests, Answer(q), pc[q] # "saveOwner"
    PROVE  AccountInv'
  <1>1. "idle" \in PlainSteps /\ AccountHeld("idle", NoMemory)
    BY PlainHeld DEF PlainSteps
  <1> QED
    BY <1>1, PlainRead DEF Answer

LEMMA HeldAt ==
    ASSUME AccountInv, NEW q \in Requests
    PROVE  AccountHeld(pc[q], mem[q]) /\ HeldTrue(pc[q], mem[q], born, confirmed, stated, proofs)
  BY DEF AccountInv, AccountTypeInv, TruthInv

\* A request goes on with the row of a new user, whose flags are those its body said.
LEMMA NewUserRead ==
    ASSUME AccountInv, AccountNotes, UNCHANGED accountTables, NEW q \in Requests, NEW step \in NewSteps, NEW m,
           Put(q, step, m), pc[q] # "saveOwner", m.row \in Account,
           m.row.emailVerified => "emailVerified" \in m.said,
           m.row.walletVerified => "walletVerified" \in m.said
    PROVE  AccountInv'
  <1>1. /\ step \notin HoldingSteps \cup SessionSteps \cup EditSteps \cup WalletSteps \cup KeepingSteps
        /\ step \notin {"saveConfirmed", "saveOwner", "cacheProfile", "findProof", "deleteSession", "saveSession", "queryProfile",
                       "findAccount", "findMailUser", "saveProof", "findByEmail", "saveMail", "findMail", "removeMail", "deleteExpired"}
    BY DEF NewSteps, HoldingSteps, SessionSteps, KeepingSteps, EditSteps, WalletSteps
  <1>2. AccountHeld(step, m)
    BY <1>1 DEF AccountHeld
  <1>3. HeldTrue(step, m, born, confirmed, stated, proofs)
    BY <1>1 DEF HeldTrue
  <1> QED
    BY <1>1, <1>2, <1>3, TypedMails, QuietAccount DEF accountTables

LEMMA PostUserInv ==
    ASSUME AccountInv, AccountNotes, UNCHANGED accountTables, NEW q \in Requests, PostUser(q)
    PROVE  AccountInv'
  <1>1. PICK e \in Addresses, b \in UserBodies :
           Receive(q, "accounts", "findNewEmail", [row |-> Assigned(NewAccount(e), b), said |-> DOMAIN b])
    BY DEF PostUser
  <1> PICK row, m : row = Assigned(NewAccount(e), b) /\ m = [row |-> row, said |-> DOMAIN b]
    OBVIOUS
  <1>2. m.row = row /\ m.said = DOMAIN b
    OBVIOUS
  <1>3. NewAccount(e) \in Account
    BY AccountAssumption DEF NewAccount, Account
  <1>4. row \in Account
    BY <1>3, AccountAssumption
  <1>5. /\ row.emailVerified => "emailVerified" \in DOMAIN b
        /\ row.walletVerified => "walletVerified" \in DOMAIN b
    BY DEF Assigned, NewAccount
  <1>6. Put(q, "findNewEmail", m) /\ pc[q] = "idle" /\ "findNewEmail" \in NewSteps
    BY <1>1, ReceivePuts DEF AccountInv, AccountTypeInv, NewSteps
  <1> QED
    BY <1>2, <1>4, <1>5, <1>6, NewUserRead

LEMMA FindNewEmailInv ==
    ASSUME AccountInv, AccountNotes, UNCHANGED accountTables, NEW q \in Requests, FindNewEmail(q)
    PROVE  AccountInv'
  <1>1. pc[q] = "findNewEmail" /\ pc[q] \in NewSteps /\ "insertAccount" \in NewSteps
    BY DEF FindNewEmail, At, NewSteps
  <1>2. CASE Answer(q)
    BY <1>1, <1>2, AnswerRead
  <1>3. CASE ~Answer(q)
    <2>1. Put(q, "insertAccount", mem[q])
      BY <1>3, GotoPuts DEF FindNewEmail, AccountInv, AccountTypeInv
    <2>2. /\ mem[q].row \in Account
          /\ mem[q].row.emailVerified => "emailVerified" \in mem[q].said
          /\ mem[q].row.walletVerified => "walletVerified" \in mem[q].said
      BY <1>1, HeldAt DEF AccountHeld, HeldTrue
    <2> QED
      BY <1>1, <2>1, <2>2, NewUserRead
  <1> QED
    BY <1>2, <1>3

LEMMA PlainReads ==
    ASSUME AccountInv, AccountNotes, UNCHANGED accountTables, NEW q \in Requests,
           ResendVerificationEmail(q) \/ FindMail(q)
    PROVE  AccountInv'
  <1>1. AccountHeld(pc[q], mem[q])
    BY HeldAt
  <1>3. CASE ResendVerificationEmail(q)
    <2>1. CASE Answer(q)
      BY <1>3, <2>1, AnswerRead DEF ResendVerificationEmail, At
    <2>2. CASE ~Answer(q)
      <3>1. PICK u \in Known : Goto(q, "saveMail", [user |-> u, email |-> mem[q].email])
        BY <1>3, <2>2 DEF ResendVerificationEmail
      <3>2. mem[q].email \in Addresses /\ u \in People /\ pc[q] # "saveOwner"
        BY <1>1, <1>3 DEF ResendVerificationEmail, At, AccountHeld, Known
      <3>3. AccountHeld("saveMail", [user |-> u, email |-> mem[q].email]) /\ "saveMail" \in PlainSteps
        BY <3>2, PlainHeld DEF PlainSteps
      <3> QED
        BY <3>1, <3>2, <3>3, PlainRead
    <2> QED
      BY <2>1, <2>2
  <1>4. CASE FindMail(q)
    <2>1. CASE Answer(q)
      BY <1>4, <2>1, AnswerRead DEF FindMail, At
    <2>2. CASE ~Answer(q)
      <3> PICK n, u : n = mem[q].mail /\ u = mails[mem[q].mail].user
        OBVIOUS
      <3>1. Goto(q, "findMailUser", [mail |-> n, user |-> u]) /\ mails[n] # None /\ n \in MailIds /\ pc[q] # "saveOwner"
        BY <1>1, <1>4, <2>2 DEF FindMail, At, AccountHeld
      <3>2. u \in People
        BY <3>1, TypedMails
      <3>3. AccountHeld("findMailUser", [mail |-> n, user |-> u]) /\ "findMailUser" \in PlainSteps
        BY <3>1, <3>2, PlainHeld DEF PlainSteps
      <3> QED
        BY <3>1, <3>3, PlainRead
    <2> QED
      BY <2>1, <2>2
  <1> QED
    BY <1>3, <1>4

------------------------------------------------------------------------------
\* A reader goes on with a row it holds.
LEMMA RowRead ==
    ASSUME AccountInv, AccountNotes, UNCHANGED accountTables, NEW q \in Requests, NEW step, NEW m,
           Goto(q, step, m), AccountHeld(step, m), HeldTrue(step, m, born, confirmed, stated, proofs),
           step \notin {"deleteSession", "saveSession"}, pc[q] # "saveOwner",
           step \in KeepingSteps => \/ m.user \in torn'
                                    \/ m.user \in Known /\ AsStored(step, m, accounts[m.user])
    PROVE  AccountInv'
  <1>1. Put(q, step, m)
    BY GotoPuts DEF AccountInv, AccountTypeInv
  <1>2. (mails \in [MailIds -> [user: People, email: Addresses] \cup {None}])'
    BY TypedMails DEF accountTables
  <1> QED
    BY <1>1, <1>2, QuietAccount DEF accountTables

LEMMA KnownRow ==
    ASSUME AccountInv, NEW u \in Known
    PROVE  /\ u \in People /\ u \in born /\ accounts[u] \in Account
           /\ RowTrue(u, accounts[u], confirmed, stated, proofs)
  BY DEF AccountInv, AccountTypeInv, AccountTypeOK, TruthInv, Known

\* What a request holds stays in line with the row.
LEMMA StaysStored ==
    ASSUME AccountInv, AccountNotes, NEW q \in Requests, pc[q] \in KeepingSteps
    PROVE  mem[q].user \in torn' \/ (mem[q].user \in Known /\ AsStored(pc[q], mem[q], accounts[mem[q].user]))
  BY DEF AccountInv, KeptInv, AccountNotes

LEMMA QueryProfileInv ==
    ASSUME AccountInv, AccountNotes, UNCHANGED accountTables, NEW q \in Requests, QueryProfile(q)
    PROVE  AccountInv'
  <1>1. CASE Answer(q)
    BY <1>1, AnswerRead DEF QueryProfile, At
  <1>2. CASE ~Answer(q)
    <2> PICK u : u = mem[q].user
      OBVIOUS
    <2>1. u \in Known /\ Goto(q, "cacheProfile", [user |-> u, row |-> accounts[u]]) /\ pc[q] # "saveOwner"
      BY <1>2 DEF QueryProfile, At
    <2> PICK m : m = [user |-> u, row |-> accounts[u]]
      OBVIOUS
    <2>2. m.user = u /\ m.row = accounts[u]
      OBVIOUS
    <2>3. "cacheProfile" \notin NewSteps \cup KeepingSteps \cup HoldingSteps \cup EditSteps \cup WalletSteps
      BY DEF NewSteps, KeepingSteps, HoldingSteps, EditSteps, WalletSteps
    <2>4. AccountHeld("cacheProfile", m)
      BY <2>1, <2>2, <2>3, KnownRow DEF AccountHeld
    <2>5. HeldTrue("cacheProfile", m, born, confirmed, stated, proofs)
      BY <2>1, <2>2, <2>3, KnownRow DEF HeldTrue
    <2> QED
      BY <2>1, <2>3, <2>4, <2>5, RowRead
  <1> QED
    BY <1>1, <1>2

LEMMA RemovalRead ==
    ASSUME AccountInv, AccountNotes, UNCHANGED accountTables, NEW q \in Requests, NEW m, m.user \in Known,
           Goto(q, "removeAccount", m), pc[q] # "saveOwner"
    PROVE  AccountInv'
  <1>1. "removeAccount" \notin NewSteps \cup KeepingSteps \cup EditSteps \cup WalletSteps
    BY DEF NewSteps, KeepingSteps, EditSteps, WalletSteps
  <1>2. AccountHeld("removeAccount", m)
    BY <1>1, KnownRow DEF AccountHeld
  <1>3. HeldTrue("removeAccount", m, born, confirmed, stated, proofs)
    BY <1>1, KnownRow DEF HeldTrue
  <1> QED
    BY <1>1, <1>2, <1>3, RowRead

LEMMA EditRead ==
    ASSUME AccountInv, AccountNotes, UNCHANGED accountTables, NEW q \in Requests, NEW step \in EditSteps, NEW m,
           m.user \in Known, m.row \in Account,
           "emailVerified" \in m.said \/ m.row.emailVerified = accounts[m.user].emailVerified,
           "walletVerified" \in m.said \/ m.row.walletVerified = accounts[m.user].walletVerified,
           "wallet" \in m.said \/ m.row.wallet = accounts[m.user].wallet,
           Goto(q, step, m), pc[q] # "saveOwner"
    PROVE  AccountInv'
  <1>1. /\ step \in HoldingSteps /\ step \in KeepingSteps
        /\ step \notin WalletSteps /\ step \notin SessionSteps /\ step \notin NewSteps
        /\ step \in {"findEmail", "saveAccount"}
    BY DEF NewSteps, KeepingSteps, HoldingSteps, EditSteps, WalletSteps, SessionSteps
  <1>2. AccountHeld(step, m)
    BY <1>1, KnownRow DEF AccountHeld
  <1>3. HeldTrue(step, m, born, confirmed, stated, proofs)
    <2>1. RowTrue(m.user, accounts[m.user], confirmed, stated, proofs) /\ m.user \in born
      BY KnownRow
    <2>2. /\ "emailVerified" \in m.said \/ EmailTrue(m.user, m.row, confirmed, stated)
          /\ "walletVerified" \in m.said \/ WalletTrue(m.user, m.row, stated, proofs)
          /\ "wallet" \in m.said \/ "walletVerified" \in m.said \/ WalletIs(m.user, m.row, stated, proofs)
      BY <2>1 DEF RowTrue, EmailTrue, WalletTrue, WalletIs
    <2> QED
      BY <1>1, <2>1, <2>2 DEF HeldTrue
  <1>4. AsStored(step, m, accounts[m.user])
    BY <1>1 DEF AsStored
  <1> QED
    BY <1>1, <1>2, <1>3, <1>4, RowRead

LEMMA FindAccountInv ==
    ASSUME AccountInv, AccountNotes, UNCHANGED accountTables, NEW q \in Requests, FindAccount(q)
    PROVE  AccountInv'
  <1> PICK u, b : u = mem[q].user /\ b = mem[q].body
    OBVIOUS
  <1>1. pc[q] = "findAccount"
    BY DEF FindAccount, At
  <1>2. CASE u \notin Known
    BY <1>1, <1>2, AnswerRead DEF FindAccount
  <1>3. CASE u \in Known /\ mem[q].removes = TRUE
    <2>1. Goto(q, "removeAccount", [user |-> u])
      BY <1>3 DEF FindAccount
    <2> PICK m : m = [user |-> u]
      OBVIOUS
    <2>2. m.user = u
      OBVIOUS
    <2> QED
      BY <1>1, <1>3, <2>1, <2>2, RemovalRead
  <1>4. CASE u \in Known /\ mem[q].removes = FALSE /\ b \in UserBodies
    <2>1. accounts[u] \in Account
      BY <1>4, KnownRow
    <2>2. PICK row, m : row = Assigned(accounts[u], b) /\ m = [user |-> u, row |-> row, said |-> DOMAIN b]
      OBVIOUS
    <2>3. row \in Account
      BY <1>4, <2>1, <2>2, AccountAssumption
    <2>4. /\ "emailVerified" \in DOMAIN b \/ row.emailVerified = accounts[u].emailVerified
          /\ "walletVerified" \in DOMAIN b \/ row.walletVerified = accounts[u].walletVerified
          /\ "wallet" \in DOMAIN b \/ row.wallet = accounts[u].wallet
      BY <2>1, <2>2 DEF Assigned, Account
    <2>5. m.user = u /\ m.row = row /\ m.said = DOMAIN b
      BY <2>2
    <2>6. PICK step : step \in EditSteps /\ Goto(q, step, m)
      <3>1. Goto(q, IF row.email # accounts[u].email THEN "findEmail" ELSE "saveAccount", m)
        BY <1>4, <2>2 DEF FindAccount
      <3> QED
        BY <3>1 DEF EditSteps
    <2> QED
      BY <1>1, <1>4, <2>3, <2>4, <2>5, <2>6, EditRead
  <1> QED
    <2>1. AccountHeld("findAccount", mem[q])
      BY <1>1, HeldAt
    <2> QED
      BY <1>2, <1>3, <1>4, <2>1 DEF AccountHeld, Asks

LEMMA FindEmailInv ==
    ASSUME AccountInv, AccountNotes, UNCHANGED accountTables, NEW q \in Requests, FindEmail(q)
    PROVE  AccountInv'
  <1>1. pc[q] = "findEmail"
    BY DEF FindEmail, At
  <1>2. CASE Answer(q)
    BY <1>1, <1>2, AnswerRead
  <1>3. CASE ~Answer(q)
    <2> PICK m : m = mem[q]
      OBVIOUS
    <2>1. Goto(q, "saveAccount", m)
      BY <1>3 DEF FindEmail
    <2>2. AccountHeld("findEmail", m) /\ HeldTrue("findEmail", m, born, confirmed, stated, proofs)
      BY <1>1, HeldAt
    <2>3. m.user \in torn' \/ (m.user \in Known /\ AsStored("findEmail", m, accounts[m.user]))
      BY <1>1, StaysStored DEF KeepingSteps, EditSteps
    <2>4. AccountHeld("saveAccount", m)
      BY <2>2 DEF AccountHeld, NewSteps, HoldingSteps, SessionSteps, KeepingSteps, EditSteps, WalletSteps
    <2>5. HeldTrue("saveAccount", m, born, confirmed, stated, proofs)
      BY <2>2 DEF HeldTrue, NewSteps, HoldingSteps, EditSteps, WalletSteps
    <2>6. AsStored("findEmail", m, accounts[m.user]) => AsStored("saveAccount", m, accounts[m.user])
      BY DEF AsStored, EditSteps, WalletSteps
    <2> QED
      BY <1>1, <2>1, <2>3, <2>4, <2>5, <2>6, RowRead
  <1> QED
    BY <1>2, <1>3

------------------------------------------------------------------------------
LEMMA FindMailUserInv ==
    ASSUME AccountInv, AccountNotes, UNCHANGED accountTables, NEW q \in Requests, FindMailUser(q)
    PROVE  AccountInv'
  <1> PICK u, n : u = mem[q].user /\ n = mem[q].mail
    OBVIOUS
  <1>1. pc[q] = "findMailUser" /\ n \in MailIds
    <2>1. pc[q] = "findMailUser"
      BY DEF FindMailUser, At
    <2> QED
      BY <2>1, HeldAt DEF AccountHeld
  <1>2. CASE u \in Known
    <2>1. PICK row : row = [accounts[u] EXCEPT !.emailVerified = TRUE]
      OBVIOUS
    <2>2. PICK m : m = [mail |-> n, user |-> u, row |-> row]
      OBVIOUS
    <2>3. Goto(q, "saveConfirmed", m)
      BY <1>2, <2>1, <2>2 DEF FindMailUser
    <2>4. /\ accounts[u] \in Account /\ u \in People /\ u \in born
          /\ RowTrue(u, accounts[u], confirmed, stated, proofs)
      BY <1>2, KnownRow
    <2>5. row \in Account /\ row.emailVerified /\ row.walletVerified = accounts[u].walletVerified /\ row.wallet = accounts[u].wallet
      BY <2>1, <2>4 DEF Account
    <2>6. m.user = u /\ m.row = row /\ m.mail = n
      BY <2>2
    <2>7. "saveConfirmed" \in HoldingSteps /\ "saveConfirmed" \notin NewSteps \cup EditSteps \cup WalletSteps
      BY DEF NewSteps, HoldingSteps, EditSteps, WalletSteps
    <2>8. AccountHeld("saveConfirmed", m)
      BY <1>1, <2>4, <2>5, <2>6, <2>7 DEF AccountHeld
    <2>9. HeldTrue("saveConfirmed", m, born, confirmed, stated, proofs)
      <3>1. WalletTrue(u, row, stated, proofs) /\ WalletIs(u, row, stated, proofs)
        BY <2>4, <2>5 DEF RowTrue, WalletTrue, WalletIs
      <3> QED
        BY <2>4, <2>5, <2>6, <2>7, <3>1 DEF HeldTrue
    <2>10. AsStored("saveConfirmed", m, accounts[u])
      BY <2>5, <2>6, <2>7 DEF AsStored
    <2> QED
      BY <1>1, <1>2, <2>3, <2>6, <2>8, <2>9, <2>10, RowRead
  <1>3. CASE u \notin Known
    <2>1. AccountHeld("removeMail", mem[q]) /\ "removeMail" \in PlainSteps
      BY <1>1, PlainHeld DEF PlainSteps
    <2> QED
      BY <1>1, <1>3, <2>1, PlainRead DEF FindMailUser
  <1> QED
    BY <1>2, <1>3

LEMMA PostVerifyWalletInv ==
    ASSUME AccountInv, AccountNotes, UNCHANGED accountTables, NEW q \in Requests, PostVerifyWallet(q)
    PROVE  AccountInv'
  <1>1. PICK p \in Proving : Receive(q, "accounts", "findProof", [proof |-> p])
    BY DEF PostVerifyWallet
  <1>2. PICK m : m = [proof |-> p]
    OBVIOUS
  <1>3. m.proof = p /\ p \in ProofIds /\ proofs[p] # None
    BY <1>2 DEF Proving
  <1>4. Put(q, "findProof", m) /\ pc[q] = "idle"
    BY <1>1, <1>2, ReceivePuts DEF AccountInv, AccountTypeInv
  <1>5. "findProof" \notin NewSteps \cup HoldingSteps \cup SessionSteps \cup KeepingSteps \cup EditSteps \cup WalletSteps
    BY DEF NewSteps, HoldingSteps, SessionSteps, KeepingSteps, EditSteps, WalletSteps
  <1>6. AccountHeld("findProof", m)
    BY <1>3, <1>5 DEF AccountHeld
  <1>7. HeldTrue("findProof", m, born, confirmed, stated, proofs)
    BY <1>3, <1>5 DEF HeldTrue
  <1> QED
    BY <1>4, <1>5, <1>6, <1>7, TypedMails, QuietAccount DEF accountTables

LEMMA FindProofInv ==
    ASSUME AccountInv, AccountNotes, UNCHANGED accountTables, NEW q \in Requests, FindProof(q)
    PROVE  AccountInv'
  <1>1. pc[q] = "findProof"
    BY DEF FindProof, At
  <1>2. CASE Answer(q)
    BY <1>1, <1>2, AnswerRead
  <1>3. CASE ~Answer(q)
    <2> PICK p, u : p = mem[q].proof /\ u = proofs[mem[q].proof].user
      OBVIOUS
    <2>1. PICK m : m = [proof |-> p, user |-> u, row |-> accounts[u]]
      OBVIOUS
    <2>2. Goto(q, "checkWallet", m)
      BY <1>3, <2>1 DEF FindProof
    <2>3. m.proof = p /\ m.user = u /\ m.row = accounts[u]
      BY <2>1
    <2>4. p \in ProofIds /\ proofs[p] # None
      BY <1>1, HeldAt DEF AccountHeld, HeldTrue
    <2>5. u \in Known
      BY <2>4 DEF AccountInv, TruthInv, Proving
    <2>6. /\ accounts[u] \in Account /\ u \in People /\ u \in born
          /\ RowTrue(u, accounts[u], confirmed, stated, proofs)
      BY <2>5, KnownRow
    <2>7. /\ "checkWallet" \in HoldingSteps /\ "checkWallet" \in WalletSteps
          /\ "checkWallet" \notin NewSteps \cup EditSteps \cup {"saveConfirmed"}
      BY DEF NewSteps, HoldingSteps, EditSteps, WalletSteps
    <2>8. AccountHeld("checkWallet", m)
      BY <2>3, <2>4, <2>6, <2>7 DEF AccountHeld
    <2>9. HeldTrue("checkWallet", m, born, confirmed, stated, proofs)
      BY <2>3, <2>4, <2>6, <2>7 DEF HeldTrue, RowTrue
    <2>10. AsStored("checkWallet", m, accounts[u])
      BY <2>3, <2>7 DEF AsStored
    <2> QED
      BY <1>1, <2>2, <2>3, <2>5, <2>8, <2>9, <2>10, RowRead
  <1> QED
    BY <1>2, <1>3

LEMMA CheckWalletInv ==
    ASSUME AccountInv, AccountNotes, UNCHANGED accountTables, NEW q \in Requests, CheckWallet(q)
    PROVE  AccountInv'
  <1>1. pc[q] = "checkWallet"
    BY DEF CheckWallet, At
  <1>2. CASE Answer(q)
    BY <1>1, <1>2, AnswerRead
  <1>3. CASE ~Answer(q)
    <2> PICK m : m = mem[q]
      OBVIOUS
    <2>1. Goto(q, "saveVerified", m)
      BY <1>3 DEF CheckWallet
    <2>2. AccountHeld("checkWallet", m) /\ HeldTrue("checkWallet", m, born, confirmed, stated, proofs)
      BY <1>1, HeldAt
    <2>3. m.user \in torn' \/ (m.user \in Known /\ AsStored("checkWallet", m, accounts[m.user]))
      BY <1>1, StaysStored DEF KeepingSteps, WalletSteps
    <2>4. AccountHeld("saveVerified", m)
      BY <2>2 DEF AccountHeld, NewSteps, HoldingSteps, SessionSteps, KeepingSteps, EditSteps, WalletSteps
    <2>5. HeldTrue("saveVerified", m, born, confirmed, stated, proofs)
      BY <2>2 DEF HeldTrue, NewSteps, HoldingSteps, EditSteps, WalletSteps
    <2>6. AsStored("checkWallet", m, accounts[m.user]) => AsStored("saveVerified", m, accounts[m.user])
      BY DEF AsStored, EditSteps, WalletSteps
    <2> QED
      BY <1>1, <2>1, <2>3, <2>4, <2>5, <2>6, RowRead
  <1> QED
    BY <1>2, <1>3

LEMMA FindSessionInv ==
    ASSUME AccountInv, AccountNotes, UNCHANGED accountTables, NEW q \in Requests, FindSession(q)
    PROVE  AccountInv'
  <1> PICK u : u = mem[q].user
    OBVIOUS
  <1>1. pc[q] = "findSession"
    BY DEF FindSession, At
  <1>2. u \in People
    BY <1>1, HeldAt DEF AccountHeld, SessionSteps
  <1>3. PICK step, m : /\ Goto(q, step, m) /\ m.user = u
                       /\ \/ step = "deleteSession" /\ m.session \in SessionsOf(u)
                          \/ step = "saveSession" /\ SessionsOf(u) = {}
    <2>1. CASE SessionsOf(u) = {}
      BY <2>1 DEF FindSession
    <2>2. CASE SessionsOf(u) # {}
      <3>1. PICK s \in SessionsOf(u) : Goto(q, "deleteSession", [user |-> u, session |-> s])
        BY <2>2 DEF FindSession
      <3>2. [user |-> u, session |-> s].user = u /\ [user |-> u, session |-> s].session = s
        OBVIOUS
      <3> QED
        BY <3>1, <3>2
    <2> QED
      BY <2>1, <2>2
  <1>4. /\ step \notin NewSteps \cup HoldingSteps \cup KeepingSteps \cup EditSteps \cup WalletSteps
        /\ step \notin {"saveConfirmed", "saveOwner", "cacheProfile", "findProof"}
    BY <1>3 DEF NewSteps, HoldingSteps, KeepingSteps, EditSteps, WalletSteps
  <1>5. step = "deleteSession" => m.session \in SessionIds
    BY <1>3 DEF SessionsOf
  <1>6. AccountHeld(step, m)
    BY <1>2, <1>3, <1>4, <1>5 DEF AccountHeld
  <1>7. HeldTrue(step, m, born, confirmed, stated, proofs)
    BY <1>4 DEF HeldTrue
  <1>8. step = "deleteSession" => u \in crossed' \/ SessionsOf(u) \subseteq {m.session}
    <2>1. u \in crossed' \/ SessionsOf(u) \subseteq {newest[u]}
      BY <1>2 DEF AccountInv, SessionInv, OneSessionPerUser, AccountNotes
    <2> QED
      BY <1>3, <2>1
  <1>9. Put(q, step, m)
    BY <1>3, GotoPuts DEF AccountInv, AccountTypeInv
  <1> QED
    BY <1>1, <1>3, <1>4, <1>6, <1>7, <1>8, <1>9, TypedMails, QuietAccount DEF accountTables

LEMMA AccountReadsInv ==
    ASSUME AccountInv, AccountNotes, NEW q \in Requests, AccountReads(q)
    PROVE  AccountInv'
  BY AccountRequests, PostUserInv, FindNewEmailInv, PlainReads, QueryProfileInv, FindAccountInv, FindEmailInv, FindMailUserInv, PostVerifyWalletInv,
     FindProofInv, CheckWalletInv, FindSessionInv
     DEF AccountReads

------------------------------------------------------------------------------
\* Mails are stored and removed.
LEMMA MailWrites ==
    ASSUME AccountInv, AccountNotes, NEW q \in Requests, SendVerificationEmail(q) \/ VerifyEmail(q)
    PROVE  AccountInv'
  <1>1. pc[q] \in {"saveMail", "removeMail"} /\ Answer(q)
    BY DEF SendVerificationEmail, VerifyEmail, At
  <1>2. (mails \in [MailIds -> [user: People, email: Addresses] \cup {None}])'
    <2>1. pc[q] = "saveMail" => mem[q] \in [user: People, email: Addresses]
      BY HeldAt DEF AccountHeld
    <2> QED
      BY <2>1, TypedMails DEF SendVerificationEmail, VerifyEmail, At
  <1>3. Put(q, "idle", NoMemory)
    BY <1>1, AnswerPuts DEF AccountInv, AccountTypeInv
  <1>4. "idle" \in PlainSteps /\ AccountHeld("idle", NoMemory)
    BY PlainHeld DEF PlainSteps
  <1> QED
    BY <1>1, <1>2, <1>3, <1>4, PlainAccount DEF SendVerificationEmail, VerifyEmail

LEMMA CacheProfileInv ==
    ASSUME AccountInv, AccountNotes, NEW q \in Requests, CacheProfile(q)
    PROVE  AccountInv'
  <1> PICK u, row : u = mem[q].user /\ row = mem[q].row
    OBVIOUS
  <1>1. pc[q] = "cacheProfile" /\ Answer(q) /\ profiles' = [profiles EXCEPT ![u] = row]
        /\ UNCHANGED <<accounts, mails, proofs, sessions, born, newest, confirmed, stated>>
    BY DEF CacheProfile, At
  <1>2. u \in People /\ row \in Account /\ RowTrue(u, row, confirmed, stated, proofs)
    BY <1>1, HeldAt DEF AccountHeld, HeldTrue
  <1>3. Put(q, "idle", NoMemory)
    BY <1>1, AnswerPuts DEF AccountInv, AccountTypeInv
  <1>4. AccountHeld("idle", NoMemory)
    BY PlainHeld DEF PlainSteps
  <1>5. "idle" \notin NewSteps \cup HoldingSteps \cup EditSteps \cup WalletSteps \cup KeepingSteps
    BY DEF NewSteps, HoldingSteps, EditSteps, WalletSteps, KeepingSteps
  <1>6. HeldTrue("idle", NoMemory, born', confirmed', stated', proofs')
    BY <1>5 DEF HeldTrue
  <1>7. TruthInv'
    <2>1. TruthInv /\ Known' = Known /\ Proving' = Proving
      BY <1>1 DEF AccountInv, Known, Proving
    <2>2. Grows(proofs, proofs')
      BY <1>1 DEF Grows
    <2>3. \A v \in People : profiles'[v] # None => RowTrue(v, profiles'[v], confirmed, stated, proofs)
      <3>1. profiles \in [People -> Account \cup {None}]
        BY DEF AccountInv, AccountTypeInv, AccountTypeOK
      <3>2. \A v \in People : profiles'[v] = IF v = u THEN row ELSE profiles[v]
        BY <1>1, <3>1
      <3> QED
        BY <1>2, <2>1, <3>2 DEF TruthInv
    <2>4. (\A v \in People : /\ accounts[v] # None => RowTrue(v, accounts[v], confirmed, stated, proofs)
                             /\ profiles[v] # None => RowTrue(v, profiles[v], confirmed, stated, proofs))'
      BY <1>1, <2>1, <2>3 DEF TruthInv
    <2>5. /\ (\A v, w \in Known : accounts[v].email = accounts[w].email => v = w)'
          /\ (Known \subseteq born /\ confirmed \subseteq born)'
          /\ (\A p \in Proving : proofs[p].user \in Known)'
      BY <1>1, <2>1 DEF TruthInv
    <2> QED
      BY <1>1, <1>3, <1>6, <2>2, <2>4, <2>5, TruthChange
  <1>8. SessionInv'
    BY <1>1, <1>3, <1>4, SessionQuiet
  <1>9. KeptInv'
    <2>1. \A v \in People : ProvedIn(proofs', v) \subseteq ProvedIn(proofs, v)
      BY <1>1 DEF ProvedIn
    <2> QED
      BY <1>1, <1>3, <1>4, <1>5, <2>1, KeptQuiet
  <1>10. AccountTypeInv'
    <2>1. AccountTypeOK' /\ DOMAIN newest' = People
      BY <1>1, <1>2 DEF AccountInv, AccountTypeInv, AccountTypeOK
    <2> QED
      BY <1>3, <1>4, <2>1, AccountTypeQuiet
  <1> QED
    BY <1>7, <1>8, <1>9, <1>10 DEF AccountInv

\* Sessions end and cached profiles expire by themselves or in a handler of one step.
LEMMA StillAccount ==
    ASSUME AccountInv, AccountNotes,
           UNCHANGED <<pc, mem, accounts, mails, proofs, born, newest, confirmed, stated>>,
           \A u \in People : profiles'[u] = profiles[u] \/ profiles'[u] = None,
           \A s \in SessionIds : sessions'[s] # None => sessions[s] # None /\ sessions'[s].user = sessions[s].user,
           (/\ profiles \in [People -> Account \cup {None}]
            /\ sessions \in [SessionIds -> [user: People, live: BOOLEAN] \cup {None}])'
    PROVE  AccountInv'
  <1>1. /\ AccountTypeInv /\ SessionInv /\ TruthInv /\ KeptInv /\ Known' = Known /\ Proving' = Proving
        /\ torn \subseteq torn' /\ crossed \subseteq crossed'
    BY DEF AccountInv, AccountNotes, Known, Proving
  <1>2. AccountTypeInv'
    BY <1>1 DEF AccountTypeInv, AccountTypeOK, PerRequest
  <1>3. SessionInv'
    <2>1. \A u : SessionsOf(u)' \subseteq SessionsOf(u)
      BY DEF SessionsOf
    <2>2. OneSessionPerUser'
      BY <1>1, <2>1 DEF SessionInv, OneSessionPerUser
    <2>3. (\A q, r \in Requests :
              q # r /\ pc[q] \in SessionSteps /\ pc[r] \in SessionSteps /\ mem[q].user = mem[r].user
                 => mem[q].user \in crossed)'
      BY DEF AccountNotes
    <2>4. ASSUME NEW q \in Requests, pc[q] = "deleteSession", mem[q].user \notin crossed'
          PROVE  \A s \in SessionIds : sessions'[s] # None /\ sessions'[s].user = mem[q].user => s = mem[q].session
      BY <1>1, <2>4 DEF SessionInv, SessionsOf
    <2>5. ASSUME NEW q \in Requests, pc[q] = "saveSession", mem[q].user \notin crossed'
          PROVE  \A s \in SessionIds : ~(sessions'[s] # None /\ sessions'[s].user = mem[q].user)
      BY <1>1, <2>5 DEF SessionInv, SessionsOf
    <2> QED
      BY <2>2, <2>3, <2>4, <2>5 DEF SessionInv, SessionsOf
  <1>4. TruthInv'
    BY <1>1 DEF TruthInv
  <1>5. KeptInv'
    BY <1>1 DEF KeptInv, AccountNotes, Settled
  <1> QED
    BY <1>2, <1>3, <1>4, <1>5 DEF AccountInv

LEMMA AccountExpires ==
    ASSUME AccountInv, AccountNotes, ProfileExpires \/ SessionExpires
    PROVE  AccountInv'
  <1>1. AccountTypeOK
    BY DEF AccountInv, AccountTypeInv
  <1>2. CASE ProfileExpires
    BY <1>1, <1>2, StillAccount DEF ProfileExpires, handlerVars, AccountTypeOK
  <1>3. CASE SessionExpires
    <2>1. PICK t \in SessionIds : sessions[t] # None /\ sessions' = [sessions EXCEPT ![t].live = FALSE]
      BY <1>3 DEF SessionExpires
    <2>2. sessions[t] \in [user: People, live: BOOLEAN]
      BY <1>1, <2>1 DEF AccountTypeOK
    <2>3. PICK k : k = [sessions[t] EXCEPT !.live = FALSE]
      OBVIOUS
    <2>4. k \in [user: People, live: BOOLEAN] /\ k.user = sessions[t].user /\ sessions' = [sessions EXCEPT ![t] = k]
      BY <2>1, <2>2, <2>3
    <2> QED
      BY <1>1, <1>3, <2>1, <2>4, StillAccount DEF SessionExpires, handlerVars, AccountTypeOK
  <1> QED
    BY <1>2, <1>3

------------------------------------------------------------------------------
\* A request that changes sessions goes on to save one, or answers.
LEMMA SessionWrite ==
    ASSUME AccountInv, AccountNotes,
           UNCHANGED <<accounts, profiles, mails, proofs, confirmed, stated>>, born \subseteq born',
           DOMAIN newest' = People, (sessions \in [SessionIds -> [user: People, live: BOOLEAN] \cup {None}])',
           NEW q \in Requests, NEW step, NEW m, Put(q, step, m), AccountHeld(step, m),
           step \in {"idle", "saveSession"}, pc[q] # "saveOwner", SessionInv'
    PROVE  AccountInv'
  <1>1. /\ step \notin NewSteps \cup HoldingSteps \cup EditSteps \cup WalletSteps \cup KeepingSteps
        /\ step \notin {"saveConfirmed", "saveOwner", "cacheProfile", "findProof"}
    BY DEF NewSteps, HoldingSteps, EditSteps, WalletSteps, KeepingSteps
  <1>2. HeldTrue(step, m, born', confirmed', stated', proofs')
    BY <1>1 DEF HeldTrue
  <1>3. TruthInv'
    <2>1. TruthInv /\ Known' = Known /\ Proving' = Proving
      BY DEF AccountInv, Known, Proving
    <2>2. Grows(proofs, proofs')
      BY DEF Grows
    <2>3. (\A v \in People : /\ accounts[v] # None => RowTrue(v, accounts[v], confirmed, stated, proofs)
                             /\ profiles[v] # None => RowTrue(v, profiles[v], confirmed, stated, proofs))'
      BY <2>1 DEF TruthInv
    <2>4. /\ (\A v, w \in Known : accounts[v].email = accounts[w].email => v = w)'
          /\ (Known \subseteq born /\ confirmed \subseteq born)'
          /\ (\A p \in Proving : proofs[p].user \in Known)'
      BY <2>1 DEF TruthInv
    <2> QED
      BY <1>2, <2>2, <2>3, <2>4, TruthChange
  <1>4. KeptInv'
    <2>1. \A v \in People : ProvedIn(proofs', v) \subseteq ProvedIn(proofs, v)
      BY DEF ProvedIn
    <2> QED
      BY <1>1, <2>1, KeptQuiet
  <1>5. AccountTypeInv'
    <2>1. AccountTypeOK'
      BY DEF AccountInv, AccountTypeInv, AccountTypeOK
    <2> QED
      BY <2>1, AccountTypeQuiet
  <1> QED
    BY <1>3, <1>4, <1>5 DEF AccountInv

LEMMA TypedSessions ==
    AccountInv => sessions \in [SessionIds -> [user: People, live: BOOLEAN] \cup {None}] /\ DOMAIN newest = People
  BY DEF AccountInv, AccountTypeInv, AccountTypeOK

LEMMA DeleteExpiredInv ==
    ASSUME AccountInv, AccountNotes, NEW q \in Requests, DeleteExpired(q)
    PROVE  AccountInv'
  <1>1. /\ pc[q] = "deleteExpired" /\ Answer(q) /\ sessions' = [sessions EXCEPT ![mem[q].session] = None]
        /\ UNCHANGED <<accounts, profiles, mails, proofs, born, newest, confirmed, stated>>
    BY DEF DeleteExpired, At
  <1>2. Put(q, "idle", NoMemory)
    BY <1>1, AnswerPuts DEF AccountInv, AccountTypeInv
  <1>3. AccountHeld("idle", NoMemory)
    BY PlainHeld DEF PlainSteps
  <1>4. \A s \in SessionIds : sessions'[s] # None => sessions[s] # None /\ sessions'[s].user = sessions[s].user
    BY <1>1, TypedSessions
  <1>5. SessionInv'
    BY <1>1, <1>2, <1>3, <1>4, SessionQuiet
  <1> QED
    BY <1>1, <1>2, <1>3, <1>5, TypedSessions, SessionWrite

LEMMA DeleteExistingInv ==
    ASSUME AccountInv, AccountNotes, NEW q \in Requests, DeleteExisting(q)
    PROVE  AccountInv'
  <1> PICK u, t : u = mem[q].user /\ t = mem[q].session
    OBVIOUS
  <1>1. PICK m : m = [user |-> u]
    OBVIOUS
  <1>2. /\ pc[q] = "deleteSession" /\ Goto(q, "saveSession", m) /\ sessions' = [sessions EXCEPT ![t] = None]
        /\ UNCHANGED <<accounts, profiles, mails, proofs, born, newest, confirmed, stated>>
    BY <1>1 DEF DeleteExisting, At
  <1>3. m.user = u /\ u \in People
    BY <1>1, <1>2, HeldAt DEF AccountHeld, SessionSteps
  <1>4. Put(q, "saveSession", m)
    BY <1>2, GotoPuts DEF AccountInv, AccountTypeInv
  <1>5. AccountHeld("saveSession", m)
    BY <1>3 DEF AccountHeld, NewSteps, HoldingSteps, SessionSteps, KeepingSteps, EditSteps, WalletSteps
  <1>6. \A s \in SessionIds : sessions'[s] = IF s = t THEN None ELSE sessions[s]
    BY <1>2, TypedSessions
  <1>7. u \in crossed' \/ \A s \in SessionIds : sessions'[s] # None => sessions'[s].user # u
    <2>1. u \in crossed' \/ SessionsOf(u) \subseteq {t}
      BY <1>2 DEF AccountInv, SessionInv, AccountNotes
    <2> QED
      BY <1>6, <2>1 DEF SessionsOf
  <1>8. SessionInv'
    BY <1>2, <1>3, <1>4, <1>5, <1>6, <1>7, SessionQuiet
  <1> QED
    BY <1>2, <1>4, <1>5, <1>8, TypedSessions, SessionWrite

LEMMA CreateSessionInv ==
    ASSUME AccountInv, AccountNotes, NEW q \in Requests, CreateSession(q)
    PROVE  AccountInv'
  <1> PICK u : u = mem[q].user
    OBVIOUS
  <1>1. /\ pc[q] = "saveSession" /\ Answer(q)
        /\ UNCHANGED <<accounts, profiles, mails, proofs, confirmed, stated>>
    BY DEF CreateSession, At
  <1>2. Put(q, "idle", NoMemory)
    BY <1>1, AnswerPuts DEF AccountInv, AccountTypeInv
  <1>3. AccountHeld("idle", NoMemory)
    BY PlainHeld DEF PlainSteps
  <1>4. u \in People
    BY <1>1, HeldAt DEF AccountHeld, SessionSteps
  <1>5. CASE UNCHANGED <<sessions, newest, born>>
    <2>1. SessionInv'
      BY <1>1, <1>2, <1>3, <1>5, SessionQuiet
    <2> QED
      BY <1>1, <1>2, <1>3, <1>5, <2>1, TypedSessions, SessionWrite
  <1>6. ASSUME NEW t \in SessionIds, sessions' = [sessions EXCEPT ![t] = [user |-> u, live |-> TRUE]],
               newest' = [newest EXCEPT ![u] = t], born' = born \cup {t}
        PROVE  AccountInv'
    <2>1. \A s \in SessionIds : sessions'[s] = IF s = t THEN [user |-> u, live |-> TRUE] ELSE sessions[s]
      BY <1>6, TypedSessions
    <2>2. \A v \in People : newest'[v] = IF v = u THEN t ELSE newest[v]
      BY <1>4, <1>6, TypedSessions
    <2>3. \A v \in People \ {u}, s \in SessionIds : sessions'[s] # None /\ sessions'[s].user = v =>
              sessions[s] # None /\ sessions[s].user = v
      BY <2>1
    <2>4. /\ SessionInv /\ crossed \subseteq crossed'
          /\ \A r \in Requests : pc[r] \in {"deleteSession", "saveSession"} => mem[r].user \in People
      BY DEF AccountInv, AccountNotes, AccountTypeInv, AccountHeld, SessionSteps
    <2>5. \A r \in Requests : pc'[r] \in SessionSteps =>
              r # q /\ pc'[r] = pc[r] /\ mem'[r] = mem[r] /\ (mem[r].user = u => u \in crossed')
      BY <1>1, <1>2, <2>4 DEF Put, SessionInv, SessionSteps
    <2>6. ASSUME NEW r \in Requests, pc'[r] = "deleteSession", mem'[r].user \notin crossed'
          PROVE  \A s \in SessionIds : sessions'[s] # None /\ sessions'[s].user = mem'[r].user => s = mem'[r].session
      <3>1. pc[r] = "deleteSession" /\ mem'[r] = mem[r] /\ mem[r].user \in People \ {u} /\ mem[r].user \notin crossed
        BY <2>4, <2>5, <2>6 DEF SessionSteps
      <3>2. SessionsOf(mem[r].user) \subseteq {mem[r].session}
        BY <2>4, <3>1 DEF SessionInv
      <3> QED
        BY <2>3, <3>1, <3>2 DEF SessionsOf
    <2>7. ASSUME NEW r \in Requests, pc'[r] = "saveSession", mem'[r].user \notin crossed'
          PROVE  \A s \in SessionIds : ~(sessions'[s] # None /\ sessions'[s].user = mem'[r].user)
      <3>1. pc[r] = "saveSession" /\ mem'[r] = mem[r] /\ mem[r].user \in People \ {u} /\ mem[r].user \notin crossed
        BY <2>4, <2>5, <2>7 DEF SessionSteps
      <3>2. SessionsOf(mem[r].user) = {}
        BY <2>4, <3>1 DEF SessionInv
      <3> QED
        BY <2>3, <3>1, <3>2 DEF SessionsOf
    <2>8. ASSUME NEW v \in People, v \notin crossed', NEW s \in SessionIds, sessions'[s] # None, sessions'[s].user = v
          PROVE  s = newest'[v]
      <3>1. CASE v = u
        <4>1. SessionsOf(u) = {}
          BY <1>1, <2>4, <2>8, <3>1 DEF SessionInv
        <4> QED
          BY <2>1, <2>2, <2>8, <3>1, <4>1 DEF SessionsOf
      <3>2. CASE v # u
        BY <2>2, <2>3, <2>4, <2>8, <3>2 DEF SessionInv, OneSessionPerUser, SessionsOf
      <3> QED
        BY <3>1, <3>2
    <2>9. (\A r, s \in Requests :
              r # s /\ pc[r] \in SessionSteps /\ pc[s] \in SessionSteps /\ mem[r].user = mem[s].user
                 => mem[r].user \in crossed)'
      BY DEF AccountNotes
    <2>10. SessionInv'
      BY <2>6, <2>7, <2>8, <2>9 DEF SessionInv, OneSessionPerUser, SessionsOf
    <2>11. (sessions \in [SessionIds -> [user: People, live: BOOLEAN] \cup {None}])' /\ DOMAIN newest' = People
      BY <1>4, <1>6, TypedSessions
    <2>12. born \subseteq born'
      BY <1>6
    <2> QED
      BY <1>1, <1>2, <1>3, <2>10, <2>11, <2>12, SessionWrite
  <1> QED
    BY <1>5, <1>6 DEF CreateSession

\* deleteSession and cleanupExpiredSessions.
LEMMA SessionServes ==
    ASSUME AccountInv, AccountNotes, NEW q \in Requests, DeleteSession(q) \/ CleanupExpiredSessions(q)
    PROVE  AccountInv'
  <1>1. UNCHANGED <<pc, mem, accounts, profiles, mails, proofs, born, newest, confirmed, stated>>
    BY ServePuts DEF DeleteSession, CleanupExpiredSessions, AccountInv, AccountTypeInv
  <1>2. /\ \A s \in SessionIds : sessions'[s] # None => sessions[s] # None /\ sessions'[s].user = sessions[s].user
        /\ (sessions \in [SessionIds -> [user: People, live: BOOLEAN] \cup {None}])'
    BY TypedSessions DEF DeleteSession, CleanupExpiredSessions
  <1>3. profiles \in [People -> Account \cup {None}]
    BY DEF AccountInv, AccountTypeInv, AccountTypeOK
  <1> QED
    BY <1>1, <1>2, <1>3, StillAccount

------------------------------------------------------------------------------
\* A step that leaves the sessions and the mails.
LEMMA RowWrite ==
    ASSUME AccountInv, AccountNotes, UNCHANGED <<sessions, newest>>,
           (mails \in [MailIds -> [user: People, email: Addresses] \cup {None}])',
           (/\ accounts \in [People -> Account \cup {None}]
            /\ profiles \in [People -> Account \cup {None}]
            /\ proofs \in [ProofIds -> Proof \cup {None}])',
           NEW q \in Requests, NEW step, NEW m, Put(q, step, m), AccountHeld(step, m),
           step \notin {"deleteSession", "saveSession"}, TruthInv', KeptInv'
    PROVE  AccountInv'
  <1>1. SessionInv'
    BY SessionQuiet
  <1>2. AccountTypeOK' /\ DOMAIN newest' = People
    BY DEF AccountInv, AccountTypeInv, AccountTypeOK
  <1>3. AccountTypeInv'
    BY <1>2, AccountTypeQuiet
  <1> QED
    BY <1>1, <1>3 DEF AccountInv

LEMMA IdleHeld ==
    /\ AccountHeld("idle", NoMemory) /\ "idle" \in PlainSteps
    /\ "idle" \notin HoldingSteps \cup EditSteps \cup WalletSteps \cup KeepingSteps
    /\ \A A, C, R, V : HeldTrue("idle", NoMemory, A, C, R, V)
  BY PlainHeld DEF PlainSteps, NewSteps, HoldingSteps, EditSteps, WalletSteps, KeepingSteps, HeldTrue

LEMMA TypedAccounts ==
    AccountInv => /\ accounts \in [People -> Account \cup {None}]
                  /\ profiles \in [People -> Account \cup {None}]
                  /\ proofs \in [ProofIds -> Proof \cup {None}]
  BY DEF AccountInv, AccountTypeInv, AccountTypeOK

LEMMA CreateUserInv ==
    ASSUME AccountInv, AccountNotes, NEW q \in Requests, CreateUser(q)
    PROVE  AccountInv'
  <1> PICK first, said : first = mem[q].row /\ said = mem[q].said
    OBVIOUS
  <1>1. /\ pc[q] = "insertAccount" /\ Answer(q)
        /\ UNCHANGED <<profiles, mails, proofs, sessions, newest, confirmed>>
    BY DEF CreateUser, At
  <1>2. Put(q, "idle", NoMemory)
    BY <1>1, AnswerPuts DEF AccountInv, AccountTypeInv
  <1>3. /\ first \in Account
        /\ first.emailVerified => "emailVerified" \in said
        /\ first.walletVerified => "walletVerified" \in said
    BY <1>1, HeldAt DEF AccountHeld, HeldTrue, NewSteps
  <1>4. CASE UNCHANGED <<accounts, born, stated>>
    BY <1>1, <1>2, <1>4, IdleHeld, TypedMails, PlainAccount
  <1>5. ASSUME NEW u \in People \ born, ~Taken(first.email, None), born' = born \cup {u},
               stated' = stated \cup ({u} \X (said \cap Flags)), accounts' = [accounts EXCEPT ![u] = first]
        PROVE  AccountInv'
    <2>1. /\ stated \subseteq stated'
          /\ first.emailVerified => <<u, "emailVerified">> \in stated'
          /\ first.walletVerified => <<u, "walletVerified">> \in stated'
      BY <1>3, <1>5 DEF Flags
    <2>2. \A v \in People : accounts'[v] = IF v = u THEN first ELSE accounts[v]
      BY <1>5, TypedAccounts
    <2>3. TruthInv /\ first # None /\ \A v \in Known : accounts[v].email # first.email
      BY <1>3, <1>5, AccountAssumption DEF AccountInv, Taken, Known
    <2>4. Known' = Known \cup {u}
      BY <2>2, <2>3 DEF Known
    <2>5. u \notin confirmed /\ \A p \in Proving : proofs[p].user # u
      BY <2>3 DEF TruthInv
    <2>6. TruthInv'
      <3>1. (\A v, w \in Known : accounts[v].email = accounts[w].email => v = w)'
        BY <2>2, <2>3, <2>4 DEF TruthInv, Known
      <3>2. (Known \subseteq born /\ confirmed \subseteq born)'
        BY <1>1, <1>5, <2>3, <2>4 DEF TruthInv
      <3>3. (\A p \in Proving : proofs[p].user \in Known)'
        BY <1>1, <2>3, <2>4 DEF TruthInv, Proving
      <3>4. RowTrue(u, first, confirmed, stated', proofs)
        BY <2>1 DEF RowTrue, EmailTrue, WalletTrue, WalletIs
      <3>8. \A v, row : RowTrue(v, row, confirmed, stated, proofs) => RowTrue(v, row, confirmed, stated', proofs)
        BY <2>1, RowGrows DEF RowTrue, Grows
      <3>5. \A v \in People : /\ accounts'[v] # None => RowTrue(v, accounts'[v], confirmed, stated', proofs)
                              /\ profiles[v] # None => RowTrue(v, profiles[v], confirmed, stated', proofs)
        BY <2>2, <2>3, <3>4, <3>8 DEF TruthInv
      <3>6. (\A v \in People : /\ accounts[v] # None => RowTrue(v, accounts[v], confirmed, stated, proofs)
                               /\ profiles[v] # None => RowTrue(v, profiles[v], confirmed, stated, proofs))'
        BY <1>1, <3>5
      <3>7. Grows(proofs, proofs')
        BY <1>1 DEF Grows
      <3> QED
        BY <1>1, <1>2, <1>5, <2>1, <3>1, <3>2, <3>3, <3>6, <3>7, IdleHeld, TruthChange
    <2>7. KeptInv'
      <3>1. \A r \in Requests : pc[r] \in KeepingSteps => mem[r].user # u
        BY <1>5, HeldAt DEF HeldTrue, KeepingSteps, EditSteps, WalletSteps, HoldingSteps
      <3>2. ProvedIn(proofs, u) = {}
        BY <2>5 DEF ProvedIn, Proving
      <3>4. \A v \in People \ {u} : /\ accounts'[v] = accounts[v]
                                    /\ v \in confirmed' => v \in confirmed
                                    /\ ProvedIn(proofs', v) \subseteq ProvedIn(proofs, v)
        BY <1>1, <2>2 DEF ProvedIn
      <3>5. u \notin confirmed' /\ ProvedIn(proofs', u) = {}
        BY <1>1, <2>5, <3>2
      <3> QED
        BY <1>1, <1>2, <2>1, <3>1, <3>4, <3>5, IdleHeld, KeptChange
    <2>8. accounts' \in [People -> Account \cup {None}]
      BY <1>3, <1>5, TypedAccounts
    <2> QED
      BY <1>1, <1>2, <2>6, <2>7, <2>8, IdleHeld, TypedAccounts, TypedMails, RowWrite
  <1> QED
    BY <1>4, <1>5 DEF CreateUser

LEMMA InitiateVerificationInv ==
    ASSUME AccountInv, AccountNotes, NEW q \in Requests, InitiateVerification(q)
    PROVE  AccountInv'
  <1> PICK u, w : u = mem[q].user /\ w = mem[q].wallet
    OBVIOUS
  <1>1. /\ pc[q] = "saveProof" /\ Answer(q)
        /\ UNCHANGED <<accounts, profiles, mails, sessions, born, newest, confirmed, stated>>
    BY DEF InitiateVerification, At
  <1>2. Put(q, "idle", NoMemory)
    BY <1>1, AnswerPuts DEF AccountInv, AccountTypeInv
  <1>3. u \in People /\ w \in Wallets
    BY <1>1, HeldAt DEF AccountHeld
  <1>4. CASE UNCHANGED proofs
    BY <1>1, <1>2, <1>4, IdleHeld, TypedMails, PlainAccount
  <1>5. ASSUME u \in Known, NEW p \in ProofIds \ Proving, NEW new, new = [user |-> u, wallet |-> w, status |-> "pending"],
               proofs' = [proofs EXCEPT ![p] = new]
        PROVE  AccountInv'
    <2>1. new \in Proof /\ new.user = u /\ new.status # "verified" /\ new # None
      BY <1>3, <1>5, AccountAssumption DEF Proof
    <2>2. proofs[p] = None /\ \A o \in ProofIds : proofs'[o] = IF o = p THEN new ELSE proofs[o]
      BY <1>5, TypedAccounts DEF Proving
    <2>3. Grows(proofs, proofs') /\ \A v : ProvedIn(proofs', v) \subseteq ProvedIn(proofs, v)
      BY <2>1, <2>2 DEF Grows, ProvedIn
    <2>4. TruthInv'
      <3>1. TruthInv /\ Known' = Known
        BY <1>1 DEF AccountInv, Known
      <3>2. (\A o \in Proving : proofs[o].user \in Known)'
        BY <1>5, <2>1, <2>2, <3>1 DEF TruthInv, Proving
      <3>3. \A v, row : RowTrue(v, row, confirmed, stated, proofs) => RowTrue(v, row, confirmed, stated, proofs')
        BY <2>3, RowGrows DEF RowTrue
      <3>4. (\A v \in People : /\ accounts[v] # None => RowTrue(v, accounts[v], confirmed, stated, proofs)
                               /\ profiles[v] # None => RowTrue(v, profiles[v], confirmed, stated, proofs))'
        BY <1>1, <3>1, <3>3 DEF TruthInv
      <3>5. /\ (\A v, o \in Known : accounts[v].email = accounts[o].email => v = o)'
            /\ (Known \subseteq born /\ confirmed \subseteq born)'
        BY <1>1, <3>1 DEF TruthInv
      <3> QED
        BY <1>1, <1>2, <2>3, <3>2, <3>4, <3>5, IdleHeld, TruthChange
    <2>5. KeptInv'
      BY <1>1, <1>2, <2>3, IdleHeld, KeptQuiet
    <2>6. proofs' \in [ProofIds -> Proof \cup {None}]
      BY <1>5, <2>1, TypedAccounts
    <2> QED
      BY <1>1, <1>2, <2>4, <2>5, <2>6, IdleHeld, TypedAccounts, TypedMails, RowWrite
  <1> QED
    BY <1>4, <1>5 DEF InitiateVerification

------------------------------------------------------------------------------
\* Who holds the row of a user holds it alone, unless that is noted.
LEMMA HoldsAlone ==
    ASSUME AccountInv, AccountNotes, NEW q \in Requests, pc[q] \in HoldingSteps
    PROVE  \A r \in Requests \ {q} : pc[r] \in KeepingSteps => mem[r].user # mem[q].user \/ mem[q].user \in torn'
  <1>1. KeepingSteps \subseteq HoldingSteps
    BY DEF KeepingSteps, EditSteps, WalletSteps, HoldingSteps
  <1> QED
    BY <1>1 DEF AccountInv, KeptInv, AccountNotes

\* What is stored of user u after a save of row is what a save may do.
SavedRow(u, row) ==
    /\ UNCHANGED <<profiles, mails, proofs, sessions, born, newest>>
    /\ Save(u, row)
    /\ confirmed \subseteq confirmed' /\ stated \subseteq stated'
    /\ confirmed' = confirmed \/ (~Taken(row.email, u) /\ confirmed' = confirmed \cup {u})
    /\ Taken(row.email, u) \/ RowTrue(u, row, confirmed', stated', proofs)

LEMMA SavedTruth ==
    ASSUME AccountInv, NEW u \in People, u \in born, NEW row \in Account, SavedRow(u, row),
           NEW q \in Requests, NEW step \in PlainSteps, NEW m, Put(q, step, m)
    PROVE  TruthInv'
  <1>1. TruthInv /\ row # None
    BY AccountAssumption DEF AccountInv
  <1>2. Grows(proofs, proofs')
    BY DEF SavedRow, Grows
  <1>3. HeldTrue(step, m, born', confirmed', stated', proofs')
    BY DEF HeldTrue, PlainSteps, NewSteps, HoldingSteps, EditSteps, WalletSteps
  <1>4. \A v, k : RowTrue(v, k, confirmed, stated, proofs) => RowTrue(v, k, confirmed', stated', proofs)
    <2>1. Grows(proofs, proofs) /\ confirmed \subseteq confirmed' /\ stated \subseteq stated'
      BY <1>2 DEF SavedRow, Grows
    <2> QED
      BY <2>1, RowGrows DEF RowTrue
  <1>5. CASE Taken(row.email, u)
    <2>1. accounts' = accounts /\ Known' = Known /\ confirmed' = confirmed
      BY <1>5 DEF SavedRow, Save, Known
    <2>2. (\A v \in People : /\ accounts[v] # None => RowTrue(v, accounts[v], confirmed, stated, proofs)
                             /\ profiles[v] # None => RowTrue(v, profiles[v], confirmed, stated, proofs))'
      BY <1>1, <1>4, <2>1 DEF TruthInv, SavedRow
    <2>3. /\ (\A v, w \in Known : accounts[v].email = accounts[w].email => v = w)'
          /\ (Known \subseteq born /\ confirmed \subseteq born)'
          /\ (\A p \in Proving : proofs[p].user \in Known)'
      BY <1>1, <2>1 DEF TruthInv, SavedRow, Proving
    <2> QED
      BY <1>2, <1>3, <2>2, <2>3, TruthChange DEF SavedRow
  <1>6. CASE ~Taken(row.email, u)
    <2>1. \A v \in People : accounts'[v] = IF v = u THEN row ELSE accounts[v]
      BY <1>6, TypedAccounts DEF SavedRow, Save
    <2>2. Known' = Known \cup {u}
      BY <1>1, <2>1 DEF Known
    <2>3. \A v \in Known \ {u} : accounts[v].email # row.email
      BY <1>6 DEF Taken
    <2>4. (\A v, w \in Known : accounts[v].email = accounts[w].email => v = w)'
      BY <1>1, <2>1, <2>2, <2>3 DEF TruthInv, Known
    <2>5. (Known \subseteq born /\ confirmed \subseteq born)' /\ (\A p \in Proving : proofs[p].user \in Known)'
      BY <1>1, <2>2 DEF TruthInv, SavedRow, Proving
    <2>6. RowTrue(u, row, confirmed', stated', proofs)
      BY <1>6 DEF SavedRow
    <2>7. (\A v \in People : /\ accounts[v] # None => RowTrue(v, accounts[v], confirmed, stated, proofs)
                             /\ profiles[v] # None => RowTrue(v, profiles[v], confirmed, stated, proofs))'
      BY <1>1, <1>4, <2>1, <2>6 DEF TruthInv, SavedRow
    <2> QED
      BY <1>2, <1>3, <2>4, <2>5, <2>7, TruthChange DEF SavedRow
  <1> QED
    BY <1>5, <1>6

\* The row shows what it showed, and what was just verified, but for a flag a body set.
Tells(u, row) ==
    /\ accounts[u].walletVerified => row.walletVerified \/ <<u, "walletVerified">> \in stated'
    /\ accounts[u].emailVerified \/ u \notin confirmed
          => row.emailVerified \/ <<u, "emailVerified">> \in stated' \/ u \notin confirmed'

LEMMA SavedKept ==
    ASSUME AccountInv, AccountNotes, NEW u \in People, NEW row \in Account, SavedRow(u, row),
           NEW q \in Requests, NEW step \in PlainSteps, NEW m, Put(q, step, m), pc[q] \in KeepingSteps, mem[q].user = u,
           u \in torn' \/ /\ pc[q] = "saveOwner" => ~Taken(row.email, u) /\ row.walletVerified
                          /\ Taken(row.email, u) \/ Tells(u, row)
    PROVE  KeptInv'
  <1>1. step \notin KeepingSteps /\ pc[q] \in HoldingSteps
    BY DEF PlainSteps, KeepingSteps, EditSteps, WalletSteps, HoldingSteps
  <1>2. \A r \in Requests \ {q} : pc[r] \in KeepingSteps => mem[r].user # u \/ u \in torn'
    BY <1>1, HoldsAlone
  <1>3. \A v \in People \ {u} : /\ accounts'[v] = accounts[v]
                                /\ v \in confirmed' => v \in confirmed
                                /\ ProvedIn(proofs', v) \subseteq ProvedIn(proofs, v)
    BY TypedAccounts DEF SavedRow, Save, ProvedIn
  <1>4. ASSUME u \notin torn', accounts'[u] # None
        PROVE  /\ u \in confirmed' => accounts'[u].emailVerified \/ <<u, "emailVerified">> \in stated'
               /\ ProvedIn(proofs', u) # {} /\ (\A r \in Requests : ~(pc'[r] = "saveOwner" /\ mem'[r].user = u))
                     => accounts'[u].walletVerified \/ <<u, "walletVerified">> \in stated'
    <2>1. u \in Known \ torn
      BY <1>4 DEF AccountInv, KeptInv, AccountNotes
    <2>2. /\ u \in confirmed => accounts[u].emailVerified \/ <<u, "emailVerified">> \in stated'
          /\ ProvedIn(proofs, u) # {} /\ Settled(u) => accounts[u].walletVerified \/ <<u, "walletVerified">> \in stated'
      BY <2>1 DEF AccountInv, KeptInv, Shows, SavedRow
    <2>3. pc[q] # "saveOwner" /\ (\A r \in Requests : ~(pc'[r] = "saveOwner" /\ mem'[r].user = u)) => Settled(u)
      BY DEF Settled, Put
    <2>4. ProvedIn(proofs', u) = ProvedIn(proofs, u)
      BY DEF SavedRow, ProvedIn
    <2>5. CASE Taken(row.email, u)
      <3>1. accounts' = accounts /\ confirmed' = confirmed
        BY <2>5 DEF SavedRow, Save
      <3> QED
        BY <1>4, <2>2, <2>3, <2>4, <2>5, <3>1
    <2>6. CASE ~Taken(row.email, u)
      <3>1. accounts'[u] = row
        BY <2>6, TypedAccounts DEF SavedRow, Save
      <3> QED
        BY <1>4, <2>2, <2>3, <2>4, <2>6, <3>1 DEF Tells
    <2> QED
      BY <2>5, <2>6
  <1> QED
    BY <1>1, <1>2, <1>3, <1>4, KeptChange DEF SavedRow

LEMMA SavedAccount ==
    ASSUME AccountInv, AccountNotes, NEW u \in People, u \in born, NEW row \in Account, SavedRow(u, row),
           NEW q \in Requests, NEW step \in PlainSteps, NEW m, Put(q, step, m), AccountHeld(step, m),
           pc[q] \in KeepingSteps, mem[q].user = u,
           u \in torn' \/ /\ pc[q] = "saveOwner" => ~Taken(row.email, u) /\ row.walletVerified
                          /\ Taken(row.email, u) \/ Tells(u, row)
    PROVE  AccountInv'
  <1>1. TruthInv'
    BY SavedTruth
  <1>2. KeptInv'
    BY SavedKept
  <1>3. accounts' \in [People -> Account \cup {None}]
    BY TypedAccounts DEF SavedRow, Save
  <1>4. step \notin {"deleteSession", "saveSession"}
    BY DEF PlainSteps
  <1> QED
    BY <1>1, <1>2, <1>3, <1>4, TypedAccounts, TypedMails, RowWrite DEF SavedRow

------------------------------------------------------------------------------
LEMMA KeepingHeld ==
    ASSUME AccountInv, NEW q \in Requests, pc[q] \in KeepingSteps
    PROVE  mem[q].user \in People /\ mem[q].user \in born /\ mem[q].row \in Account
  <1>1. pc[q] \in HoldingSteps
    BY DEF KeepingSteps, EditSteps, WalletSteps, HoldingSteps
  <1> QED
    BY <1>1, HeldAt DEF AccountHeld, HeldTrue

LEMMA UpdateUserInv ==
    ASSUME AccountInv, AccountNotes, NEW q \in Requests, UpdateUser(q)
    PROVE  AccountInv'
  <1> PICK u, row, said : u = mem[q].user /\ row = mem[q].row /\ said = mem[q].said
    OBVIOUS
  <1>1. /\ pc[q] = "saveAccount" /\ Answer(q) /\ Save(u, row)
        /\ stated' = IF Taken(row.email, u) THEN stated ELSE stated \cup ({u} \X said)
        /\ UNCHANGED <<profiles, mails, proofs, sessions, born, newest, confirmed>>
    BY DEF UpdateUser, At
  <1>2. pc[q] \in KeepingSteps /\ pc[q] \in EditSteps
    BY <1>1 DEF KeepingSteps, EditSteps
  <1>3. u \in People /\ u \in born /\ row \in Account
    BY <1>2, KeepingHeld
  <1>4. /\ "emailVerified" \in said \/ EmailTrue(u, row, confirmed, stated)
        /\ "walletVerified" \in said \/ WalletTrue(u, row, stated, proofs)
        /\ "wallet" \in said \/ "walletVerified" \in said \/ WalletIs(u, row, stated, proofs)
    BY <1>2, HeldAt DEF HeldTrue
  <1>11. stated \subseteq stated' /\ (Taken(row.email, u) \/ \A c \in said : <<u, c>> \in stated')
    BY <1>1
  <1>5. Taken(row.email, u) \/ RowTrue(u, row, confirmed', stated', proofs)
    BY <1>1, <1>4, <1>11 DEF RowTrue, EmailTrue, WalletTrue, WalletIs
  <1>6. SavedRow(u, row)
    BY <1>1, <1>5, <1>11 DEF SavedRow
  <1>7. u \in torn' \/ AsStored(pc[q], mem[q], accounts[u])
    BY <1>2, StaysStored
  <1>8. u \in torn' \/ Taken(row.email, u) \/ Tells(u, row)
    BY <1>1, <1>2, <1>7, <1>11 DEF AsStored, Tells
  <1>9. Put(q, "idle", NoMemory)
    BY <1>1, AnswerPuts DEF AccountInv, AccountTypeInv
  <1>10. confirmed' = confirmed
    BY <1>1
  <1> QED
    BY <1>1, <1>2, <1>3, <1>6, <1>8, <1>9, <1>10, IdleHeld, SavedAccount

LEMMA SaveConfirmedInv ==
    ASSUME AccountInv, AccountNotes, NEW q \in Requests, SaveConfirmed(q)
    PROVE  AccountInv'
  <1> PICK u, row : u = mem[q].user /\ row = mem[q].row
    OBVIOUS
  <1>1. /\ pc[q] = "saveConfirmed" /\ Save(u, row)
        /\ \/ ~Taken(row.email, u) /\ Goto(q, "removeMail", mem[q]) /\ confirmed' = confirmed \cup {u}
           \/ Taken(row.email, u) /\ Answer(q) /\ UNCHANGED confirmed
        /\ UNCHANGED <<profiles, mails, proofs, sessions, born, newest, stated>>
    BY DEF SaveConfirmed, At
  <1>2. pc[q] \in KeepingSteps
    BY <1>1 DEF KeepingSteps
  <1>3. u \in People /\ u \in born /\ row \in Account
    BY <1>2, KeepingHeld
  <1>4. row.emailVerified /\ WalletTrue(u, row, stated, proofs) /\ WalletIs(u, row, stated, proofs) /\ mem[q].mail \in MailIds
    BY <1>1, HeldAt DEF HeldTrue, AccountHeld
  <1>5. Taken(row.email, u) \/ RowTrue(u, row, confirmed', stated', proofs)
    BY <1>1, <1>4 DEF RowTrue, EmailTrue
  <1>6. SavedRow(u, row)
    BY <1>1, <1>5 DEF SavedRow
  <1>7. u \in torn' \/ AsStored(pc[q], mem[q], accounts[u])
    BY <1>2, StaysStored
  <1>8. u \in torn' \/ Tells(u, row)
    BY <1>1, <1>4, <1>7 DEF AsStored, Tells
  <1>9. AccountHeld("removeMail", mem[q]) /\ "removeMail" \in PlainSteps
    BY <1>4, PlainHeld DEF PlainSteps
  <1>10. PICK step \in PlainSteps : \E m : Put(q, step, m) /\ AccountHeld(step, m)
    <2>1. Goto(q, "removeMail", mem[q]) => Put(q, "removeMail", mem[q])
      BY GotoPuts DEF AccountInv, AccountTypeInv
    <2>2. Answer(q) => Put(q, "idle", NoMemory)
      BY AnswerPuts DEF AccountInv, AccountTypeInv
    <2> QED
      BY <1>1, <1>9, <2>1, <2>2, IdleHeld
  <1>11. PICK m : Put(q, step, m) /\ AccountHeld(step, m)
    BY <1>10
  <1> QED
    BY <1>1, <1>2, <1>3, <1>4, <1>6, <1>8, <1>11, SavedAccount

LEMMA VerifyWalletInv ==
    ASSUME AccountInv, AccountNotes, NEW q \in Requests, VerifyWallet(q)
    PROVE  AccountInv'
  <1> PICK u, p, old : u = mem[q].user /\ p = mem[q].proof /\ old = mem[q].row
    OBVIOUS
  <1>1. PICK row : row = [old EXCEPT !.wallet = proofs[p].wallet, !.walletVerified = TRUE]
    OBVIOUS
  <1>2. /\ pc[q] = "saveOwner" /\ Answer(q) /\ Save(u, row)
        /\ UNCHANGED <<profiles, mails, proofs, sessions, born, newest, confirmed, stated>>
    BY <1>1 DEF VerifyWallet, At
  <1>3. pc[q] \in KeepingSteps /\ pc[q] \in WalletSteps
    BY <1>2 DEF KeepingSteps, WalletSteps
  <1>4. u \in People /\ u \in born /\ old \in Account
    BY <1>3, KeepingHeld
  <1>5. /\ EmailTrue(u, old, confirmed, stated) /\ proofs[p].user = u /\ p \in ProofIds
        /\ proofs[p] # None /\ proofs[p].status = "verified"
    BY <1>2, <1>3, HeldAt DEF HeldTrue, AccountHeld
  <1>6. proofs[p].wallet \in Wallets
    BY <1>5, TypedAccounts DEF Proof
  <1>7. /\ row \in Account /\ row.walletVerified /\ row.wallet = proofs[p].wallet
        /\ row.email = old.email /\ row.emailVerified = old.emailVerified
    BY <1>1, <1>4, <1>6 DEF Account
  <1>8. RowTrue(u, row, confirmed', stated', proofs)
    <2>1. p \in ProvedIn(proofs, u)
      BY <1>5 DEF ProvedIn
    <2> QED
      BY <1>2, <1>5, <1>7, <2>1 DEF RowTrue, EmailTrue, WalletTrue, WalletIs, WalletsIn
  <1>9. SavedRow(u, row)
    BY <1>2, <1>8 DEF SavedRow
  <1>10. u \in torn' \/ (u \in Known /\ old = accounts[u])
    BY <1>3, StaysStored DEF AsStored
  <1>11. u \in torn' \/ (~Taken(row.email, u) /\ Tells(u, row))
    BY <1>2, <1>7, <1>10 DEF AccountInv, TruthInv, Taken, Tells
  <1>12. Put(q, "idle", NoMemory)
    BY <1>2, AnswerPuts DEF AccountInv, AccountTypeInv
  <1>13. confirmed' = confirmed
    BY <1>2
  <1> QED
    BY <1>3, <1>4, <1>7, <1>9, <1>11, <1>12, <1>13, IdleHeld, SavedAccount

LEMMA SaveVerifiedInv ==
    ASSUME AccountInv, AccountNotes, NEW q \in Requests, SaveVerified(q)
    PROVE  AccountInv'
  <1> PICK m : m = mem[q]
    OBVIOUS
  <1> PICK u, p : u = m.user /\ p = m.proof
    OBVIOUS
  <1>1. /\ pc[q] = "saveVerified" /\ Goto(q, "saveOwner", m) /\ proofs' = [proofs EXCEPT ![p].status = "verified"]
        /\ UNCHANGED <<accounts, profiles, mails, sessions, born, newest, confirmed, stated>>
    BY DEF SaveVerified, At
  <1>2. /\ pc[q] \in KeepingSteps /\ pc[q] \in HoldingSteps
        /\ "saveOwner" \in WalletSteps /\ "saveVerified" \in WalletSteps
    BY <1>1 DEF KeepingSteps, WalletSteps, HoldingSteps
  <1>3. u \in People /\ u \in born /\ AccountHeld("saveVerified", m)
        /\ HeldTrue("saveVerified", m, born, confirmed, stated, proofs)
    BY <1>1, <1>2, KeepingHeld, HeldAt
  <1>4. p \in ProofIds /\ proofs[p] # None /\ proofs[p].user = u
    BY <1>2, <1>3 DEF AccountHeld, HeldTrue
  <1>5. PICK k : k = [proofs[p] EXCEPT !.status = "verified"]
    OBVIOUS
  <1>6. /\ k \in Proof /\ k.user = u /\ k.wallet = proofs[p].wallet /\ k.status = "verified"
        /\ proofs' = [proofs EXCEPT ![p] = k] /\ k # None
    BY <1>1, <1>4, <1>5, TypedAccounts, AccountAssumption DEF Proof
  <1>7. \A o \in ProofIds : proofs'[o] = IF o = p THEN k ELSE proofs[o]
    BY <1>6, TypedAccounts
  <1>8. Grows(proofs, proofs') /\ \A v \in People \ {u} : ProvedIn(proofs', v) \subseteq ProvedIn(proofs, v)
    BY <1>4, <1>6, <1>7 DEF Grows, ProvedIn
  <1>9. Put(q, "saveOwner", m)
    BY <1>1, GotoPuts DEF AccountInv, AccountTypeInv
  <1>10. AccountHeld("saveOwner", m)
    BY <1>3 DEF AccountHeld, NewSteps, HoldingSteps, SessionSteps, KeepingSteps, EditSteps, WalletSteps
  <1>11. HeldTrue("saveOwner", m, born', confirmed', stated', proofs')
    <2>1. HeldTrue("saveVerified", m, born, confirmed, stated, proofs')
      BY <1>3, <1>8, HeldGrows
    <2>2. proofs'[p].status = "verified"
      BY <1>4, <1>6, <1>7
    <2> QED
      BY <1>1, <2>1, <2>2 DEF HeldTrue, NewSteps, HoldingSteps, EditSteps, WalletSteps
  <1>12. TruthInv'
    <2>1. TruthInv /\ Known' = Known
      BY <1>1 DEF AccountInv, Known
    <2>2. (\A o \in Proving : proofs[o].user \in Known)'
      BY <1>4, <1>6, <1>7, <2>1 DEF TruthInv, Proving
    <2>3. \A v, row : RowTrue(v, row, confirmed, stated, proofs) => RowTrue(v, row, confirmed, stated, proofs')
      BY <1>8, RowGrows DEF RowTrue
    <2>4. (\A v \in People : /\ accounts[v] # None => RowTrue(v, accounts[v], confirmed, stated, proofs)
                             /\ profiles[v] # None => RowTrue(v, profiles[v], confirmed, stated, proofs))'
      BY <1>1, <2>1, <2>3 DEF TruthInv
    <2>5. /\ (\A v, o \in Known : accounts[v].email = accounts[o].email => v = o)'
          /\ (Known \subseteq born /\ confirmed \subseteq born)'
      BY <1>1, <2>1 DEF TruthInv
    <2> QED
      BY <1>1, <1>8, <1>9, <1>11, <2>2, <2>4, <2>5, TruthChange
  <1>13. KeptInv'
    <2>1. \A r \in Requests \ {q} : pc[r] \in KeepingSteps => mem[r].user # u \/ u \in torn'
      BY <1>2, HoldsAlone
    <2>2. u \in torn' \/ (u \in Known /\ AsStored("saveVerified", m, accounts[u]))
      BY <1>1, <1>2, StaysStored
    <2>3. AsStored("saveVerified", m, accounts[u]) => AsStored("saveOwner", m, accounts[u])
      BY DEF AsStored, EditSteps, WalletSteps
    <2>4. u \in torn' \/ (u \in People /\ accounts'[u] # None /\ AsStored("saveOwner", m, accounts'[u]))
      BY <1>1, <2>2, <2>3 DEF Known
    <2>5. u \in torn' \/ (u \in confirmed => accounts[u].emailVerified \/ <<u, "emailVerified">> \in stated)
      BY <2>2 DEF AccountInv, KeptInv, Shows, AccountNotes
    <2>6. pc'[q] = "saveOwner" /\ mem'[q].user = u
      BY <1>9 DEF Put
    <2>7. \A v \in People \ {u} : /\ accounts'[v] = accounts[v]
                                  /\ v \in confirmed' => v \in confirmed
                                  /\ ProvedIn(proofs', v) \subseteq ProvedIn(proofs, v)
      BY <1>1, <1>8
    <2>8. pc[q] # "saveOwner"
      BY <1>1
    <2>9. \/ m.user \in torn'
          \/ m.user \in People /\ accounts'[m.user] # None /\ AsStored("saveOwner", m, accounts'[m.user])
      BY <2>4
    <2>10. ~(\A r \in Requests : ~(pc'[r] = "saveOwner" /\ mem'[r].user = u))
      BY <2>6
    <2>11. u \in torn' \/ (u \in confirmed' => accounts'[u].emailVerified \/ <<u, "emailVerified">> \in stated')
      BY <1>1, <2>5
    <2>12. \/ u \in torn'
           \/ /\ u \in confirmed' => accounts'[u].emailVerified \/ <<u, "emailVerified">> \in stated'
              /\ ProvedIn(proofs', u) # {} /\ (\A r \in Requests : ~(pc'[r] = "saveOwner" /\ mem'[r].user = u))
                    => accounts'[u].walletVerified \/ <<u, "walletVerified">> \in stated'
      BY <2>10, <2>11
    <2>13. stated \subseteq stated'
      BY <1>1
    <2> QED
      BY <1>3, <1>9, <2>1, <2>7, <2>8, <2>9, <2>12, <2>13, KeptChange
  <1>14. proofs' \in [ProofIds -> Proof \cup {None}]
    BY <1>6, TypedAccounts
  <1> QED
    BY <1>1, <1>9, <1>10, <1>12, <1>13, <1>14, TypedAccounts, TypedMails, RowWrite

------------------------------------------------------------------------------
\* A user goes with its mails and sessions when no verification refers to it.
LEMMA DeleteUserInv ==
    ASSUME AccountInv, AccountNotes, NEW q \in Requests, DeleteUser(q)
    PROVE  AccountInv'
  <1> PICK u : u = mem[q].user
    OBVIOUS
  <1>1. /\ pc[q] = "removeAccount" /\ Answer(q)
        /\ UNCHANGED <<profiles, proofs, born, newest, confirmed, stated>>
    BY DEF DeleteUser, At
  <1>2. Put(q, "idle", NoMemory)
    BY <1>1, AnswerPuts DEF AccountInv, AccountTypeInv
  <1>3. pc[q] \in HoldingSteps /\ pc[q] # "saveOwner"
    BY <1>1 DEF HoldingSteps
  <1>4. u \in People
    BY <1>3, HeldAt DEF AccountHeld
  <1>5. CASE UNCHANGED <<accounts, mails, sessions>>
    BY <1>1, <1>2, <1>3, <1>5, IdleHeld, TypedMails, PlainAccount
  <1>6. CASE ~UNCHANGED <<accounts, mails, sessions>>
    <2>1. /\ accounts' = [accounts EXCEPT ![u] = None] /\ \A p \in Proving : proofs[p].user # u
          /\ mails' = [n \in MailIds |-> IF mails[n] # None /\ mails[n].user = u THEN None ELSE mails[n]]
          /\ sessions' = [s \in SessionIds |-> IF s \in SessionsOf(u) THEN None ELSE sessions[s]]
      BY <1>6 DEF DeleteUser
    <2>2. \A v \in People : accounts'[v] = IF v = u THEN None ELSE accounts[v]
      BY <2>1, TypedAccounts
    <2>3. Known' = Known \ {u} /\ TruthInv
      BY <2>2 DEF Known, AccountInv
    <2>4. TruthInv'
      <3>1. (\A v, w \in Known : accounts[v].email = accounts[w].email => v = w)'
        BY <2>2, <2>3 DEF TruthInv, Known
      <3>2. (Known \subseteq born /\ confirmed \subseteq born)'
        BY <1>1, <2>3 DEF TruthInv
      <3>3. (\A p \in Proving : proofs[p].user \in Known)'
        BY <1>1, <2>1, <2>3 DEF TruthInv, Proving
      <3>4. (\A v \in People : /\ accounts[v] # None => RowTrue(v, accounts[v], confirmed, stated, proofs)
                               /\ profiles[v] # None => RowTrue(v, profiles[v], confirmed, stated, proofs))'
        BY <1>1, <2>2, <2>3 DEF TruthInv
      <3>5. Grows(proofs, proofs')
        BY <1>1 DEF Grows
      <3> QED
        BY <1>1, <1>2, <3>1, <3>2, <3>3, <3>4, <3>5, IdleHeld, TruthChange
    <2>5. KeptInv'
      <3>1. \A r \in Requests \ {q} : pc[r] \in KeepingSteps => mem[r].user # u \/ u \in torn'
        BY <1>3, HoldsAlone
      <3>2. \A v \in People \ {u} : /\ accounts'[v] = accounts[v]
                                    /\ v \in confirmed' => v \in confirmed
                                    /\ ProvedIn(proofs', v) \subseteq ProvedIn(proofs, v)
        BY <1>1, <2>2 DEF ProvedIn
      <3>3. stated \subseteq stated'
        BY <1>1
      <3>4. \/ u \in torn' \/ accounts'[u] = None
            \/ /\ u \in confirmed' => accounts'[u].emailVerified \/ <<u, "emailVerified">> \in stated'
               /\ ProvedIn(proofs', u) # {} /\ (\A r \in Requests : ~(pc'[r] = "saveOwner" /\ mem'[r].user = u))
                     => accounts'[u].walletVerified \/ <<u, "walletVerified">> \in stated'
        BY <1>4, <2>2
      <3>5. "idle" \in KeepingSteps => \/ NoMemory.user \in torn'
                                       \/ /\ NoMemory.user \in People /\ accounts'[NoMemory.user] # None
                                          /\ AsStored("idle", NoMemory, accounts'[NoMemory.user])
        BY IdleHeld
      <3>6. pc[q] = "saveOwner" => mem[q].user = u \/ mem[q].user \in torn'
        BY <1>3
      <3> QED
        BY <1>2, <1>4, <3>1, <3>2, <3>3, <3>4, <3>5, <3>6, KeptChange
    <2>6. SessionInv'
      <3>1. \A s \in SessionIds : sessions'[s] # None => sessions[s] # None /\ sessions'[s].user = sessions[s].user
        BY <2>1
      <3> QED
        BY <1>1, <1>2, <3>1, IdleHeld, SessionQuiet
    <2>7. AccountTypeInv'
      <3>1. accounts' \in [People -> Account \cup {None}]
        BY <2>1, TypedAccounts
      <3>2. mails' \in [MailIds -> [user: People, email: Addresses] \cup {None}]
        BY <2>1, TypedMails
      <3>3. sessions' \in [SessionIds -> [user: People, live: BOOLEAN] \cup {None}]
        BY <2>1, TypedSessions
      <3>4. AccountTypeOK' /\ DOMAIN newest' = People
        BY <1>1, <3>1, <3>2, <3>3, TypedAccounts, TypedSessions DEF AccountTypeOK
      <3> QED
        BY <1>2, <3>4, IdleHeld, AccountTypeQuiet
    <2> QED
      BY <2>4, <2>5, <2>6, <2>7 DEF AccountInv
  <1> QED
    BY <1>5, <1>6

LEMMA AccountWritesInv ==
    ASSUME AccountInv, AccountNotes, NEW q \in Requests, AccountWrites(q)
    PROVE  AccountInv'
  BY CreateUserInv, CacheProfileInv, UpdateUserInv, DeleteUserInv, MailWrites, SaveConfirmedInv, InitiateVerificationInv,
     SaveVerifiedInv, VerifyWalletInv, DeleteExistingInv, CreateSessionInv, SessionServes, DeleteExpiredInv
     DEF AccountWrites

LEMMA AccountInterruptedInv ==
    ASSUME AccountInv, NEW q \in Requests, AccountInterrupted(q)
    PROVE  AccountInv'
  <1>1. UNCHANGED accountTables /\ torn \subseteq torn' /\ crossed' = crossed
    BY DEF AccountInterrupted
  <1>2. Put(q, "idle", NoMemory)
    BY InterruptedPuts DEF AccountInterrupted, AccountInv, AccountTypeInv
  <1>3. pc'[q] = "idle" /\ \A r \in Requests \ {q} : pc'[r] = pc[r] /\ mem'[r] = mem[r]
    BY <1>2 DEF Put
  <1>4. "idle" \notin HoldingSteps /\ "idle" \notin SessionSteps
    BY DEF HoldingSteps, SessionSteps
  <1>5. AccountNotes
    BY <1>1, <1>3, <1>4 DEF AccountNotes, AccountInv, SessionInv, KeptInv
  <1>6. pc[q] # "saveOwner" \/ mem[q].user \in torn'
    BY DEF AccountInterrupted
  <1> QED
    BY <1>1, <1>2, <1>5, <1>6, IdleHeld, TypedMails, PlainAccount DEF accountTables

LEMMA AccountStepInv == AccountInv /\ AccountAct => AccountInv'
  <1> SUFFICES ASSUME AccountInv, AccountAct PROVE AccountInv'
    OBVIOUS
  <1>1. CASE AccountNext
    <2>1. AccountNotes
      BY <1>1, HistoryNotesAccounts DEF AccountNext
    <2> QED
      BY <1>1, <2>1, AccountReadsInv, AccountWritesInv, AccountExpires DEF AccountNext
  <1>2. ASSUME NEW q \in Requests, AccountInterrupted(q) PROVE AccountInv'
    BY <1>2, AccountInterruptedInv
  <1> QED
    BY <1>1, <1>2 DEF AccountAct

\* Requests of other components hold no rows of users.
LEMMA AccountFrame ==
    ASSUME AccountInv, PerRequest', UNCHANGED accountVars, Apart(AccountSteps)
    PROVE  AccountInv'
  <1>0. /\ UNCHANGED <<accounts, profiles, mails, proofs, sessions, born, newest, confirmed, stated, torn, crossed>>
        /\ Known' = Known /\ Proving' = Proving
        /\ AccountTypeInv /\ SessionInv /\ TruthInv /\ KeptInv
    BY DEF accountVars, Known, Proving, AccountInv
  <1>1. \A q \in Requests : pc'[q] \in AccountSteps \/ pc[q] \in AccountSteps => pc'[q] = pc[q] /\ mem'[q] = mem[q]
    BY DEF Apart
  <1>2. NewSteps \cup HoldingSteps \cup SessionSteps \cup EditSteps \cup WalletSteps \cup KeepingSteps
           \cup {"findNewEmail", "insertAccount", "findAccount", "queryProfile", "cacheProfile", "saveMail",
                 "findByEmail", "findMail", "findMailUser", "removeMail", "saveProof", "findProof",
                 "deleteExpired", "saveConfirmed", "saveOwner", "deleteSession", "saveSession"} \subseteq AccountSteps
    BY DEF AccountSteps, NewSteps, HoldingSteps, SessionSteps, EditSteps, WalletSteps, KeepingSteps
  <1>3. AccountTypeInv'
    <2>1. ASSUME NEW q \in Requests PROVE AccountHeld(pc'[q], mem'[q])
      <3>1. CASE pc'[q] \in AccountSteps
        BY <1>0, <1>1, <3>1 DEF AccountTypeInv
      <3>2. CASE pc'[q] \notin AccountSteps
        BY <1>2, <3>2 DEF AccountHeld
      <3> QED
        BY <3>1, <3>2
    <2>2. AccountTypeOK'
      BY <1>0 DEF AccountTypeInv, AccountTypeOK
    <2> QED
      BY <1>0, <2>1, <2>2 DEF AccountTypeInv
  <1>4. SessionInv'
    <2>1. \A q \in Requests : pc'[q] \in SessionSteps \cup {"deleteSession", "saveSession"}
             => pc'[q] = pc[q] /\ mem'[q] = mem[q]
      BY <1>1, <1>2
    <2>2. OneSessionPerUser' /\ \A u : SessionsOf(u)' = SessionsOf(u)
      BY <1>0 DEF SessionInv, OneSessionPerUser, SessionsOf
    <2> QED
      BY <1>0, <2>1, <2>2 DEF SessionInv, SessionsOf
  <1>5. TruthInv'
    <2>1. ASSUME NEW q \in Requests PROVE HeldTrue(pc'[q], mem'[q], born, confirmed, stated, proofs)
      <3>1. CASE pc'[q] \in AccountSteps
        BY <1>0, <1>1, <3>1 DEF TruthInv
      <3>2. CASE pc'[q] \notin AccountSteps
        BY <1>2, <3>2 DEF HeldTrue
      <3> QED
        BY <3>1, <3>2
    <2> QED
      BY <1>0, <2>1 DEF TruthInv
  <1>6. KeptInv'
    <2>1. \A q \in Requests : pc'[q] \in HoldingSteps \cup KeepingSteps => pc'[q] = pc[q] /\ mem'[q] = mem[q]
      BY <1>1, <1>2
    <2>2. \A q \in Requests : pc[q] = "saveOwner" => pc'[q] = pc[q] /\ mem'[q] = mem[q]
      BY <1>1, <1>2
    <2>3. (\A q, r \in Requests :
              q # r /\ pc[q] \in HoldingSteps /\ pc[r] \in HoldingSteps /\ mem[q].user = mem[r].user
                 => mem[q].user \in torn)'
      BY <1>0, <2>1 DEF KeptInv
    <2>4. (\A q \in Requests : pc[q] \in KeepingSteps /\ mem[q].user \notin torn =>
              mem[q].user \in Known /\ AsStored(pc[q], mem[q], accounts[mem[q].user]))'
      BY <1>0, <2>1 DEF KeptInv
    <2>5. ASSUME NEW u \in Known, u \notin torn
          PROVE  Shows(u, accounts[u], confirmed, stated, proofs, \A r \in Requests : ~(pc'[r] = "saveOwner" /\ mem'[r].user = u))
      <3>1. Shows(u, accounts[u], confirmed, stated, proofs, Settled(u))
        BY <1>0, <2>5 DEF KeptInv
      <3>2. (\A r \in Requests : ~(pc'[r] = "saveOwner" /\ mem'[r].user = u)) => Settled(u)
        BY <2>2 DEF Settled
      <3> QED
        BY <3>1, <3>2 DEF Shows
    <2> QED
      BY <1>0, <2>3, <2>4, <2>5 DEF KeptInv, Settled
  <1> QED
    BY <1>3, <1>4, <1>5, <1>6 DEF AccountInv

LEMMA AccountNextInv == Base /\ AccountInv /\ [Next]_vars => AccountInv'
  <1> SUFFICES ASSUME Base, AccountInv, [Next]_vars PROVE AccountInv'
    OBVIOUS
  <1>1. CASE AccountStep
    BY <1>1, AccountStepInv DEF AccountStep, AccountAct
  <1>2. CASE ~AccountStep
    BY <1>2, AccountApart, AccountFrame
  <1> QED
    BY <1>1, <1>2

LEMMA AccountInvariant == Spec => []AccountInv
  BY BaseInit, BaseStep, AccountInitInv, AccountNextInv, PTL DEF Spec

\* Whatever updates, verifications, logins and failures mix: but for the columns that the body
\* of a request set, a row says verified only of what was verified, and of all that was unless
\* two requests held it at once or one was cut off; a user has one session unless its logins
\* overlapped (UserService.ts lines 33 to 66,
\* emailVerification.service.ts lines 53 to 60, wallet-verification.service.ts lines 63 to 100,
\* session.service.ts lines 16 to 58).
THEOREM AccountsTellTheTruth == Spec => []AccountsHold
  <1>1. AccountInv => AccountsHold
    <2> SUFFICES ASSUME AccountInv PROVE AccountsHold
      OBVIOUS
    <2>1. OneSessionPerUser
      BY DEF AccountInv, SessionInv
    <2>2. ASSUME NEW u \in People
          PROVE  {p \in Proving : proofs[p].user = u /\ proofs[p].status = "verified"} = ProvedIn(proofs, u)
      BY DEF Proving, ProvedIn
    <2>3. ASSUME NEW u \in People, NEW row \in {accounts[u], profiles[u]} \ {None}
          PROVE  RowTrue(u, row, confirmed, stated, proofs)
      BY <2>3 DEF AccountInv, TruthInv
    <2>4. ASSUME NEW u \in Known \ torn
          PROVE  Shows(u, accounts[u], confirmed, stated, proofs, \A q \in Requests : ~(At(q, "saveOwner") /\ mem[q].user = u))
      BY <2>4 DEF AccountInv, KeptInv, Settled, At
    <2>5. FlagsFollowProof
      BY <2>2, <2>3, <2>4 DEF FlagsFollowProof, RowTrue, EmailTrue, WalletTrue, WalletIs, WalletsIn, Shows
    <2> QED
      BY <2>1, <2>5 DEF AccountsHold
  <1> QED
    BY <1>1, AccountInvariant, PTL

------------------------------------------------------------------------------
Row == [Columns -> Contents]
ChangingSteps == {"change", "logChange", "commitChange"}
RecordSteps == AuditSteps \ {"readPage"}

\* A reader has seen the entries it asked for but those its next pages show.
Seen(m) ==
    /\ m.first <= Len(trail)
    /\ \A i \in 1..m.first : Len(trail) - (m.page - 1) * PageSize < i => i \in m.got

AuditHeld(step, m) ==
    /\ step = "findRecord" => m \in [record : Records, column : Columns, value : Contents]
    /\ step = "loadRecord" => m \in [record : Records, held : Row]
    /\ step \in ChangingSteps => m \in [record : Records, held : Row, base : Row \cup {None}]
    /\ step = "findToRemove" => m \in [record : Records]
    /\ step \in {"remove", "logRemoval", "commitRemoval"} => m \in [record : Records, held : Row]
    /\ step = "readPage" => m \in [page : Nat \ {0}, first : Nat, got : SUBSET Nat] /\ Seen(m)

AuditTables ==
    /\ audited \in [Records -> Row \cup {None}]
    /\ trail \in Seq(LogEntry)
    /\ gone \cup unlogged \cup undone \subseteq issued
    /\ issued \subseteq Records
    /\ missed = {}
    /\ Kept \subseteq issued
AuditTypeInv == AuditTables /\ \A q \in Requests : AuditHeld(pc[q], mem[q])

\* The request that inserts a row has it for itself, and a row others have is there, until
\* it is deleted.
Inserts(step, m) == step \in ChangingSteps /\ m.base = None
Placed(step, m) == step \in RecordSteps =>
    m.record \in issued /\ (m.record \in gone \/ (m.record \in Kept <=> ~Inserts(step, m)))
PlacedInv == \A q \in Requests : Placed(pc[q], mem[q])
InsertedOnce == \A p, q \in Requests :
    p # q /\ pc[p] \in RecordSteps /\ Inserts(pc[q], mem[q]) /\ mem[p].record = mem[q].record =>
        mem[q].record \in gone
LockedOnce == \A p, q \in Requests :
    pc[p] \in LockingSteps /\ pc[q] \in LockingSteps /\ mem[p].record = mem[q].record => p = q

\* The last entry that sets the name of a row says v.
SetsName(e, r) == e.record = r /\ (e.action = "CREATE" \/ e.old["name"] # e.new["name"])
Says(r, v) == \E i \in 1..Len(trail) :
    SetsName(trail[i], r) /\ trail[i].new["name"] = v /\ \A j \in (i + 1)..Len(trail) : ~SetsName(trail[j], r)

\* A row is as the log says, or a transaction that wrote its entry will leave it so.
NameAfter(m, row) == IF m.base = None \/ m.held["name"] # m.base["name"] THEN m.held["name"] ELSE row["name"]
Commits(q, r) == pc[q] = "commitChange" /\ mem[q].record = r
Replayed(r) ==
    /\ r \in Kept /\ (\A q \in Requests : ~Commits(q, r)) => Says(r, audited[r]["name"])
    /\ \A q \in Requests : Commits(q, r) => Says(r, NameAfter(mem[q], audited[r]))
Excepted == gone \cup unlogged \cup undone
ReplayInv == \A r \in issued \ Excepted : Replayed(r)

AuditRows == AuditTypeInv /\ PlacedInv /\ InsertedOnce /\ LockedOnce
AuditInv == AuditRows /\ ReplayInv

LEMMA AuditNames ==
    /\ None \notin Records /\ None \notin Row
    /\ "name" \in Columns /\ "password" \in Columns
    /\ \A row \in Row : row["name"] \in Contents /\ [row EXCEPT !["password"] = "[REDACTED]"] \in Content
                       /\ [row EXCEPT !["password"] = "[REDACTED]"]["name"] = row["name"]
  BY AuditAssumption DEF Row, Columns, Content

LEMMA SanitizedRow ==
    ASSUME NEW row \in Row \cup {None}
    PROVE  /\ Sanitize(row) \in Content \cup {None}
           /\ row # None => Sanitize(row)["name"] = row["name"]
  BY AuditNames DEF Sanitize

LEMMA AuditInitInv == Init => AuditInv
  <1> SUFFICES ASSUME Init PROVE AuditInv
    OBVIOUS
  <1>1. \A q \in Requests : pc[q] = "idle"
    BY InitPerRequest DEF Init
  <1>2. /\ \A q \in Requests : AuditHeld(pc[q], mem[q])
        /\ PlacedInv /\ InsertedOnce /\ LockedOnce
        /\ \A q \in Requests, r \in Records : ~Commits(q, r)
    BY <1>1 DEF AuditHeld, PlacedInv, Placed, InsertedOnce, LockedOnce, Commits, Inserts, ChangingSteps, RecordSteps,
                AuditSteps, LockingSteps
  <1>3. CASE AuditIdle
    BY <1>2, <1>3 DEF AuditIdle, AuditInv, AuditRows, AuditTypeInv, AuditTables, ReplayInv, Kept
  <1>4. CASE AuditInit
    <2> PICK r, x : r = (CHOOSE s \in Records : TRUE) /\ x = (CHOOSE c \in Contents : TRUE)
      OBVIOUS
    <2> PICK row : row = [c \in Columns |-> x]
      OBVIOUS
    <2> PICK e : e = [record |-> r, action |-> "CREATE", old |-> None, new |-> Sanitize(row)]
      OBVIOUS
    <2>1. r \in Records /\ x \in Contents
      BY AuditAssumption
    <2>2. row \in Row
      BY <2>1 DEF Row
    <2>3. /\ audited = [s \in Records |-> IF s = r THEN row ELSE None]
          /\ trail = <<e>> /\ issued = {r} /\ gone = {} /\ unlogged = {} /\ undone = {} /\ missed = {}
      BY <1>4 DEF AuditInit
    <2>4. e \in LogEntry /\ SetsName(e, r) /\ e.new["name"] = row["name"]
      BY <2>1, <2>2, SanitizedRow, AuditNames DEF LogEntry, SetsName
    <2>5. AuditTables
      <3>1. trail \in Seq(LogEntry)
        BY <2>3, <2>4
      <3>2. audited \in [Records -> Row \cup {None}] /\ Kept = {r}
        BY <2>1, <2>2, <2>3, AuditNames DEF Kept
      <3> QED
        BY <2>1, <2>3, <3>1, <3>2 DEF AuditTables
    <2>6. Says(r, row["name"]) /\ audited[r] = row
      <3>1. Len(trail) = 1 /\ trail[1] = e /\ 1 \in 1..1
        BY <2>3
      <3>2. \A j \in (1 + 1)..1 : FALSE
        OBVIOUS
      <3> QED
        BY <2>1, <2>3, <2>4, <3>1, <3>2 DEF Says
    <2>7. ReplayInv
      BY <1>2, <2>1, <2>3, <2>6 DEF ReplayInv, Replayed
    <2> QED
      BY <1>2, <2>5, <2>7 DEF AuditInv, AuditRows, AuditTypeInv
  <1> QED
    BY <1>3, <1>4 DEF Init

\* A reader misses nothing that is added.
LEMMA SeenStays ==
    ASSUME AuditTables, trail' = trail \/ \E e : trail' = Append(trail, e), trail' \in Seq(LogEntry),
           NEW m \in [page : Nat \ {0}, first : Nat, got : SUBSET Nat], Seen(m)
    PROVE  Seen(m)'
  <1> PICK k : k = (m.page - 1) * PageSize
    OBVIOUS
  <1>1. k \in Nat
    BY AuditAssumption
  <1>2. Len(trail) \in Nat /\ Len(trail') \in Nat /\ Len(trail') >= Len(trail)
    BY DEF AuditTables
  <1> QED
    BY <1>1, <1>2 DEF Seen

------------------------------------------------------------------------------
\* The log only grows, the histories too, and a row that is not deleted comes or goes only
\* with the one request that has it.
AuditGrows(q) ==
    /\ AuditTables'
    /\ trail' = trail \/ \E e : trail' = Append(trail, e)
    /\ issued \subseteq issued' /\ gone \subseteq gone'
    /\ \A p \in Requests \ {q} : pc[p] \in RecordSteps /\ mem[p].record \notin gone' =>
          (mem[p].record \in Kept' <=> mem[p].record \in Kept)

\* What request q may hold at its next step.
Proceeds(q, step, m) ==
    /\ step \in RecordSteps =>
          \/ pc[q] \in RecordSteps /\ mem[q].record = m.record /\ (Inserts(step, m) => Inserts(pc[q], mem[q]))
          \/ m.record \in Kept /\ ~Inserts(step, m)
          \/ m.record \notin issued \/ m.record \in gone
    /\ step \in LockingSteps =>
          \/ pc[q] \in LockingSteps /\ mem[q].record = m.record
          \/ ~Locked(m.record)

LEMMA MovedRows ==
    ASSUME AuditRows, NEW q \in Requests, NEW step, NEW m, Put(q, step, m), AuditGrows(q),
           AuditHeld(step, m)', Placed(step, m)', Proceeds(q, step, m)
    PROVE  AuditRows'
  <1>1. PerRequest' /\ pc'[q] = step /\ mem'[q] = m
    BY DEF Put
  <1>2. ASSUME NEW p \in Requests, p # q
        PROVE  /\ pc'[p] = pc[p] /\ mem'[p] = mem[p]
               /\ AuditHeld(pc[p], mem[p])' /\ Placed(pc[p], mem[p])'
    <2> PICK st, n : st = pc[p] /\ n = mem[p]
      OBVIOUS
    <2>1. pc'[p] = st /\ mem'[p] = n
      BY <1>2 DEF Put
    <2>2. AuditHeld(st, n) /\ Placed(st, n)
      BY DEF AuditRows, AuditTypeInv, PlacedInv
    <2>3. st = "readPage" => Seen(n)'
      BY <2>2, SeenStays DEF AuditHeld, AuditGrows, AuditRows, AuditTypeInv, AuditTables
    <2>4. AuditHeld(st, n)'
      BY <2>2, <2>3 DEF AuditHeld
    <2>5. Placed(st, n)'
      BY <1>2, <2>2 DEF Placed, AuditGrows, Inserts
    <2> QED
      BY <2>1, <2>4, <2>5
  <1>3. ASSUME NEW p \in Requests PROVE AuditHeld(pc[p], mem[p])' /\ Placed(pc[p], mem[p])'
    BY <1>1, <1>2
  <1>4. InsertedOnce'
    <2> SUFFICES ASSUME NEW o \in Requests, NEW p \in Requests, o # p, pc'[o] \in RecordSteps,
                        Inserts(pc'[p], mem'[p]), mem'[o].record = mem'[p].record
                 PROVE  mem'[p].record \in gone'
      BY DEF InsertedOnce, Inserts
    <2>1. CASE o = q
      <3> PICK r : r = mem[p].record
        OBVIOUS
      <3>1. pc'[p] = pc[p] /\ mem'[p] = mem[p] /\ step \in RecordSteps /\ m.record = r
        BY <1>1, <1>2, <2>1
      <3>2. Inserts(pc[p], mem[p]) /\ pc[p] \in RecordSteps /\ Placed(pc[p], mem[p])
        BY <3>1 DEF Inserts, ChangingSteps, RecordSteps, AuditSteps, LockingSteps, AuditRows, PlacedInv
      <3>3. r \in issued /\ (r \in gone \/ r \notin Kept)
        BY <3>2 DEF Placed
      <3>4. r \in gone
        BY <2>1, <3>1, <3>2, <3>3 DEF Proceeds, AuditRows, InsertedOnce
      <3> QED
        BY <3>1, <3>4 DEF AuditGrows
    <2>2. CASE p = q
      <3> PICK r : r = mem[o].record
        OBVIOUS
      <3>1. pc'[o] = pc[o] /\ mem'[o] = mem[o] /\ step \in RecordSteps /\ Inserts(step, m) /\ m.record = r
        BY <1>1, <1>2, <2>2 DEF Inserts, ChangingSteps, RecordSteps, AuditSteps, LockingSteps
      <3>2. Placed(pc[o], mem[o]) /\ r \in issued
        BY <3>1 DEF AuditRows, PlacedInv, Placed
      <3>3. r \in gone
        BY <2>2, <3>1, <3>2 DEF Proceeds, AuditRows, InsertedOnce
      <3> QED
        BY <1>1, <2>2, <3>1, <3>3 DEF AuditGrows
    <2>3. CASE o # q /\ p # q
      <3>1. mem[p].record \in gone
        BY <1>2, <2>3 DEF AuditRows, InsertedOnce
      <3> QED
        BY <1>2, <2>3, <3>1 DEF AuditGrows
    <2> QED
      BY <2>1, <2>2, <2>3
  <1>5. LockedOnce'
    <2> SUFFICES ASSUME NEW o \in Requests, NEW p \in Requests, o # p, pc'[o] \in LockingSteps,
                        pc'[p] \in LockingSteps, mem'[o].record = mem'[p].record
                 PROVE  FALSE
      BY DEF LockedOnce
    <2>1. ASSUME NEW s \in Requests, s # q, step \in LockingSteps, pc[s] \in LockingSteps,
                 m.record = mem[s].record
          PROVE  FALSE
      BY <2>1 DEF Proceeds, Locked, AuditRows, LockedOnce
    <2> QED
      BY <1>1, <1>2, <2>1 DEF AuditRows, LockedOnce
  <1> QED
    BY <1>3, <1>4, <1>5 DEF AuditRows, AuditTypeInv, PlacedInv, AuditGrows

\* An entry that does not set the name of a row leaves what the log says of it.
LEMMA StillSays ==
    ASSUME AuditTables, NEW r, NEW v, Says(r, v),
           trail' = trail \/ \E e : trail' = Append(trail, e) /\ ~SetsName(e, r)
    PROVE  Says(r, v)'
  <1>1. CASE trail' = trail
    BY <1>1 DEF Says
  <1>2. CASE \E e : trail' = Append(trail, e) /\ ~SetsName(e, r)
    <2> PICK e : trail' = Append(trail, e) /\ ~SetsName(e, r)
      BY <1>2
    <2> PICK n : n = Len(trail)
      OBVIOUS
    <2>1. n \in Nat /\ Len(trail') = n + 1 /\ trail'[n + 1] = e /\ \A j \in 1..n : trail'[j] = trail[j]
      BY DEF AuditTables
    <2>2. PICK i \in 1..n : /\ SetsName(trail[i], r) /\ trail[i].new["name"] = v
                            /\ \A j \in (i + 1)..n : ~SetsName(trail[j], r)
      BY DEF Says
    <2>3. ASSUME NEW j \in (i + 1)..(n + 1) PROVE ~SetsName(trail'[j], r)
      <3>1. CASE j = n + 1
        BY <2>1, <3>1
      <3>2. CASE j # n + 1
        <4>1. j \in (i + 1)..n /\ j \in 1..n
          BY <2>1, <3>2
        <4> QED
          BY <2>1, <2>2, <4>1
      <3> QED
        BY <3>1, <3>2
    <2>4. i \in 1..(n + 1) /\ trail'[i] = trail[i]
      BY <2>1
    <2> QED
      BY <2>1, <2>2, <2>3, <2>4 DEF Says
  <1> QED
    BY <1>1, <1>2

\* One that sets it says the new name.
LEMMA SaysNow ==
    ASSUME AuditTables, NEW r, NEW e, SetsName(e, r), trail' = Append(trail, e)
    PROVE  Says(r, e.new["name"])'
  <1> PICK n : n = Len(trail)
    OBVIOUS
  <1>1. n \in Nat /\ Len(trail') = n + 1 /\ trail'[n + 1] = e
    BY DEF AuditTables
  <1>2. n + 1 \in 1..(n + 1) /\ \A j \in ((n + 1) + 1)..(n + 1) : FALSE
    BY <1>1
  <1> QED
    BY <1>1, <1>2 DEF Says

\* A row is replayed as before when it is the same and its commit is not the request's step.
LEMMA OtherReplayed ==
    ASSUME AuditTables, NEW r, Replayed(r), audited'[r] = audited[r], r \in Kept' <=> r \in Kept,
           NEW q \in Requests, NEW step, NEW m, Put(q, step, m), ~Commits(q, r),
           ~(step = "commitChange" /\ m.record = r),
           trail' = trail \/ \E e : trail' = Append(trail, e) /\ ~SetsName(e, r)
    PROVE  Replayed(r)'
  <1>1. ASSUME NEW p \in Requests
        PROVE  /\ Commits(p, r)' <=> Commits(p, r)
               /\ Commits(p, r) => mem'[p] = mem[p]
    BY DEF Put, Commits
  <1> PICK row : row = audited[r]
    OBVIOUS
  <1>2. r \in Kept' /\ (\A p \in Requests : ~Commits(p, r)') => Says(r, row["name"])'
    BY <1>1, StillSays DEF Replayed
  <1>3. ASSUME NEW p \in Requests, Commits(p, r)' PROVE Says(r, NameAfter(mem[p], row))'
    <2> PICK v : v = NameAfter(mem[p], row)
      OBVIOUS
    <2>1. Says(r, v)
      BY <1>1, <1>3 DEF Replayed
    <2>2. NameAfter(mem[p], row)' = v
      BY <1>1, <1>3 DEF NameAfter
    <2> QED
      BY <2>1, <2>2, StillSays
  <1> QED
    BY <1>2, <1>3 DEF Replayed, NameAfter

------------------------------------------------------------------------------
LEMMA AuditKept ==
    ASSUME UNCHANGED auditVars
    PROVE  /\ Kept' = Kept /\ Excepted' = Excepted
           /\ trail' = trail /\ audited' = audited /\ issued' = issued /\ gone' = gone
           /\ AuditTables => AuditTables'
           /\ \A step, m : /\ AuditHeld(step, m)' <=> AuditHeld(step, m)
                           /\ Placed(step, m)' <=> Placed(step, m)
  BY DEF auditVars, Kept, Excepted, AuditTables, AuditHeld, Seen, Placed, Inserts

\* A request reads, waits for a lock or gets its answer.
LEMMA QuietAudit ==
    ASSUME AuditInv, UNCHANGED auditVars, NEW q \in Requests, NEW step, NEW m, Put(q, step, m),
           AuditHeld(step, m), Placed(step, m), Proceeds(q, step, m),
           step # "commitChange", pc[q] # "commitChange"
    PROVE  AuditInv'
  <1>1. AuditGrows(q) /\ AuditHeld(step, m)' /\ Placed(step, m)'
    BY AuditKept DEF AuditGrows, AuditInv, AuditRows, AuditTypeInv
  <1>2. AuditRows'
    BY <1>1, MovedRows DEF AuditInv
  <1>3. ASSUME NEW r \in issued \ Excepted PROVE Replayed(r)'
    BY <1>3, OtherReplayed, AuditKept DEF AuditInv, AuditRows, AuditTypeInv, ReplayInv, Commits
  <1> QED
    BY <1>2, <1>3, AuditKept DEF AuditInv, ReplayInv

LEMMA AuditAnswers ==
    ASSUME PerRequest, AuditInv, UNCHANGED auditVars, NEW q \in Requests, Answer(q), pc[q] # "commitChange"
    PROVE  AuditInv'
  <1>1. Put(q, "idle", NoMemory)
    BY AnswerPuts
  <1>2. AuditHeld("idle", NoMemory) /\ Placed("idle", NoMemory) /\ Proceeds(q, "idle", NoMemory)
    BY DEF AuditHeld, Placed, Proceeds, RecordSteps, AuditSteps, LockingSteps, ChangingSteps
  <1> QED
    BY <1>1, <1>2, QuietAudit

\* What a request holds of a row that is there or was deleted.
LEMMA HoldsRow ==
    ASSUME AuditInv, NEW q \in Requests, pc[q] \in RecordSteps
    PROVE  /\ mem[q].record \in issued /\ mem[q].record \in Records
           /\ AuditHeld(pc[q], mem[q]) /\ Placed(pc[q], mem[q])
           /\ mem[q].record \in Kept => audited[mem[q].record] \in Row
  BY DEF AuditInv, AuditRows, AuditTypeInv, AuditTables, PlacedInv, Placed, Kept

LEMMA PostAuditInv ==
    ASSUME PerRequest, AuditInv, NEW q \in Requests, PostChange(q) \/ PostRemove(q)
    PROVE  AuditInv'
  <1>1. PICK step, m :
           /\ step \in {"findRecord", "findToRemove"}
           /\ Receive(q, "audit", step, m) /\ m.record \in Kept /\ AuditHeld(step, m)
           /\ UNCHANGED auditVars
    <2>1. CASE PostChange(q)
      <3> PICK r \in Kept, c \in Columns, x \in Contents :
               Receive(q, "audit", "findRecord", [record |-> r, column |-> c, value |-> x])
        BY <2>1 DEF PostChange
      <3>1. AuditHeld("findRecord", [record |-> r, column |-> c, value |-> x])
        BY DEF AuditHeld, Kept, ChangingSteps
      <3> QED
        BY <2>1, <3>1 DEF PostChange
    <2>2. CASE PostRemove(q)
      <3> PICK r \in Kept : Receive(q, "audit", "findToRemove", [record |-> r])
        BY <2>2 DEF PostRemove
      <3>1. AuditHeld("findToRemove", [record |-> r])
        BY DEF AuditHeld, Kept, ChangingSteps
      <3> QED
        BY <2>2, <3>1 DEF PostRemove
    <2> QED
      BY <2>1, <2>2
  <1>2. pc[q] = "idle" /\ Put(q, step, m)
    BY <1>1, ReceivePuts
  <1>3. Placed(step, m) /\ Proceeds(q, step, m)
    BY <1>1 DEF Placed, Proceeds, Inserts, ChangingSteps, LockingSteps, AuditInv, AuditRows, AuditTypeInv, AuditTables
  <1> QED
    BY <1>1, <1>2, <1>3, QuietAudit

LEMMA FindRecordInv ==
    ASSUME PerRequest, AuditInv, NEW q \in Requests, FindRecord(q)
    PROVE  AuditInv'
  <1> PICK r, n : r = mem[q].record /\ n = mem[q]
    OBVIOUS
  <1>0. pc[q] = "findRecord" /\ UNCHANGED auditVars /\ pc[q] \in RecordSteps
    BY DEF FindRecord, At, RecordSteps, AuditSteps
  <1>1. CASE Answer(q)
    BY <1>0, <1>1, AuditAnswers
  <1>2. CASE r \in Kept /\ Goto(q, "loadRecord", [record |-> r, held |-> [audited[r] EXCEPT ![n.column] = n.value]])
    <2> PICK row : row = [audited[r] EXCEPT ![n.column] = n.value]
      OBVIOUS
    <2> PICK m : m = [record |-> r, held |-> row]
      OBVIOUS
    <2>1. row \in Row
      BY <1>0, <1>2, HoldsRow DEF AuditHeld, Row
    <2>2. AuditHeld("loadRecord", m)
      BY <1>0, <2>1, HoldsRow DEF AuditHeld, ChangingSteps
    <2>3. Placed("loadRecord", m) /\ Proceeds(q, "loadRecord", m)
      BY <1>0, <1>2, HoldsRow DEF Placed, Proceeds, Inserts, ChangingSteps, LockingSteps
    <2> QED
      BY <1>0, <1>2, <2>2, <2>3, GotoPuts, QuietAudit
  <1> QED
    BY <1>1, <1>2 DEF FindRecord

LEMMA LoadRecordInv ==
    ASSUME PerRequest, AuditInv, NEW q \in Requests, LoadRecord(q)
    PROVE  AuditInv'
  <1> PICK r, row, base : r = mem[q].record /\ row = mem[q].held /\ base = audited[r]
    OBVIOUS
  <1>0. pc[q] = "loadRecord" /\ UNCHANGED auditVars /\ pc[q] \in RecordSteps
    BY DEF LoadRecord, At, RecordSteps, AuditSteps
  <1>1. CASE Answer(q)
    BY <1>0, <1>1, AuditAnswers
  <1>2. CASE Goto(q, "change", [record |-> r, held |-> row, base |-> base])
    <2> PICK m : m = [record |-> r, held |-> row, base |-> base]
      OBVIOUS
    <2>1. row \in Row /\ base \in Row \cup {None} /\ r \in Records /\ r \in issued
      BY <1>0, HoldsRow DEF AuditHeld, AuditInv, AuditRows, AuditTypeInv, AuditTables
    <2>2. AuditHeld("change", m)
      BY <2>1 DEF AuditHeld, ChangingSteps
    <2>3. r \in gone \/ (base # None /\ r \in Kept)
      <3>1. Placed("loadRecord", mem[q]) /\ "loadRecord" \in RecordSteps
        BY <1>0, HoldsRow
      <3>2. ~Inserts("loadRecord", mem[q])
        BY DEF Inserts, ChangingSteps
      <3>3. r \in gone \/ r \in Kept
        BY <3>1, <3>2 DEF Placed
      <3> QED
        BY <3>3 DEF Kept
    <2>4. Placed("change", m)
      BY <2>1, <2>3 DEF Placed, Inserts
    <2>5. Proceeds(q, "change", m)
      BY <1>0, <2>1, <2>3 DEF Proceeds, Inserts, LockingSteps
    <2> QED
      BY <1>0, <1>2, <2>2, <2>4, <2>5, GotoPuts, QuietAudit
  <1> QED
    BY <1>1, <1>2 DEF LoadRecord

------------------------------------------------------------------------------
LEMMA TakeLockInv ==
    ASSUME PerRequest, AuditInv, NEW q \in Requests, Change(q) \/ Remove(q)
    PROVE  AuditInv'
  <1> PICK m : m = mem[q]
    OBVIOUS
  <1>0. UNCHANGED auditVars /\ ~Locked(m.record)
    BY DEF Change, Remove
  <1>1. CASE pc[q] = "change" /\ Goto(q, "logChange", m)
    <2>1. AuditHeld("change", m) /\ Placed("change", m) /\ "change" \in RecordSteps
      BY <1>1, HoldsRow DEF RecordSteps, AuditSteps
    <2>2. AuditHeld("logChange", m) /\ Placed("logChange", m)
      BY <2>1 DEF AuditHeld, Placed, Inserts, ChangingSteps
    <2>3. Proceeds(q, "logChange", m)
      BY <1>0, <1>1, <2>1 DEF Proceeds, Inserts, ChangingSteps
    <2> QED
      BY <1>0, <1>1, <2>2, <2>3, GotoPuts, QuietAudit
  <1>2. CASE pc[q] = "remove" /\ Goto(q, "logRemoval", m)
    <2>1. AuditHeld("remove", m) /\ Placed("remove", m) /\ "remove" \in RecordSteps
      BY <1>2, HoldsRow DEF RecordSteps, AuditSteps
    <2>2. AuditHeld("logRemoval", m) /\ Placed("logRemoval", m)
      BY <2>1 DEF AuditHeld, Placed, Inserts, ChangingSteps
    <2>3. Proceeds(q, "logRemoval", m)
      BY <1>0, <1>2, <2>1 DEF Proceeds, Inserts, ChangingSteps
    <2> QED
      BY <1>0, <1>2, <2>2, <2>3, GotoPuts, QuietAudit
  <1>3. CASE pc[q] = "change" /\ Answer(q)
    BY <1>0, <1>3, AuditAnswers
  <1> QED
    BY <1>1, <1>2, <1>3 DEF Change, Remove, At

LEMMA FindToRemoveInv ==
    ASSUME PerRequest, AuditInv, NEW q \in Requests, FindToRemove(q)
    PROVE  AuditInv'
  <1> PICK r, row : r = mem[q].record /\ row = audited[r]
    OBVIOUS
  <1>0. pc[q] = "findToRemove" /\ UNCHANGED auditVars /\ pc[q] \in RecordSteps
    BY DEF FindToRemove, At, RecordSteps, AuditSteps
  <1>1. CASE Answer(q)
    BY <1>0, <1>1, AuditAnswers
  <1>2. CASE r \in Kept /\ Goto(q, "remove", [record |-> r, held |-> row])
    <2> PICK m : m = [record |-> r, held |-> row]
      OBVIOUS
    <2>1. row \in Row /\ r \in Records /\ r \in issued
      BY <1>0, <1>2, HoldsRow
    <2>2. AuditHeld("remove", m)
      BY <2>1 DEF AuditHeld, ChangingSteps
    <2>3. Placed("remove", m) /\ Proceeds(q, "remove", m)
      BY <1>0, <1>2, <2>1 DEF Placed, Proceeds, Inserts, ChangingSteps, LockingSteps
    <2> QED
      BY <1>0, <1>2, <2>2, <2>3, GotoPuts, QuietAudit
  <1> QED
    BY <1>1, <1>2 DEF FindToRemove

\* A reader: what it has not seen yet is on the pages it goes on to.
LEMMA GetAuditLogsInv ==
    ASSUME PerRequest, AuditInv, NEW q \in Requests, GetAuditLogs(q)
    PROVE  AuditInv'
  <1> PICK n : n = Len(trail)
    OBVIOUS
  <1> PICK m : m = [page |-> 1, first |-> n, got |-> {}]
    OBVIOUS
  <1>1. n \in Nat
    BY DEF AuditInv, AuditRows, AuditTypeInv, AuditTables
  <1>2. (m.page - 1) * PageSize = 0
    BY AuditAssumption
  <1>3. Seen(m)
    BY <1>1, <1>2 DEF Seen
  <1>4. AuditHeld("readPage", m)
    BY <1>1, <1>3 DEF AuditHeld, ChangingSteps
  <1>5. Placed("readPage", m) /\ Proceeds(q, "readPage", m)
    BY DEF Placed, Proceeds, RecordSteps, LockingSteps
  <1>6. Receive(q, "audit", "readPage", m) /\ UNCHANGED auditVars
    BY DEF GetAuditLogs
  <1>7. pc[q] = "idle" /\ Put(q, "readPage", m)
    BY <1>6, ReceivePuts
  <1> QED
    BY <1>4, <1>5, <1>6, <1>7, QuietAudit

LEMMA ReadPageInv ==
    ASSUME PerRequest, AuditInv, NEW q \in Requests, ReadPage(q)
    PROVE  AuditInv'
  <1> PICK n, m, k : n = Len(trail) /\ m = mem[q] /\ k = (m.page - 1) * PageSize
    OBVIOUS
  <1> PICK got : got = m.got \cup Page(m.page)
    OBVIOUS
  <1>0. /\ pc[q] = "readPage" /\ n \in Nat /\ missed = {}
        /\ m \in [page : Nat \ {0}, first : Nat, got : SUBSET Nat]
        /\ m.first <= n /\ \A i \in 1..m.first : n - k < i => i \in m.got
    BY DEF ReadPage, At, AuditInv, AuditRows, AuditTypeInv, AuditTables, AuditHeld, Seen
  <1>1. k \in Nat /\ m.page * PageSize = k + PageSize /\ PageSize \in Nat
    BY <1>0, AuditAssumption
  <1>2. Page(m.page) = {i \in 1..n : (n - k) - PageSize < i /\ i <= n - k}
    BY DEF Page
  <1>3. \A i \in 1..m.first : n - (k + PageSize) < i => i \in got
    <2> SUFFICES ASSUME NEW i \in 1..m.first, n - (k + PageSize) < i PROVE i \in got
      OBVIOUS
    <2>1. i \in 1..n /\ (n - k) - PageSize < i
      BY <1>0, <1>1
    <2>2. i \in m.got \/ i <= n - k
      BY <1>0, <1>1
    <2> QED
      BY <1>2, <2>1, <2>2
  <1>4. got \in SUBSET Nat
    BY <1>0, <1>2
  <1>5. CASE Goto(q, "readPage", [m EXCEPT !.page = m.page + 1, !.got = got]) /\ UNCHANGED auditVars
    <2> PICK o : o = [m EXCEPT !.page = m.page + 1, !.got = got]
      OBVIOUS
    <2>1. o \in [page : Nat \ {0}, first : Nat, got : SUBSET Nat]
          /\ o.first = m.first /\ o.got = got /\ o.page = m.page + 1
      <3> PICK p : p = m.page + 1
        OBVIOUS
      <3>1. p \in Nat \ {0} /\ m.first \in Nat
        BY <1>0
      <3>2. o = [page |-> p, first |-> m.first, got |-> got]
        BY <1>0
      <3> QED
        BY <1>4, <3>1, <3>2
    <2>2. (o.page - 1) * PageSize = k + PageSize
      <3>1. o.page - 1 = m.page
        BY <1>0, <2>1
      <3> QED
        BY <1>1, <3>1
    <2>3. Seen(o)
      BY <1>0, <1>3, <2>1, <2>2 DEF Seen
    <2>4. AuditHeld("readPage", o)
      BY <2>1, <2>3 DEF AuditHeld, ChangingSteps
    <2>5. Placed("readPage", o) /\ Proceeds(q, "readPage", o)
      BY DEF Placed, Proceeds, RecordSteps, LockingSteps
    <2> QED
      BY <1>0, <1>5, <2>4, <2>5, GotoPuts, QuietAudit
  <1>6. CASE m.page * PageSize >= n /\ Answer(q) /\ missed' = missed \cup ((1..m.first) \ got)
    <2>1. (1..m.first) \ got = {}
      <3>1. n - (k + PageSize) <= 0
        BY <1>0, <1>1, <1>6
      <3>2. \A i \in 1..m.first : n - (k + PageSize) < i
        BY <1>0, <1>1, <3>1
      <3> QED
        BY <1>3, <3>2
    <2>2. UNCHANGED auditVars
      BY <1>0, <1>6, <2>1 DEF ReadPage, auditVars
    <2> QED
      BY <1>0, <1>6, <2>2, AuditAnswers
  <1> QED
    BY <1>5, <1>6 DEF ReadPage, auditVars

------------------------------------------------------------------------------
\* A request that goes back to being idle.
LEMMA IdleHoldsNothing ==
    ASSUME NEW q \in Requests, NEW m
    PROVE  AuditHeld("idle", m)' /\ Placed("idle", m)' /\ Proceeds(q, "idle", m)
  BY DEF AuditHeld, Placed, Proceeds, RecordSteps, AuditSteps, LockingSteps, ChangingSteps

\* Changes that are excepted afterwards leave what is said of the other rows.
LEMMA OthersReplayed ==
    ASSUME AuditInv, NEW r, \A s \in Records \ {r} : audited'[s] = audited[s],
           NEW q \in Requests, NEW step, NEW m, Put(q, step, m),
           \A s \in Records \ {r} : ~Commits(q, s) /\ ~(step = "commitChange" /\ m.record = s),
           trail' = trail \/ \E e : trail' = Append(trail, e) /\ \A s \in Records \ {r} : ~SetsName(e, s),
           Excepted \subseteq Excepted', issued' = issued,
           r \in issued \ Excepted' => Replayed(r)'
    PROVE  ReplayInv'
  <1> SUFFICES ASSUME NEW s \in issued \ Excepted' PROVE Replayed(s)'
    BY DEF ReplayInv
  <1>1. s \in Records /\ s \in issued \ Excepted /\ AuditTables
    BY DEF AuditInv, AuditRows, AuditTypeInv, AuditTables
  <1>2. CASE s # r
    <2>1. audited'[s] = audited[s] /\ (s \in Kept' <=> s \in Kept) /\ Replayed(s)
      BY <1>1, <1>2 DEF Kept, AuditInv, ReplayInv
    <2>2. ~Commits(q, s) /\ ~(step = "commitChange" /\ m.record = s)
      BY <1>1, <1>2
    <2>3. trail' = trail \/ \E e : trail' = Append(trail, e) /\ ~SetsName(e, s)
      BY <1>1, <1>2
    <2> QED
      BY <1>1, <2>1, <2>2, <2>3, OtherReplayed
  <1> QED
    BY <1>2

LEMMA PostCreateInv ==
    ASSUME PerRequest, AuditInv, NEW q \in Requests, PostCreate(q)
    PROVE  AuditInv'
  <1> PICK r \in Records \ issued, x \in Contents :
         /\ Receive(q, "audit", "change", [record |-> r, held |-> [c \in Columns |-> x], base |-> None])
         /\ issued' = issued \cup {r}
    BY DEF PostCreate
  <1> PICK m : m = [record |-> r, held |-> [c \in Columns |-> x], base |-> None]
    OBVIOUS
  <1>0. /\ pc[q] = "idle" /\ Put(q, "change", m)
        /\ UNCHANGED <<audited, trail, gone, unlogged, undone, missed>>
    BY ReceivePuts DEF PostCreate
  <1>1. Kept' = Kept /\ Excepted' = Excepted /\ r \notin Excepted /\ r \notin Kept /\ AuditTables
    BY <1>0 DEF Kept, Excepted, AuditInv, AuditRows, AuditTypeInv, AuditTables
  <1>2. AuditTables'
    BY <1>0, <1>1 DEF AuditTables
  <1>3. AuditGrows(q)
    BY <1>0, <1>1, <1>2 DEF AuditGrows
  <1>4. AuditHeld("change", m)'
    BY DEF AuditHeld, ChangingSteps, Row
  <1>5. Placed("change", m)' /\ Proceeds(q, "change", m)
    BY <1>1 DEF Placed, Proceeds, Inserts, ChangingSteps, LockingSteps
  <1>6. AuditRows'
    BY <1>0, <1>3, <1>4, <1>5, MovedRows DEF AuditInv
  <1>7. ASSUME NEW s \in issued \ Excepted PROVE Replayed(s)'
    BY <1>0, <1>1, <1>7, OtherReplayed DEF AuditInv, ReplayInv, Commits
  <1>8. Replayed(r)'
    <2>1. ASSUME NEW p \in Requests PROVE ~Commits(p, r)'
      <3> SUFFICES ASSUME Commits(p, r)' PROVE FALSE
        OBVIOUS
      <3>1. p # q /\ pc[p] = "commitChange" /\ mem[p].record = r
        BY <1>0 DEF Commits, Put
      <3>2. Placed(pc[p], mem[p]) /\ pc[p] \in RecordSteps
        BY <3>1 DEF AuditInv, AuditRows, PlacedInv, RecordSteps, AuditSteps, LockingSteps
      <3> QED
        BY <3>1, <3>2 DEF Placed
    <2> QED
      BY <1>1, <2>1 DEF Replayed
  <1> QED
    BY <1>1, <1>6, <1>7, <1>8 DEF AuditInv, ReplayInv

\* A row is deleted, by a request that then has none.
LEMMA DiscardInv ==
    ASSUME AuditInv, NEW q \in Requests, NEW m, Put(q, "idle", m), pc[q] # "commitChange",
           NEW r \in issued, Discard(r)
    PROVE  AuditInv'
  <1>0. /\ AuditTables /\ r \in Records
        /\ audited' = [audited EXCEPT ![r] = None] /\ gone' = gone \cup {r}
        /\ UNCHANGED <<trail, issued, unlogged, undone, missed>>
    BY DEF AuditInv, AuditRows, AuditTypeInv, AuditTables, Discard
  <1>1. /\ \A s \in Records \ {r} : audited'[s] = audited[s]
        /\ Kept' = Kept \ {r}
    BY <1>0 DEF AuditTables, Kept
  <1>2. AuditTables'
    BY <1>0, <1>1 DEF AuditTables
  <1>3. AuditGrows(q)
    BY <1>0, <1>1, <1>2 DEF AuditGrows
  <1>4. AuditRows'
    BY <1>3, IdleHoldsNothing, MovedRows DEF AuditInv
  <1>5. ReplayInv'
    BY <1>0, <1>1, OthersReplayed DEF Excepted, Commits
  <1> QED
    BY <1>4, <1>5 DEF AuditInv

LEMMA RemovalInv ==
    ASSUME PerRequest, AuditInv, NEW q \in Requests, CommitRemoval(q) \/ DeleteById(q)
    PROVE  AuditInv'
  <1>1. CASE CommitRemoval(q)
    <2>1. Put(q, "idle", NoMemory) /\ pc[q] = "commitRemoval" /\ Discard(mem[q].record)
      BY <1>1, AnswerPuts DEF CommitRemoval, At
    <2>2. mem[q].record \in issued
      BY <2>1, HoldsRow DEF RecordSteps, AuditSteps, LockingSteps
    <2> QED
      BY <2>1, <2>2, DiscardInv
  <1>2. CASE DeleteById(q)
    <2>1. PICK r \in Kept : Discard(r)
      BY <1>2 DEF DeleteById
    <2> PICK m : m = mem[q]
      OBVIOUS
    <2>2. pc[q] = "idle" /\ Put(q, "idle", m)
      BY <1>2, ServePuts DEF DeleteById
    <2>3. r \in issued
      BY DEF AuditInv, AuditRows, AuditTypeInv, AuditTables
    <2> QED
      BY <2>1, <2>2, <2>3, DiscardInv
  <1> QED
    BY <1>1, <1>2

LEMMA UpdateByIdInv ==
    ASSUME PerRequest, AuditInv, NEW q \in Requests, UpdateById(q)
    PROVE  AuditInv'
  <1> PICK m : m = mem[q]
    OBVIOUS
  <1>1. pc[q] = "idle" /\ Put(q, "idle", m)
    BY ServePuts DEF UpdateById
  <1>2. PICK r \in Kept, c \in Columns, x \in Contents :
           audited' = [audited EXCEPT ![r][c] = x] /\ unlogged' = unlogged \cup {r}
    BY DEF UpdateById
  <1> PICK row : row = [audited[r] EXCEPT ![c] = x]
    OBVIOUS
  <1>3. /\ AuditTables /\ r \in issued /\ r \in Records
        /\ audited' = [audited EXCEPT ![r] = row]
        /\ UNCHANGED <<trail, issued, gone, undone, missed>>
    BY <1>2 DEF AuditInv, AuditRows, AuditTypeInv, AuditTables, UpdateById
  <1>4. row \in Row /\ row # None
    <2>1. audited[r] \in Row
      BY <1>3 DEF AuditTables, Kept
    <2> QED
      BY <2>1, AuditNames DEF Row
  <1>5. Kept' = Kept /\ \A s \in Records \ {r} : audited'[s] = audited[s]
    BY <1>3, <1>4 DEF AuditTables, Kept
  <1>6. AuditTables'
    BY <1>2, <1>3, <1>4, <1>5 DEF AuditTables
  <1>7. AuditGrows(q)
    BY <1>3, <1>5, <1>6 DEF AuditGrows
  <1>8. AuditRows'
    BY <1>1, <1>7, IdleHoldsNothing, MovedRows DEF AuditInv
  <1>9. ReplayInv'
    BY <1>1, <1>2, <1>3, <1>5, OthersReplayed DEF Excepted, Commits
  <1> QED
    BY <1>8, <1>9 DEF AuditInv

------------------------------------------------------------------------------
\* The request that has the lock of a row, and no other, commits a change of it.
LEMMA LockHolder ==
    ASSUME AuditInv, NEW q \in Requests, pc[q] \in LockingSteps, NEW p \in Requests, Commits(p, mem[q].record)
    PROVE  p = q
  BY DEF AuditInv, AuditRows, LockedOnce, Commits, LockingSteps

LEMMA EntryAdded ==
    ASSUME AuditTables, NEW e \in LogEntry, trail' = Append(trail, e),
           UNCHANGED <<audited, issued, gone, unlogged, undone, missed>>, NEW q \in Requests
    PROVE  AuditGrows(q) /\ Excepted' = Excepted /\ Kept' = Kept
  <1>1. trail' \in Seq(LogEntry)
    BY DEF AuditTables
  <1> QED
    BY <1>1 DEF AuditTables, AuditGrows, Excepted, Kept

LEMMA LogChangeInv ==
    ASSUME PerRequest, AuditInv, NEW q \in Requests, LogChange(q)
    PROVE  AuditInv'
  <1> PICK m, r : m = mem[q] /\ r = m.record
    OBVIOUS
  <1> PICK e : e = [record |-> r, action |-> IF m.base = None THEN "CREATE" ELSE "UPDATE",
                    old |-> Sanitize(m.base), new |-> Sanitize(m.held)]
    OBVIOUS
  <1>0. /\ pc[q] = "logChange" /\ pc[q] \in LockingSteps /\ pc[q] \in RecordSteps
        /\ UNCHANGED <<audited, issued, gone, undone, missed>> /\ AuditTables
    BY DEF LogChange, At, LockingSteps, RecordSteps, AuditSteps, AuditInv, AuditRows, AuditTypeInv
  <1>1. Put(q, "commitChange", m)
    BY GotoPuts DEF LogChange
  <1>2. /\ m \in [record : Records, held : Row, base : Row \cup {None}] /\ r \in issued /\ r \in Records
        /\ r \in gone \/ (r \in Kept <=> m.base # None)
    <2>1. AuditHeld("logChange", m) /\ Placed("logChange", m) /\ r \in issued
      BY <1>0, HoldsRow
    <2> QED
      BY <1>0, <2>1 DEF AuditHeld, Placed, Inserts, ChangingSteps
  <1>3. AuditHeld("commitChange", m)' /\ Proceeds(q, "commitChange", m)
    BY <1>0, <1>2 DEF AuditHeld, Proceeds, Inserts, ChangingSteps
  <1>4. Placed("commitChange", m)'
    BY <1>0, <1>2 DEF Placed, Inserts, ChangingSteps, Kept
  <1>5. \A p \in Requests : p # q => ~Commits(p, r)'
    BY <1>0, <1>1, LockHolder DEF Put, Commits
  <1>6. \A s \in Records \ {r} : ~Commits(q, s) /\ ~("commitChange" = "commitChange" /\ m.record = s)
    BY <1>0 DEF Commits
  <1>7. CASE trail' = Append(trail, e) /\ UNCHANGED unlogged
    <2>1. /\ Sanitize(m.base) \in Content \cup {None} /\ Sanitize(m.held) \in Content \cup {None}
          /\ Sanitize(m.held)["name"] = m.held["name"]
          /\ m.base # None => Sanitize(m.base)["name"] = m.base["name"]
      BY <1>2, SanitizedRow, AuditNames
    <2>2. e \in LogEntry
      BY <1>2, <2>1 DEF LogEntry
    <2>3. /\ e.record = r /\ e.new["name"] = m.held["name"]
          /\ e.action = "CREATE" <=> m.base = None
          /\ m.base # None => e.old["name"] = m.base["name"]
      BY <2>1
    <2>4. AuditRows'
      BY <1>0, <1>1, <1>3, <1>4, <1>7, <2>2, EntryAdded, MovedRows DEF AuditInv
    <2>5. ASSUME r \in issued \ Excepted' PROVE Replayed(r)'
      <3> PICK v, row : row = audited[r] /\ v = NameAfter(m, row)
        OBVIOUS
      <3>1. r \in issued \ Excepted
        BY <1>0, <1>7, <2>2, <2>5, EntryAdded
      <3>2. ASSUME SetsName(e, r) PROVE Says(r, v)'
        <4>1. v = e.new["name"]
          BY <2>3, <3>2 DEF SetsName, NameAfter
        <4> QED
          BY <1>0, <1>7, <3>2, <4>1, SaysNow
      <3>3. ASSUME ~SetsName(e, r) PROVE Says(r, v)'
        <4>1. m.base # None /\ v = row["name"]
          BY <2>3, <3>3 DEF SetsName, NameAfter
        <4>2. r \in Kept /\ \A p \in Requests : ~Commits(p, r)
          <5>1. r \in Kept
            BY <1>2, <3>1, <4>1 DEF Excepted
          <5>2. ~Commits(q, r)
            BY <1>0 DEF Commits
          <5> QED
            BY <1>0, <5>1, <5>2, LockHolder
        <4>3. Says(r, v)
          BY <3>1, <4>1, <4>2 DEF AuditInv, ReplayInv, Replayed
        <4> QED
          BY <1>0, <1>7, <3>3, <4>3, StillSays
      <3>4. Says(r, v)'
        BY <3>2, <3>3
      <3>5. ASSUME NEW p \in Requests, Commits(p, r)' PROVE Says(r, NameAfter(mem[p], audited[r]))'
        <4>1. mem'[p] = m
          BY <1>1, <1>5, <3>5 DEF Put
        <4>2. NameAfter(mem[p], audited[r])' = v
          BY <1>0, <4>1 DEF NameAfter
        <4> QED
          BY <3>4, <4>2
      <3>6. Commits(q, r)'
        BY <1>1 DEF Put, Commits
      <3> QED
        BY <3>5, <3>6 DEF Replayed
    <2>6. \A s \in Records \ {r} : ~SetsName(e, s)
      BY <2>3 DEF SetsName
    <2>7. ReplayInv'
      <3>1. Excepted \subseteq Excepted' /\ \A s \in Records \ {r} : audited'[s] = audited[s]
        BY <1>0, <1>7, <2>2, EntryAdded
      <3>2. trail' = trail \/ \E f : trail' = Append(trail, f) /\ \A s \in Records \ {r} : ~SetsName(f, s)
        BY <1>7, <2>6
      <3> QED
        BY <1>0, <1>1, <1>6, <2>5, <3>1, <3>2, OthersReplayed
    <2> QED
      BY <2>4, <2>7 DEF AuditInv
  <1>8. CASE unlogged' = unlogged \cup {r} /\ UNCHANGED trail
    <2>1. AuditTables' /\ AuditGrows(q)
      BY <1>0, <1>2, <1>8 DEF AuditTables, AuditGrows, Kept
    <2>2. AuditRows'
      BY <1>1, <1>3, <1>4, <2>1, MovedRows DEF AuditInv
    <2>3. Excepted \subseteq Excepted' /\ r \in Excepted'
      BY <1>0, <1>8 DEF Excepted
    <2>4. ReplayInv'
      BY <1>0, <1>1, <1>6, <1>8, <2>3, OthersReplayed
    <2> QED
      BY <2>2, <2>4 DEF AuditInv
  <1> QED
    BY <1>7, <1>8 DEF LogChange, Log

LEMMA CommitChangeInv ==
    ASSUME PerRequest, AuditInv, NEW q \in Requests, CommitChange(q)
    PROVE  AuditInv'
  <1> PICK m, r, row, new : m = mem[q] /\ r = m.record /\ row = audited[r] /\ new = Written(q)
    OBVIOUS
  <1>0. /\ pc[q] = "commitChange" /\ pc[q] \in LockingSteps /\ pc[q] \in RecordSteps
        /\ audited' = [audited EXCEPT ![r] = new]
        /\ UNCHANGED <<trail, issued, gone, unlogged, undone, missed>> /\ AuditTables
    BY DEF CommitChange, At, LockingSteps, RecordSteps, AuditSteps, AuditInv, AuditRows, AuditTypeInv
  <1>1. Put(q, "idle", NoMemory)
    BY AnswerPuts DEF CommitChange
  <1>2. /\ m \in [record : Records, held : Row, base : Row \cup {None}] /\ r \in issued /\ r \in Records
        /\ row \in Row \cup {None}
        /\ r \in gone \/ (row # None <=> m.base # None)
    <2>1. AuditHeld("commitChange", m) /\ Placed("commitChange", m) /\ r \in issued /\ r \in Records
      BY <1>0, HoldsRow
    <2> QED
      BY <1>0, <2>1 DEF AuditHeld, Placed, Inserts, ChangingSteps, Kept, AuditTables
  <1>3. /\ new \in Row \cup {None}
        /\ new = None <=> m.base # None /\ row = None
        /\ new # None => new["name"] = NameAfter(m, row)
    <2>1. CASE m.base = None
      BY <1>2, <2>1, AuditNames DEF Written, NameAfter
    <2>2. CASE m.base # None /\ row = None
      BY <2>2 DEF Written
    <2>3. CASE m.base # None /\ row # None
      <3>1. new = [c \in Columns |-> IF m.held[c] # m.base[c] THEN m.held[c] ELSE row[c]]
        BY <2>3 DEF Written
      <3>2. new \in Row
        BY <1>2, <2>3, <3>1 DEF Row
      <3> QED
        BY <2>3, <3>1, <3>2, AuditNames DEF NameAfter
    <2> QED
      BY <2>1, <2>2, <2>3
  <1>4. /\ \A s \in Records \ {r} : audited'[s] = audited[s]
        /\ audited'[r] = new
        /\ r \in gone \/ r \in Kept'
    BY <1>0, <1>2, <1>3, AuditNames DEF AuditTables, Kept
  <1>5. AuditTables'
    <2>1. Kept' \subseteq issued
      BY <1>0, <1>2, <1>4 DEF AuditTables, Kept
    <2> QED
      BY <1>0, <1>2, <1>3, <2>1 DEF AuditTables
  <1>6. ASSUME NEW p \in Requests \ {q}, pc[p] \in RecordSteps, mem[p].record \notin gone'
        PROVE  mem[p].record \in Kept' <=> mem[p].record \in Kept
    <2>1. CASE mem[p].record = r
      <3>1. ~Inserts(pc[q], m)
        BY <1>0, <1>6, <2>1 DEF AuditInv, AuditRows, InsertedOnce
      <3>2. row # None
        BY <1>0, <1>2, <1>6, <2>1, <3>1 DEF Inserts, ChangingSteps
      <3> QED
        BY <1>0, <1>2, <1>4, <1>6, <2>1, <3>2 DEF Kept
    <2>2. CASE mem[p].record # r
      BY <1>4, <2>2 DEF Kept
    <2> QED
      BY <2>1, <2>2
  <1>7. AuditGrows(q)
    BY <1>0, <1>5, <1>6 DEF AuditGrows
  <1>8. AuditRows'
    BY <1>1, <1>7, IdleHoldsNothing, MovedRows DEF AuditInv
  <1>9. ASSUME r \in issued \ Excepted' PROVE Replayed(r)'
    <2> PICK v : v = NameAfter(m, row)
      OBVIOUS
    <2>1. r \in issued \ Excepted /\ r \notin gone
      BY <1>0, <1>9 DEF Excepted
    <2>2. Says(r, v)
      BY <1>0, <2>1 DEF AuditInv, ReplayInv, Replayed, Commits
    <2>3. audited'[r]["name"] = v
      BY <1>2, <1>3, <1>4, <2>1
    <2>4. \A p \in Requests : ~Commits(p, r)'
      <3> SUFFICES ASSUME NEW p \in Requests, Commits(p, r)' PROVE FALSE
        OBVIOUS
      <3>1. p # q /\ Commits(p, r)
        BY <1>1 DEF Put, Commits
      <3> QED
        BY <1>0, <3>1, LockHolder
    <2>5. Says(r, v)'
      BY <1>0, <2>2, StillSays
    <2> QED
      BY <2>3, <2>4, <2>5 DEF Replayed
  <1>10. ReplayInv'
    BY <1>0, <1>1, <1>4, <1>9, OthersReplayed DEF Excepted, Commits
  <1> QED
    BY <1>8, <1>10 DEF AuditInv

LEMMA LogRemovalInv ==
    ASSUME PerRequest, AuditInv, NEW q \in Requests, LogRemoval(q)
    PROVE  AuditInv'
  <1> PICK m : m = mem[q]
    OBVIOUS
  <1> PICK e : e = [record |-> None, action |-> "DELETE", old |-> Sanitize(m.held), new |-> Sanitize(None)]
    OBVIOUS
  <1>0. /\ pc[q] = "logRemoval" /\ pc[q] \in LockingSteps /\ pc[q] \in RecordSteps
        /\ UNCHANGED <<audited, issued, gone, unlogged, undone, missed>> /\ AuditTables
        /\ trail' = Append(trail, e) \/ trail' = trail
    BY DEF LogRemoval, Log, At, LockingSteps, RecordSteps, AuditSteps, AuditInv, AuditRows, AuditTypeInv
  <1>1. Put(q, "commitRemoval", m)
    BY GotoPuts DEF LogRemoval
  <1>2. m \in [record : Records, held : Row] /\ Placed("logRemoval", m)
    BY <1>0, HoldsRow DEF AuditHeld
  <1>3. AuditHeld("commitRemoval", m) /\ Placed("commitRemoval", m) /\ Proceeds(q, "commitRemoval", m)
    BY <1>0, <1>2 DEF AuditHeld, Placed, Proceeds, Inserts, ChangingSteps, RecordSteps, AuditSteps, LockingSteps
  <1>4. CASE trail' = Append(trail, e)
    <2>1. e \in LogEntry /\ \A s \in Records : ~SetsName(e, s)
      <3>1. Sanitize(m.held) \in Content \cup {None} /\ Sanitize(None) \in Content \cup {None}
        BY <1>2, SanitizedRow
      <3> QED
        BY <3>1, AuditNames DEF LogEntry, SetsName
    <2>2. AuditGrows(q) /\ Excepted' = Excepted /\ Kept' = Kept
      BY <1>0, <1>4, <2>1, EntryAdded
    <2>3. AuditHeld("commitRemoval", m)' /\ Placed("commitRemoval", m)'
      BY <1>0, <1>3, <2>2 DEF AuditHeld, Placed, Inserts, ChangingSteps
    <2>4. AuditRows'
      BY <1>1, <1>3, <2>2, <2>3, MovedRows DEF AuditInv
    <2>5. ASSUME NEW s \in issued \ Excepted PROVE Replayed(s)'
      <3>1. s \in Records /\ Replayed(s) /\ ~Commits(q, s)
        BY <1>0, <2>5 DEF AuditTables, AuditInv, ReplayInv, Commits
      <3>2. ~SetsName(e, s)
        BY <2>1, <3>1
      <3> QED
        BY <1>0, <1>1, <1>4, <2>2, <3>1, <3>2, OtherReplayed
    <2> QED
      BY <1>0, <2>2, <2>4, <2>5 DEF AuditInv, ReplayInv
  <1>5. CASE trail' = trail
    BY <1>0, <1>1, <1>3, <1>5, QuietAudit DEF auditVars
  <1> QED
    BY <1>0, <1>4, <1>5

LEMMA AuditInterruptedInv ==
    ASSUME PerRequest, AuditInv, NEW q \in Requests, AuditInterrupted(q)
    PROVE  AuditInv'
  <1> PICK r : r = mem[q].record
    OBVIOUS
  <1>0. Put(q, "idle", NoMemory) /\ UNCHANGED <<audited, trail, issued, gone, unlogged, missed>> /\ AuditTables
    BY InterruptedPuts DEF AuditInterrupted, AuditInv, AuditRows, AuditTypeInv
  <1>1. CASE pc[q] # "commitChange"
    BY <1>1, AuditAnswers DEF AuditInterrupted, Interrupted, At, auditVars
  <1>2. CASE pc[q] = "commitChange"
    <2>1. undone' = undone \cup {r} /\ r \in issued
      BY <1>2, HoldsRow DEF AuditInterrupted, At, RecordSteps, AuditSteps, LockingSteps
    <2>2. AuditTables' /\ AuditGrows(q)
      BY <1>0, <2>1 DEF AuditTables, AuditGrows, Kept
    <2>3. AuditRows'
      BY <1>0, <2>2, IdleHoldsNothing, MovedRows DEF AuditInv
    <2>4. ReplayInv'
      BY <1>0, <1>2, <2>1, OthersReplayed DEF Excepted, Commits
    <2> QED
      BY <2>3, <2>4 DEF AuditInv
  <1> QED
    BY <1>1, <1>2

------------------------------------------------------------------------------
LEMMA AuditFrame ==
    ASSUME AuditInv, PerRequest', UNCHANGED auditVars, Apart(AuditSteps)
    PROVE  AuditInv'
  <1>1. ASSUME NEW q \in Requests
        PROVE  \/ pc'[q] = pc[q] /\ mem'[q] = mem[q]
               \/ pc'[q] \notin AuditSteps /\ pc[q] \notin AuditSteps
    BY DEF Apart
  <1>2. ASSUME NEW q \in Requests PROVE AuditHeld(pc[q], mem[q])' /\ Placed(pc[q], mem[q])'
    <2> PICK st, n : st = pc'[q] /\ n = mem'[q]
      OBVIOUS
    <2>1. CASE st = pc[q] /\ n = mem[q]
      <3>1. AuditHeld(st, n) /\ Placed(st, n)
        BY <2>1 DEF AuditInv, AuditRows, AuditTypeInv, PlacedInv
      <3>2. AuditHeld(st, n)' /\ Placed(st, n)'
        BY <3>1, AuditKept
      <3> QED
        BY <3>2
    <2>2. CASE st \notin AuditSteps
      BY <2>2 DEF AuditHeld, Placed, AuditSteps, LockingSteps, ChangingSteps, RecordSteps
    <2> QED
      BY <1>1, <2>1, <2>2
  <1>3. InsertedOnce' /\ LockedOnce'
    <2>1. ASSUME NEW q \in Requests
          PROVE  /\ pc'[q] \in RecordSteps => pc[q] \in RecordSteps /\ mem'[q] = mem[q]
                 /\ pc'[q] \in LockingSteps => pc[q] \in LockingSteps /\ mem'[q] = mem[q]
                 /\ Inserts(pc[q], mem[q])' => Inserts(pc[q], mem[q]) /\ mem'[q] = mem[q]
      BY <1>1 DEF Inserts, AuditSteps, LockingSteps, ChangingSteps, RecordSteps
    <2>2. InsertedOnce'
      BY <2>1, AuditKept DEF InsertedOnce, AuditInv, AuditRows
    <2> QED
      BY <2>1, <2>2 DEF LockedOnce, AuditInv, AuditRows
  <1>4. ASSUME NEW r \in issued \ Excepted PROVE Replayed(r)'
    <2>1. ASSUME NEW p \in Requests
          PROVE  /\ Commits(p, r)' <=> Commits(p, r)
                 /\ Commits(p, r) => mem'[p] = mem[p]
      BY <1>1 DEF Commits, AuditSteps, LockingSteps
    <2>2. Replayed(r)
      BY <1>4 DEF AuditInv, ReplayInv
    <2>3. \A v : Says(r, v) => Says(r, v)'
      BY AuditKept DEF Says
    <2>4. ASSUME NEW p \in Requests, Commits(p, r)' PROVE Says(r, NameAfter(mem[p], audited[r]))'
      <3> PICK v : v = NameAfter(mem[p], audited[r])
        OBVIOUS
      <3>1. Says(r, v)'
        BY <2>1, <2>2, <2>3, <2>4 DEF Replayed
      <3>2. NameAfter(mem[p], audited[r])' = v
        BY <2>1, <2>4, AuditKept DEF NameAfter
      <3> QED
        BY <3>1, <3>2
    <2>5. r \in Kept' /\ (\A p \in Requests : ~Commits(p, r)') => Says(r, audited[r]["name"])'
      <3> PICK v : v = audited[r]["name"]
        OBVIOUS
      <3>1. audited'[r]["name"] = v /\ Kept' = Kept
        BY AuditKept
      <3> QED
        BY <2>1, <2>2, <2>3, <3>1 DEF Replayed
    <2> QED
      BY <2>4, <2>5 DEF Replayed
  <1> QED
    BY <1>2, <1>3, <1>4, AuditKept DEF AuditInv, AuditRows, AuditTypeInv, PlacedInv, ReplayInv

LEMMA AuditNextInv == Base /\ AuditInv /\ [Next]_vars => AuditInv'
  <1> SUFFICES ASSUME Base, AuditInv, [Next]_vars PROVE AuditInv'
    OBVIOUS
  <1>1. CASE AuditStep
    <2>0. PerRequest
      BY DEF Base
    <2>1. PICK q \in Requests :
             \/ PostChange(q) \/ FindRecord(q) \/ LoadRecord(q) \/ PostCreate(q)
             \/ Change(q) \/ LogChange(q) \/ CommitChange(q)
             \/ PostRemove(q) \/ FindToRemove(q) \/ Remove(q) \/ LogRemoval(q) \/ CommitRemoval(q)
             \/ UpdateById(q) \/ DeleteById(q)
             \/ GetAuditLogs(q) \/ ReadPage(q) \/ AuditInterrupted(q)
      BY <1>1 DEF AuditStep, AuditNext
    <2> QED
      BY <2>0, <2>1, PostAuditInv, FindRecordInv, LoadRecordInv, PostCreateInv, TakeLockInv, LogChangeInv,
         CommitChangeInv, FindToRemoveInv, LogRemovalInv, RemovalInv, UpdateByIdInv, GetAuditLogsInv,
         ReadPageInv, AuditInterruptedInv
  <1>2. CASE ~AuditStep
    BY <1>2, AuditApart, AuditFrame
  <1> QED
    BY <1>1, <1>2

LEMMA AuditInvariant == Spec => []AuditInv
  BY BaseInit, BaseStep, AuditInitInv, AuditNextInv, PTL DEF Spec

LEMMA ReplaySuffices == AuditInv => TrailReplaysRows
  <1> SUFFICES ASSUME AuditInv PROVE TrailReplaysRows
    OBVIOUS
  <1>1. ASSUME NEW r \in Kept \ (gone \cup unlogged \cup undone), ~Locked(r)
        PROVE  audited[r]["name"] =
                 trail[CHOOSE i \in 1..Len(trail) :
                          SetsName(trail[i], r) /\ \A j \in (i + 1)..Len(trail) : ~SetsName(trail[j], r)].new["name"]
    <2> DEFINE Last(i) == SetsName(trail[i], r) /\ \A j \in (i + 1)..Len(trail) : ~SetsName(trail[j], r)
    <2> PICK n : n = Len(trail)
      OBVIOUS
    <2> PICK k : k = CHOOSE i \in 1..n : Last(i)
      OBVIOUS
    <2>1. n \in Nat /\ r \in issued \ Excepted
      BY DEF AuditInv, AuditRows, AuditTypeInv, AuditTables, Excepted
    <2>2. \A q \in Requests : ~Commits(q, r)
      BY <1>1 DEF Locked, Commits, LockingSteps
    <2>3. Says(r, audited[r]["name"])
      BY <2>1, <2>2 DEF AuditInv, ReplayInv, Replayed
    <2>4. PICK i \in 1..n : Last(i) /\ trail[i].new["name"] = audited[r]["name"]
      BY <2>3 DEF Says
    <2>5. k \in 1..n /\ Last(k)
      BY <2>4
    <2>6. ~(i < k) /\ ~(k < i)
      <3>1. ASSUME i < k PROVE FALSE
        <4>1. k \in (i + 1)..n
          BY <2>1, <2>5, <3>1
        <4> QED
          BY <2>4, <2>5, <4>1
      <3>2. ASSUME k < i PROVE FALSE
        <4>1. i \in (k + 1)..n
          BY <2>1, <2>5, <3>2
        <4> QED
          BY <2>4, <2>5, <4>1
      <3> QED
        BY <3>1, <3>2
    <2>7. k = i
      BY <2>1, <2>5, <2>6
    <2> QED
      BY <2>4, <2>7
  <1>2. missed = {}
    BY DEF AuditInv, AuditRows, AuditTypeInv, AuditTables
  <1> QED
    BY <1>1, <1>2 DEF TrailReplaysRows, SetsName

\* The log replays every row without an exception, whatever saves of it overlap, and a reader
\* of its pages misses nothing, for any number of requests, rows, entries and pages
\* (AuditSubscriber.ts lines 36 to 120, AuditService.ts lines 51 to 130).
THEOREM TrailReplays == Spec => []TrailReplaysRows
  BY AuditInvariant, ReplaySuffices, PTL

------------------------------------------------------------------------------
FrontSteps == {"idle"} \cup AccountSteps \cup TeamSteps \cup TransferSteps \cup ThrottleSteps \cup ContractSteps
    \cup LinkSteps \cup MerchantSteps \cup SignInSteps \cup AuditSteps

\* A wallet's row about to be saved is a row of the user's.
PurseInv ==
    /\ purses \in [Holders -> Purse \cup {None}]
    /\ \A q \in Requests : pc[q] = "savePurse" => mem[q].user \in Holders /\ mem[q].row \in Purse

\* A permission about to be granted was found in the catalog, and stays there.
Catalogued(step, m) ==
    /\ step \in {"findMissing", "savePermission"} => m.left \subseteq Permissions \cup {"manage"}
    /\ step = "savePermission" => m.add \in Permissions \cup {"manage"}
    /\ step = "grant" => Head(m.left) \in catalog
CatalogInv ==
    /\ members \subseteq Staff \X RoleIds
    /\ grants \subseteq RoleIds \X catalog
    /\ catalog \subseteq Permissions \cup {"manage"}
    /\ \A q \in Requests : Catalogued(pc[q], mem[q])

TypeInv == pc \in [Requests -> FrontSteps] /\ PurseInv /\ CatalogInv /\ pictures \subseteq Pictures

LEMMA TypeInitInv == Init => TypeInv
  <1> SUFFICES ASSUME Init PROVE TypeInv
    OBVIOUS
  <1>1. pc \in [Requests -> {"idle"}]
    BY DEF Init, HandlersInit
  <1>2. \A q \in Requests : pc[q] = "idle"
    BY <1>1
  <1>3. PurseInv
    <2>1. PICK row \in Purse \cup {None} : purses = [u \in Holders |-> row]
      <3>1. CASE TransferIdle
        BY <3>1 DEF TransferIdle
      <3>2. CASE TransferInit
        <4>1. PICK st \in {"ACTIVE", "NEEDS_VERIFICATION", "none"} : purses = [u \in Holders |->
                 IF st = "none" THEN None ELSE [status |-> st, isVerified |-> FALSE, notify |-> TRUE]]
          BY <3>2 DEF TransferInit
        <4>2. CASE st = "none"
          BY <4>1, <4>2
        <4>3. CASE st # "none"
          BY <4>1, <4>3 DEF Purse
        <4> QED
          BY <4>2, <4>3
      <3> QED
        BY <3>1, <3>2 DEF Init
    <2> QED
      BY <1>2, <2>1 DEF PurseInv
  <1>4. CatalogInv
    <2>1. \A q \in Requests : Catalogued(pc[q], mem[q])
      BY <1>2 DEF Catalogued
    <2>2. CASE TeamInit
      BY <2>1, <2>2, TeamAssumption DEF TeamInit, TeamStart, CatalogInv, TeamAssumption
    <2>3. CASE TeamIdle
      BY <2>1, <2>3 DEF TeamIdle, TeamStart, CatalogInv
    <2> QED
      BY <2>2, <2>3 DEF Init
  <1>5. pictures \subseteq Pictures
    <2>1. (CHOOSE f \in Pictures : TRUE) \in Pictures
      BY MerchantAssumption DEF MerchantAssumption
    <2>2. pictures = {} \/ pictures = {CHOOSE f \in Pictures : TRUE}
      BY DEF Init, MerchantInit, MerchantIdle, MerchantStart
    <2> QED
      BY <2>1, <2>2
  <1> QED
    BY <1>1, <1>3, <1>4, <1>5 DEF TypeInv, FrontSteps

LEMMA PcTyped ==
    ASSUME Base, pc \in [Requests -> FrontSteps], [Next]_vars
    PROVE  pc' \in [Requests -> FrontSteps]
  <1>1. \E S \in SUBSET FrontSteps : Within(S)
    BY StepWithin DEF FrontSteps
  <1>2. PICK S \in SUBSET FrontSteps : Within(S)
    BY <1>1
  <1>3. "idle" \in FrontSteps
    BY DEF FrontSteps
  <1>4. \A q \in Requests : pc'[q] \in FrontSteps
    BY <1>2, <1>3 DEF Within
  <1> QED
    BY <1>2, <1>4 DEF Within, PerRequest

LEMMA PurseFrame ==
    ASSUME PurseInv, Apart(TransferSteps), UNCHANGED transferVars
    PROVE  PurseInv'
  BY DEF PurseInv, Apart, transferVars, TransferSteps

LEMMA PursePut ==
    ASSUME PurseInv, NEW q \in Requests, NEW step, NEW m, Put(q, step, m),
           purses' \in [Holders -> Purse \cup {None}],
           step = "savePurse" => m.user \in Holders /\ m.row \in Purse
    PROVE  PurseInv'
  BY DEF PurseInv, Put

LEMMA PurseStep ==
    ASSUME Base, PurseInv, TransferStep
    PROVE  PurseInv'
  <1> USE DEF Base
  <1>1. PICK q \in Requests : TransferReads(q) \/ TransferWrites(q) \/ TransferInterrupted(q)
    BY DEF TransferStep, TransferNext
  <1>2. CASE TransferInterrupted(q)
    BY <1>2, InterruptedPuts, PursePut DEF TransferInterrupted, transferTables, PurseInv
  <1>3. CASE TransferReads(q)
    <2>1. purses' \in [Holders -> Purse \cup {None}]
      BY <1>3 DEF TransferReads, transferTables, PurseInv
    <2>2. CASE PostActivate(q) \/ PostVerify(q) \/ PutSettings(q)
      <3>1. PICK u, row : /\ u \in Opened
                          /\ row \in {Activated(purses[u]), Verified(purses[u]), Configured(purses[u])}
                          /\ Receive(q, "transfers", "savePurse", [user |-> u, row |-> row])
        BY <2>2 DEF PostActivate, PostVerify, PutSettings
      <3>2. u \in Holders /\ purses[u] \in Purse
        BY <3>1 DEF Opened, PurseInv
      <3>3. row \in Purse
        BY <3>1, <3>2 DEF Activated, Verified, Configured, Purse
      <3> QED
        BY <2>1, <3>1, <3>2, <3>3, ReceivePuts, PursePut
    <2>3. CASE GetWallet(q) \/ PostPayment(q) \/ PostSync(q)
      BY <2>1, <2>3, ReceivePuts, PursePut DEF GetWallet, PostPayment, PostSync
    <2>4. CASE FindPurse(q) \/ FindSender(q) \/ LoadAccount(q) \/ SaveSuccessFails(q)
      BY <2>1, <2>4, GotoPuts, AnswerPuts, PursePut DEF FindPurse, FindSender, LoadAccount, Fails, SaveSuccessFails
    <2>5. CASE FetchLedger(q) \/ FindTransfer(q)
      BY <2>1, <2>5, GotoPuts, AnswerPuts, PursePut DEF FetchLedger, FindTransfer, Continue
    <2> QED
      BY <1>3, <2>2, <2>3, <2>4, <2>5 DEF TransferReads
  <1>4. CASE CreateWallet(q) \/ SavePurse(q)
    <2>1. purses' \in [Holders -> Purse \cup {None}]
      <3>1. CASE CreateWallet(q)
        BY <3>1 DEF CreateWallet, PurseInv, Purse
      <3>2. CASE SavePurse(q)
        BY <3>2 DEF SavePurse, PurseInv, At
      <3> QED
        BY <1>4, <3>1, <3>2
    <2> QED
      BY <1>4, <2>1, AnswerPuts, PursePut DEF CreateWallet, SavePurse
  <1>5. CASE TransferWrites(q) /\ ~(CreateWallet(q) \/ SavePurse(q))
    <2>1. purses' \in [Holders -> Purse \cup {None}]
      BY <1>5 DEF TransferWrites, PurseInv
    <2>2. Answer(q) \/ \E step, m : Goto(q, step, m) /\ step # "savePurse"
      <3>1. CASE SavePending(q) \/ SaveSuccess(q) \/ SaveFailed(q)
        BY <3>1 DEF SavePending, SaveSuccess, SaveFailed
      <3>2. CASE InsertTransfer(q)
        BY <3>2 DEF InsertTransfer, Continue
      <3>3. CASE SubmitPayment(q)
        <4>1. CASE Fails(q, None)
          BY <4>1 DEF Fails
        <4>2. CASE ~Fails(q, None)
          <5>1. PICK h : \/ Goto(q, "saveSuccess",
                               [user |-> mem[q].user, row |-> mem[q].row, hash |-> h, sent |-> h])
                        \/ Fails(q, h)
            BY <3>3, <4>2 DEF SubmitPayment
          <5> QED
            BY <5>1 DEF Fails
        <4> QED
          BY <4>1, <4>2
      <3> QED
        BY <1>5, <3>1, <3>2, <3>3 DEF TransferWrites
    <2> QED
      BY <2>1, <2>2, GotoPuts, AnswerPuts, PursePut
  <1> QED
    BY <1>1, <1>2, <1>3, <1>4, <1>5

LEMMA CatalogFrame ==
    ASSUME CatalogInv, Apart(TeamSteps), UNCHANGED teamVars
    PROVE  CatalogInv'
  BY DEF CatalogInv, Catalogued, Apart, teamVars, TeamSteps

LEMMA CatalogPut ==
    ASSUME CatalogInv, NEW q \in Requests, NEW step, NEW m, Put(q, step, m),
           members' \subseteq Staff \X RoleIds,
           grants' \subseteq RoleIds \X catalog',
           catalog' \subseteq Permissions \cup {"manage"}, catalog \subseteq catalog',
           Catalogued(step, m)
    PROVE  CatalogInv'
  BY DEF CatalogInv, Catalogued, Put

LEMMA CatalogStep ==
    ASSUME Base, TeamInv, CatalogInv, TeamStep
    PROVE  CatalogInv'
  <1> USE DEF Base
  <1>1. PICK q \in Requests :
           \/ TeamReads(q)
           \/ CreateRole(q) \/ UpdateRole(q) \/ DeleteRole(q)
           \/ AssignRoleToUser(q) \/ RemoveUserRole(q)
           \/ AssignPermissionToRole(q) \/ RemovePermissionFromRole(q)
           \/ SavePermission(q) \/ SaveDefault(q) \/ FindGranted(q) \/ Grant(q) \/ TeamInterrupted(q)
    BY DEF TeamStep, TeamNext
  <1>2. TeamHeldAt(pc[q], mem[q]) /\ Catalogued(pc[q], mem[q])
    BY DEF TeamInv, TeamTypeInv, CatalogInv
  <1>3. Catalogued("idle", NoMemory)
    BY DEF Catalogued
  <1>4. CASE UNCHANGED <<members, grants, catalog>>
    <2>1. /\ members' \subseteq Staff \X RoleIds
          /\ grants' \subseteq RoleIds \X catalog'
          /\ catalog' \subseteq Permissions \cup {"manage"} /\ catalog \subseteq catalog'
      BY <1>4 DEF CatalogInv
    <2>2. CASE CreateRole(q) \/ UpdateRole(q) \/ DeleteRole(q) \/ TeamInterrupted(q)
      BY <2>1, <2>2, <1>3, AnswerPuts, InterruptedPuts, CatalogPut
         DEF CreateRole, UpdateRole, DeleteRole, TeamInterrupted
    <2>3. CASE SaveDefault(q)
      BY <2>1, <2>3, GotoPuts, CatalogPut DEF SaveDefault, Catalogued
    <2>4. CASE FindGranted(q)
      BY <2>1, <2>4, <1>3, GotoPuts, AnswerPuts, CatalogPut DEF FindGranted, NextDefault, Catalogued
    <2>5. CASE \/ PostRole(q) \/ PutRole(q) \/ DeleteRoleById(q) \/ PostUserRole(q) \/ DeleteUserRole(q)
               \/ PostPermission(q) \/ DeletePermission(q)
               \/ InitializeDefaultPermissions(q) \/ InitializeDefaultRoles(q)
      <3>1. PICK c, step, m : /\ Receive(q, c, step, m)
                              /\ step = "findMissing" => m.left = Permissions \cup {"manage"}
                              /\ step \notin {"savePermission", "grant"}
        <4>1. CASE InitializeDefaultPermissions(q)
          BY <4>1 DEF InitializeDefaultPermissions
        <4>2. CASE PostRole(q) \/ InitializeDefaultRoles(q)
          <5>1. CASE InitializeDefaultRoles(q)
            BY <5>1 DEF InitializeDefaultRoles
          <5>2. CASE PostRole(q)
            <6>1. PICK name \in RoleNames : Receive(q, "teams", "countRoles", [name |-> name])
              BY <5>2 DEF PostRole
            <6> QED
              BY <6>1
          <5> QED
            BY <4>2, <5>1, <5>2
        <4>3. CASE \E m : Ask(q, m)
          BY <4>3 DEF Ask
        <4>4. CASE PutRole(q)
          BY <4>3, <4>4 DEF PutRole
        <4>5. CASE DeleteRoleById(q) \/ PostUserRole(q) \/ DeleteUserRole(q) \/ PostPermission(q) \/ DeletePermission(q)
          BY <4>3, <4>5 DEF DeleteRoleById, PostUserRole, DeleteUserRole, PostPermission, DeletePermission
        <4> QED
          BY <2>5, <4>1, <4>2, <4>4, <4>5
      <3> QED
        BY <2>1, <3>1, ReceivePuts, CatalogPut DEF Catalogued
    <2>6. CASE GetRoleById(q)
      <3>1. CASE Goto(q, mem[q].then, mem[q])
        <4>1. mem[q].then \notin {"findMissing", "savePermission", "grant"}
          BY <1>2, <2>6 DEF TeamHeldAt, GetRoleById, At, PutAsk, DeleteAsk, UserAsk, PermissionAsk
        <4> QED
          BY <2>1, <3>1, <4>1, GotoPuts, CatalogPut DEF Catalogued
      <3> QED
        BY <2>1, <2>6, <3>1, <1>3, AnswerPuts, CatalogPut DEF GetRoleById
    <2>7. CASE \/ CountRoles(q) \/ FindRole(q) \/ FindActiveRole(q) \/ CountUserRoles(q) \/ FindUserRole(q)
               \/ FindRolePermission(q) \/ AssignPermissionFails(q) \/ FindDefault(q)
      <3>1. \/ Answer(q)
            \/ \E step, m : Goto(q, step, m) /\ step \notin {"findMissing", "savePermission", "grant"}
        BY <2>7 DEF CountRoles, FindRole, FindActiveRole, CountUserRoles, FindUserRole, FindRolePermission,
                    AssignPermissionFails, FindDefault, NextDefault
      <3> QED
        BY <2>1, <3>1, <1>3, GotoPuts, AnswerPuts, CatalogPut DEF Catalogued
    <2>8. CASE FindMissing(q)
      <3>1. mem[q].left \subseteq Permissions \cup {"manage"}
        BY <1>2, <2>8 DEF Catalogued, FindMissing, At
      <3> DEFINE p == CHOOSE x \in mem[q].left : TRUE
      <3>2. mem[q].left # {} => p \in mem[q].left
        OBVIOUS
      <3> HIDE DEF p
      <3>3. \/ Answer(q)
            \/ Goto(q, "findMissing", [left |-> mem[q].left \ {p}])
            \/ mem[q].left # {} /\ Goto(q, "savePermission", [add |-> p, left |-> mem[q].left \ {p}])
        BY <2>8 DEF FindMissing, p
      <3> QED
        BY <2>1, <3>1, <3>2, <3>3, <1>3, GotoPuts, AnswerPuts, CatalogPut DEF Catalogued
    <2>9. CASE SavePermission(q) \/ Grant(q) \/ AssignRoleToUser(q) \/ RemoveUserRole(q)
               \/ AssignPermissionToRole(q) \/ RemovePermissionFromRole(q)
      <3>1. CASE SavePermission(q)
        BY <1>2, <1>3, <2>1, <3>1, GotoPuts, AnswerPuts, CatalogPut DEF SavePermission, Catalogued, At
      <3> QED
        BY <2>1, <2>9, <3>1, <1>3, GotoPuts, AnswerPuts, CatalogPut
           DEF Grant, AssignRoleToUser, RemoveUserRole, AssignPermissionToRole, RemovePermissionFromRole, Catalogued
    <2> QED
      BY <1>1, <2>2, <2>3, <2>4, <2>5, <2>6, <2>7, <2>8, <2>9 DEF TeamReads
  <1>5. CASE SavePermission(q)
    <2>1. mem[q].add \in Permissions \cup {"manage"} /\ mem[q].left \subseteq Permissions \cup {"manage"}
      BY <1>2, <1>5 DEF Catalogued, SavePermission, At
    <2>2. /\ members' \subseteq Staff \X RoleIds
          /\ grants' \subseteq RoleIds \X catalog'
          /\ catalog' \subseteq Permissions \cup {"manage"} /\ catalog \subseteq catalog'
      BY <1>5, <2>1 DEF SavePermission, CatalogInv
    <2> QED
      BY <1>3, <1>5, <2>1, <2>2, GotoPuts, AnswerPuts, CatalogPut DEF SavePermission, Catalogued
  <1>6. CASE Grant(q)
    <2>1. mem[q].role \in RoleIds /\ Head(mem[q].left) \in catalog
      BY <1>2, <1>6 DEF TeamHeldAt, Catalogued, Grant, At, Making, Made
    <2>2. /\ members' \subseteq Staff \X RoleIds
          /\ grants' \subseteq RoleIds \X catalog'
          /\ catalog' \subseteq Permissions \cup {"manage"} /\ catalog \subseteq catalog'
      BY <1>6, <2>1 DEF Grant, CatalogInv
    <2> QED
      BY <1>3, <1>6, <2>2, GotoPuts, AnswerPuts, CatalogPut DEF Grant, Catalogued
  <1>7. CASE AssignRoleToUser(q) \/ RemoveUserRole(q)
    <2>1. mem[q] \in UserAsk
      BY <1>2, <1>7 DEF TeamHeldAt, AssignRoleToUser, RemoveUserRole, At
    <2>2. /\ members' \subseteq Staff \X RoleIds
          /\ grants' \subseteq RoleIds \X catalog'
          /\ catalog' \subseteq Permissions \cup {"manage"} /\ catalog \subseteq catalog'
      BY <1>7, <2>1 DEF AssignRoleToUser, RemoveUserRole, CatalogInv, UserAsk
    <2> QED
      BY <1>3, <1>7, <2>2, AnswerPuts, CatalogPut DEF AssignRoleToUser, RemoveUserRole
  <1>8. CASE AssignPermissionToRole(q) \/ RemovePermissionFromRole(q)
    <2>1. mem[q] \in PermissionAsk
      BY <1>2, <1>8 DEF TeamHeldAt, AssignPermissionToRole, RemovePermissionFromRole, At
    <2>2. /\ members' \subseteq Staff \X RoleIds
          /\ grants' \subseteq RoleIds \X catalog'
          /\ catalog' \subseteq Permissions \cup {"manage"} /\ catalog \subseteq catalog'
      BY <1>8, <2>1 DEF AssignPermissionToRole, RemovePermissionFromRole, CatalogInv, PermissionAsk
    <2> QED
      BY <1>3, <1>8, <2>2, AnswerPuts, CatalogPut DEF AssignPermissionToRole, RemovePermissionFromRole
  <1>9. \/ UNCHANGED <<members, grants, catalog>>
        \/ SavePermission(q) \/ Grant(q) \/ AssignRoleToUser(q) \/ RemoveUserRole(q)
        \/ AssignPermissionToRole(q) \/ RemovePermissionFromRole(q)
    BY <1>1 DEF TeamReads, teamTables, CreateRole, UpdateRole, DeleteRole, SaveDefault, FindGranted, TeamInterrupted
  <1> QED
    BY <1>4, <1>5, <1>6, <1>7, <1>8, <1>9

LEMMA PicturesStep ==
    ASSUME pictures \subseteq Pictures, MerchantStep
    PROVE  pictures' \subseteq Pictures
  BY DEF MerchantStep, MerchantNext, MerchantReads, MerchantInterrupted, merchantTables, profileVars,
         CommitMerchant, CreateMerchantConfig, RegisterHook, UpdateHook, PutProfile, PostLogo, DeleteLogo,
         FindProfile, UnlinkLogo, SaveProfile

LEMMA TypeNextInv ==
    ASSUME Base, TeamInv, TypeInv, [Next]_vars
    PROVE  TypeInv'
  <1>1. pc' \in [Requests -> FrontSteps]
    BY PcTyped DEF TypeInv
  <1>2. PurseInv'
    BY PurseStep, PurseFrame, TransferApart DEF TypeInv
  <1>3. CatalogInv'
    BY CatalogStep, CatalogFrame, TeamApart DEF TypeInv
  <1>4. pictures' \subseteq Pictures
    BY PicturesStep, MerchantApart DEF TypeInv, merchantVars
  <1> QED
    BY <1>1, <1>2, <1>3, <1>4 DEF TypeInv

LEMMA TypeInvariant == Spec => []TypeInv
  BY BaseInit, BaseStep, TeamInvariant, TypeInitInv, TypeNextInv, PTL DEF Spec

\* Every request is at a step of a component or none, and every table of the components has
\* rows of its type (the entities under src/src/entities).
THEOREM TypesCorrect == Spec => []TypeOK
  <1>1. /\ TypeInv /\ AccountInv /\ TeamInv /\ TransferInv /\ ThrottleInv
        /\ ContractInv /\ LinkInv /\ MerchantInv /\ SignInInv /\ AuditInv
        => TypeOK
    <2> SUFFICES ASSUME TypeInv, AccountInv, TeamInv, TransferInv, ThrottleInv,
                        ContractInv, LinkInv, MerchantInv, SignInInv, AuditInv
                 PROVE  TypeOK
      OBVIOUS
    <2>1. AccountTypeOK
      BY DEF AccountInv, AccountTypeInv
    <2>2. TeamTypeOK
      BY DEF TeamInv, TeamTypeInv, TypeInv, CatalogInv, TeamTypeOK
    <2>3. TransferTypeOK
      <3>1. transfers \in Seq(TransferRow) /\ ledger \in [Hashes -> Holders \cup {None}]
        BY DEF TransferInv, TransferTypeInv
      <3>2. \A i \in DOMAIN transfers : transfers[i] \in TransferRow
        BY <3>1
      <3> QED
        BY <3>1, <3>2 DEF TransferRow, TypeInv, PurseInv, TransferTypeOK
    <2>4. ThrottleTypeOK /\ ContractTypeOK /\ SignInTypeOK
      BY DEF ThrottleInv, ThrottleTypeInv, ContractInv, ContractTypeInv, SignInInv, SignInTypeInv
    <2>5. LinkTypeOK
      BY DEF LinkInv, LinkTypeOK
    <2>6. MerchantTypeOK
      BY DEF MerchantInv, MerchantTypeInv, EmailInv, LimitsOfMerchants, Registered, TypeInv, MerchantTypeOK
    <2>7. AuditTypeOK
      BY DEF AuditInv, AuditRows, AuditTypeInv, AuditTables, Row, AuditTypeOK
    <2> QED
      BY <2>1, <2>2, <2>3, <2>4, <2>5, <2>6, <2>7 DEF TypeOK, TypeInv, FrontSteps
  <1> QED
    BY <1>1, TypeInvariant, AccountInvariant, TeamInvariant, TransferInvariant, ThrottleInvariant,
       ContractInvariant, LinkInvariant, MerchantInvariant, SignInInvariant, AuditInvariant, PTL
===============================================================================
