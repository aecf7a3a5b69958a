------------------------------ MODULE Merchants -----------------------------
(***************************************************************************)
(* Merchants, their fraud limits, their webhooks and their profiles:       *)
(* src/src/services/merchant.service.ts, webhook.service.ts,               *)
(* fileUpload.service.ts and the configuration part of                     *)
(* FraudDetectionService.ts.  A merchant and its limits are saved in one   *)
(* transaction, so that others see both or none.                           *)
(***************************************************************************)
EXTENDS Handlers

CONSTANTS
    MerchantIds,   \* bound: the ids of merchants
    Emails,        \* their e-mail addresses
    HookIds,       \* bound: the ids of webhooks
    Urls,          \* where webhooks are sent
    Pictures,      \* bound: files in public/merchant-logos
    ShopNames,     \* what a merchant calls its business
    ProfileBodies  \* bound: what a request may write over the row of a merchant

VARIABLES
    merchants,     \* table merchants: the e-mail of each merchant
    limits,        \* table merchant_fraud_configs: the merchants that have a row
    hooks,         \* table merchant_webhooks, by id
    businesses,    \* the business's name and logo in the row of each merchant
    pictures,      \* files there are
    switchedOff,   \* history: webhooks whose deletion was answered
    shared,        \* history: e-mails two registrations were saving at once
    readdressed,   \* history: e-mails a merchant was given by a save of its profile
    linked,        \* history: files that a body made the logo of a merchant
    revived,       \* history: webhooks that were being updated while they were deleted
    promised,      \* history: the name each merchant was told it has
    unsettled      \* history: merchants whose profile two requests were saving at once, or
                   \* whose logo is gone although the row could not be saved

merchantVars == <<merchants, limits, hooks, businesses, pictures, switchedOff, shared, readdressed, linked,
                  revived, promised, unsettled>>
profileVars == <<businesses, pictures, readdressed, linked, promised>>
merchantTables == <<merchants, limits, hooks, switchedOff, profileVars>>

\* What the logo becomes when one is uploaded: the middleware does not wait for the upload, and
\* the driver writes the promise as text.
Promise == "{}"
Profile == [name: ShopNames \cup {None}, logo: Pictures \cup {None, "", Promise}]
MerchantRow == [email: Emails, name: ShopNames \cup {None}, logo: Pictures \cup {None, "", Promise}]

Hook == [owner: MerchantIds, url: Urls, isActive: BOOLEAN]

\* An e-mail, a name and a row are there or null, and a file is neither null nor a text.
ASSUME MerchantAssumption ==
    /\ Emails # {} /\ Pictures # {}
    /\ None \notin Emails \cup ShopNames \cup Hook
    /\ Pictures \cap {None, "", Promise} = {}
    /\ \A b \in ProfileBodies, row \in MerchantRow : Assigned(row, b) \in MerchantRow

RegisterSteps == {"saveMerchant", "saveFraudConfig", "commitMerchant"}
HookSteps == {"findHook", "saveHook"}
ProfileSteps == {"unlinkLogo", "saveProfile"}
MerchantSteps == RegisterSteps \cup HookSteps \cup ProfileSteps \cup {"findProfile"} \cup
    {"findMerchant", "findFraudConfig", "insertFraudConfig", "insertHook"}

MerchantTypeOK ==
    /\ merchants \in [MerchantIds -> Emails \cup {None}]
    /\ limits \subseteq MerchantIds
    /\ \A h \in HookIds : hooks[h] \in Hook \cup {None}
    /\ businesses \in [MerchantIds -> Profile]
    /\ pictures \subseteq Pictures

\* Before the calls there may be a merchant from before there were limits, whose logo is a file.
MerchantStart(old) ==
    /\ merchants = [a \in MerchantIds |-> IF a \in old THEN CHOOSE e \in Emails : TRUE ELSE None]
    /\ limits = {}
    /\ hooks = [h \in HookIds |-> None]
    /\ switchedOff = {}
    /\ shared = {}
    /\ readdressed = {}
    /\ linked = {}
    /\ revived = {}
    /\ pictures = IF old = {} THEN {} ELSE {CHOOSE f \in Pictures : TRUE}
    /\ businesses = [a \in MerchantIds |->
          [name |-> None, logo |-> IF a \in old THEN CHOOSE f \in Pictures : TRUE ELSE None]]
    /\ promised = [a \in MerchantIds |-> None]
    /\ unsettled = {}

MerchantInit == MerchantStart({}) \/ \E a \in MerchantIds : MerchantStart({a})
MerchantIdle == MerchantStart({})

Registered == {a \in MerchantIds : merchants[a] # None}
Registering == {mem[q].id : q \in {p \in Requests : pc[p] \in {"saveFraudConfig", "commitMerchant"}}}

------------------------------------------------------------------------------
\* register: a transaction with three statements.  No index makes the e-mail unique.
PostMerchant(q) ==
    /\ \E e \in Emails : Receive(q, "merchants", "findMerchant", [email |-> e])

FindMerchant(q) ==
    LET exists == \E a \in Registered : merchants[a] = mem[q].email IN
    /\ At(q, "findMerchant")
    /\ \/ ~exists /\ Goto(q, "saveMerchant", mem[q])
       \/ exists /\ Answer(q)

\* Only the transaction itself sees the rows until it commits.
SaveMerchant(q) ==
    /\ At(q, "saveMerchant")
    /\ \E a \in MerchantIds \ (Registered \cup Registering) :
          Goto(q, "saveFraudConfig", [email |-> mem[q].email, id |-> a])

InitializeDefaultFraudConfig(q) ==
    /\ At(q, "saveFraudConfig")
    /\ Goto(q, "commitMerchant", mem[q])

CommitMerchant(q) ==
    /\ At(q, "commitMerchant")
    /\ merchants' = [merchants EXCEPT ![mem[q].id] = mem[q].email]
    /\ limits' = limits \cup {mem[q].id}
    /\ Answer(q)
    /\ UNCHANGED <<hooks, switchedOff, profileVars>>

------------------------------------------------------------------------------
\* getMerchantConfig, at the beginning of a fraud check: the limits are made if they are
\* missing.  A one-to-one column has a unique index, which refuses a second row.
CheckTransaction(q) ==
    /\ \E a \in Registered : Receive(q, "merchants", "findFraudConfig", [id |-> a])

GetMerchantConfig(q) ==
    LET found == mem[q].id \in limits IN
    /\ At(q, "findFraudConfig")
    /\ \/ ~found /\ Goto(q, "insertFraudConfig", mem[q])
       \/ found /\ Answer(q)

CreateMerchantConfig(q) ==
    /\ At(q, "insertFraudConfig")
    /\ limits' = limits \cup {mem[q].id}
    /\ Answer(q)
    /\ UNCHANGED <<merchants, hooks, switchedOff, profileVars>>

------------------------------------------------------------------------------
\* Webhooks of the merchant: registration looks for the merchant, update and deletion for
\* one of its webhooks, any of them if it has several, and give up if that one is inactive.
PostHook(q) ==
    /\ \E a \in Registered, u \in Urls :
          Receive(q, "merchants", "insertHook", [row |-> [owner |-> a, url |-> u, isActive |-> TRUE]])

RegisterHook(q) ==
    /\ At(q, "insertHook")
    /\ \E h \in HookIds : hooks[h] = None /\ hooks' = [hooks EXCEPT ![h] = mem[q].row]
    /\ Answer(q)
    /\ UNCHANGED <<merchants, limits, switchedOff, profileVars>>

\* Variant for testing the properties: an update makes the webhook active whatever it was.
PutHookActive(q) ==
    /\ \E h \in HookIds, u \in Urls :
          /\ hooks[h] # None
          /\ Receive(q, "merchants", "findHook",
                [hook |-> h, row |-> [hooks[h] EXCEPT !.url = u, !.isActive = TRUE]])

ActiveHooks == {h \in HookIds : IF hooks[h] = None THEN FALSE ELSE hooks[h].isActive}

PutHook(q) ==
    /\ \E h \in ActiveHooks, u \in Urls :
          Receive(q, "merchants", "findHook", [hook |-> h, row |-> [hooks[h] EXCEPT !.url = u]])

DeleteHook(q) ==
    /\ \E h \in ActiveHooks :
          Receive(q, "merchants", "findHook", [hook |-> h, row |-> [hooks[h] EXCEPT !.isActive = FALSE]])

\* update finds the row again, merges all the columns read before into it, and saves it.
FindHook(q) ==
    /\ At(q, "findHook")
    /\ Goto(q, "saveHook", mem[q])

UpdateHook(q) ==
    LET row == mem[q].row IN
    /\ At(q, "saveHook")
    /\ hooks' = [hooks EXCEPT ![mem[q].hook] = row]
    /\ switchedOff' = IF row.isActive THEN switchedOff ELSE switchedOff \cup {mem[q].hook}
    /\ Answer(q)
    /\ UNCHANGED <<merchants, limits, profileVars>>

------------------------------------------------------------------------------
\* The profile: each request reads the row in a transaction, assigns columns and saves the row.
\* updateProfile assigns whatever columns the body names, a URL as the logo among them, which
\* deleteFile takes for the file of its last part.
Profiles(q, a, body, removes) ==
    Receive(q, "merchants", "findProfile", [id |-> a, body |-> body, removes |-> removes])

PutProfile(q) ==
    /\ \E a \in Registered, b \in ProfileBodies : Profiles(q, a, b, FALSE)
    /\ UNCHANGED merchantTables

\* The file is on the disk before the handler runs.
PostLogo(q) ==
    /\ \E a \in Registered, f \in Pictures \ pictures :
          /\ Profiles(q, a, [logo |-> Promise], FALSE)
          /\ pictures' = pictures \cup {f}
    /\ UNCHANGED <<merchants, limits, hooks, switchedOff, businesses, readdressed, linked, promised>>

DeleteLogo(q) ==
    /\ \E a \in Registered : Profiles(q, a, [logo |-> ""], TRUE)
    /\ UNCHANGED merchantTables

\* A logo that is no file, as an uploaded one, cannot be deleted.
FindProfile(q) ==
    LET a == mem[q].id
        row == [email |-> merchants[a], name |-> businesses[a].name, logo |-> businesses[a].logo]
        file == IF mem[q].removes THEN row.logo ELSE None
        Hold(step) == Goto(q, step, [id |-> a, said |-> DOMAIN mem[q].body, file |-> file,
                                     row |-> Assigned(row, mem[q].body)])
    IN
    /\ At(q, "findProfile")
    /\ \/ file \in {None, ""} /\ Hold("saveProfile")
       \/ file \in pictures /\ Hold("unlinkLogo")
       \/ file \notin pictures \cup {None, ""} /\ Answer(q)
    /\ UNCHANGED merchantTables

\* deleteFile: another request may have been faster.
UnlinkLogo(q) ==
    LET file == mem[q].file IN
    /\ At(q, "unlinkLogo")
    /\ \/ file \in pictures /\ Goto(q, "saveProfile", mem[q])
       \/ file \notin pictures /\ Answer(q)
    /\ pictures' = pictures \ {file}
    /\ UNCHANGED <<merchants, limits, hooks, switchedOff, businesses, readdressed, linked, promised>>

SaveProfile(q) ==
    LET a == mem[q].id
        row == mem[q].row IN
    /\ At(q, "saveProfile")
    /\ merchants' = [merchants EXCEPT ![a] = row.email]
    /\ businesses' = [businesses EXCEPT ![a] = [name |-> row.name, logo |-> row.logo]]
    /\ readdressed' = IF row.email = merchants[a] THEN readdressed ELSE readdressed \cup {row.email}
    /\ linked' = IF "logo" \in mem[q].said THEN linked \cup ({row.logo} \cap Pictures) ELSE linked
    /\ promised' = IF "name" \in mem[q].said THEN [promised EXCEPT ![a] = row.name] ELSE promised
    /\ Answer(q)
    /\ UNCHANGED <<limits, hooks, switchedOff, pictures>>

------------------------------------------------------------------------------
Saving(q) == IF pc'[q] \in RegisterSteps THEN {mem'[q].email} ELSE {}
Updating(q) == IF pc'[q] \in HookSteps THEN {mem'[q].hook} ELSE {}
Profiling(q) == IF pc'[q] \in ProfileSteps THEN {mem'[q].id} ELSE {}
MerchantHistory ==
    /\ shared' = shared \cup InBoth(Saving)
    /\ revived' = revived \cup InBoth(Updating)
    /\ unsettled' = unsettled \cup InBoth(Profiling)

MerchantReads(q) ==
    /\ \/ PostMerchant(q) \/ FindMerchant(q) \/ SaveMerchant(q) \/ InitializeDefaultFraudConfig(q)
       \/ CheckTransaction(q) \/ GetMerchantConfig(q)
       \/ PostHook(q) \/ PutHook(q) \/ DeleteHook(q) \/ FindHook(q)
    /\ UNCHANGED merchantTables

MerchantNext ==
    /\ \E q \in Requests :
          \/ MerchantReads(q) \/ CommitMerchant(q) \/ CreateMerchantConfig(q)
          \/ RegisterHook(q) \/ UpdateHook(q)
          \/ PutProfile(q) \/ PostLogo(q) \/ DeleteLogo(q)
          \/ FindProfile(q) \/ UnlinkLogo(q) \/ SaveProfile(q)
    /\ MerchantHistory

\* A transaction that is cut off is rolled back, and a file that was unlinked stays so.
MerchantInterrupted(q) ==
    /\ pc[q] \in MerchantSteps
    /\ Interrupted(q)
    /\ unsettled' = unsettled \cup
          {a \in MerchantIds : IF At(q, "saveProfile") THEN mem[q].file \in Pictures /\ mem[q].id = a ELSE FALSE}
    /\ UNCHANGED <<merchantTables, shared, revived>>

------------------------------------------------------------------------------
\* What the tables say of merchants holds after any failure: two merchants have one e-mail only
\* if their registrations overlapped or a save of a profile gave it to one of them, limits belong
\* to a merchant, and a webhook that was deleted stays inactive unless it was being updated
\* meanwhile, because the update saves all it read.  For the same reason a business keeps the
\* name it was told it has, and a logo that is a file has that file until it is being deleted,
\* unless two requests were saving the profile at once or a deletion failed after the file was
\* unlinked; a file that a body made a logo may be the logo of another merchant too, or not be
\* there (merchant.service.ts lines 25 to 62 and 209 to 308, webhook.service.ts lines 41 to 84).
OnePerEmail ==
    \A a, b \in Registered : a # b /\ merchants[a] = merchants[b] => merchants[a] \in shared \cup readdressed
LimitsOfMerchants == limits \subseteq Registered
DeletedHookStaysOff == \A h \in switchedOff \ revived : ~hooks[h].isActive
ProfilesAreKept ==
    \A a \in Registered \ unsettled :
        /\ promised[a] # None => businesses[a].name = promised[a]
        /\ \/ businesses[a].logo \in Pictures \ linked => businesses[a].logo \in pictures
           \/ \E q \in Requests :
                 IF At(q, "saveProfile") THEN mem[q].id = a /\ mem[q].file \in Pictures ELSE FALSE
MerchantRecordsHold == OnePerEmail /\ LimitsOfMerchants /\ DeletedHookStaysOff /\ ProfilesAreKept
==============================================================================
