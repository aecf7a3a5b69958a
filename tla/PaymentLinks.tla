---------------------------- MODULE PaymentLinks ----------------------------
(***************************************************************************)
(* Payment links and their slugs: src/src/services/PaymentLink.services.ts *)
(* and src/src/controllers/PaymentLink.controller.ts.  A slug is made from *)
(* the link's name and a counter, and is unique among the rows of the      *)
(* table, soft-deleted rows included.  The sku of a new link is new.       *)
(***************************************************************************)
EXTENDS Handlers

CONSTANTS
    LinkIds,     \* bound: the ids of links
    Words,       \* words of slugs, but for numbers
    Names,       \* names of links
    Stem,        \* the slug that generateSlug makes from a name
    LinkBodies   \* bound: bodies of requests, the columns that a body names and their values

VARIABLES
    links,       \* table payment_link, by id
    shown,       \* history: how many times a slug has come into view
    refused      \* history: names whose link was refused for no reason a user could see

linkVars == <<links, shown, refused>>

\* A slug is the words and numbers between its hyphens.
Slugs == Seq(Words \cup Nat)
Link == [slug: Slugs, isDeleted: BOOLEAN]
NewLink == [slug |-> <<>>, isDeleted |-> FALSE]
LinkSteps == {"findSlug", "saveLink", "saveAgain", "updateLink"}

\* A body names columns and gives them values they can hold.
ASSUME LinkAssumption ==
    /\ None \notin Link
    /\ Stem \in [Names -> Slugs]
    /\ \A b \in LinkBodies :
          /\ DOMAIN b \subseteq {"name"} \cup DOMAIN NewLink
          /\ Assigned(NewLink, b) \in Link
          /\ "name" \in DOMAIN b => b.name \in Names

LinkTypeOK == links \in [LinkIds -> Link \cup {None}]

LinkInit ==
    /\ links = [k \in LinkIds |-> None]
    /\ shown = 0
    /\ refused = {}

Stored == {k \in LinkIds : links[k] # None}
Visible(slug) == \E k \in Stored : links[k].slug = slug /\ ~links[k].isDeleted
Hidden(slug) == \E k \in Stored : links[k].slug = slug /\ links[k].isDeleted
SlugTaken(slug) == Visible(slug) \/ Hidden(slug)

------------------------------------------------------------------------------
\* The controllers assign the whole body to what they hand on, deletedAt among the columns.
PostLink(q) ==
    /\ \E b \in LinkBodies :
          /\ "name" \in DOMAIN b
          /\ Receive(q, "links", "findSlug",
                [body |-> b, counter |-> 0, then |-> "saveLink", since |-> shown, hidden |-> FALSE])
    /\ UNCHANGED linkVars

PutLink(q) ==
    /\ \E b \in LinkBodies, k \in LinkIds :
          Receive(q, "links", IF "name" \in DOMAIN b THEN "findSlug" ELSE "updateLink",
                [body |-> b, counter |-> 0, then |-> "updateLink", link |-> k])
    /\ UNCHANGED linkVars

\* generateUniqueSlug: the slug of the name, then the same with a number, one query after the
\* other until one is not found; soft-deleted links are not.  The slugs of two names may meet.
Slug(name, counter) == IF counter = 0 THEN Stem[name] ELSE Append(Stem[name], counter)
SlugOf(q) == Slug(mem[q].body.name, mem[q].counter)

GenerateUniqueSlug(q) ==
    LET found == Visible(SlugOf(q)) IN
    /\ At(q, "findSlug")
    /\ \/ found /\ Goto(q, "findSlug", [mem[q] EXCEPT !.counter = @ + 1])
       \/ ~found /\ Goto(q, mem[q].then, mem[q])
    /\ UNCHANGED linkVars

\* The row with the columns of the body; a name brings its slug, whatever the body says.
LinkRow(row, q) ==
    LET assigned == Assigned(row, mem[q].body) IN
    IF "name" \in DOMAIN mem[q].body THEN [assigned EXCEPT !.slug = SlugOf(q)] ELSE assigned

ComesIntoView(before, after) == IF before # after /\ ~after.isDeleted THEN 1 ELSE 0

InsertLink(q) ==
    LET row == LinkRow(NewLink, q) IN
    /\ ~SlugTaken(row.slug)
    /\ \E k \in LinkIds \ Stored : links' = [links EXCEPT ![k] = row]
    /\ shown' = shown + ComesIntoView(None, row)
    /\ Answer(q)
    /\ UNCHANGED refused

\* The creation answers an error although no soft-deleted link had the slug when the table
\* refused it, either time, and no two slugs came into view since it began.
RefuseLink(q) ==
    /\ SlugTaken(SlugOf(q))
    /\ Answer(q)
    /\ refused' = IF mem[q].hidden \/ Hidden(SlugOf(q)) \/ shown - mem[q].since >= 2 THEN refused
                  ELSE refused \cup {mem[q].body.name}
    /\ UNCHANGED <<links, shown>>

\* Variant for testing the properties: a slug that was taken meanwhile is not tried again.
CreatePaymentLinkOnce(q) ==
    /\ At(q, "saveLink")
    /\ InsertLink(q) \/ RefuseLink(q)

\* createPaymentLink: on a unique violation it looks for a slug again, once.
CreatePaymentLink(q) ==
    /\ At(q, "saveLink")
    /\ \/ InsertLink(q)
       \/ /\ SlugTaken(SlugOf(q))
          /\ Goto(q, "findSlug", [mem[q] EXCEPT !.counter = 0, !.then = "saveAgain", !.hidden = Hidden(SlugOf(q))])
          /\ UNCHANGED linkVars

RetryPaymentLink(q) ==
    /\ At(q, "saveAgain")
    /\ InsertLink(q) \/ RefuseLink(q)

\* updatePaymentLink: the row of the id, soft-deleted or not, unless another has the slug.
UpdatePaymentLink(q) ==
    LET k == mem[q].link
        row == LinkRow(links[k], q)
        ok == k \in Stored /\ \A o \in Stored \ {k} : links[o].slug # row.slug IN
    /\ At(q, "updateLink")
    /\ links' = IF ok THEN [links EXCEPT ![k] = row] ELSE links
    /\ shown' = shown + (IF ok THEN ComesIntoView(links[k], row) ELSE 0)
    /\ Answer(q)
    /\ UNCHANGED refused

DeletePaymentLink(q) ==
    /\ Serve(q, "links")
    /\ \E k \in Stored : links' = [links EXCEPT ![k] = None]
    /\ UNCHANGED <<shown, refused>>

SoftDeletePaymentLink(q) ==
    /\ Serve(q, "links")
    /\ \E k \in Stored : links' = [links EXCEPT ![k].isDeleted = TRUE]
    /\ UNCHANGED <<shown, refused>>

LinkNext ==
    \E q \in Requests :
       \/ PostLink(q) \/ PutLink(q) \/ GenerateUniqueSlug(q)
       \/ CreatePaymentLink(q) \/ RetryPaymentLink(q) \/ UpdatePaymentLink(q)
       \/ DeletePaymentLink(q) \/ SoftDeletePaymentLink(q)

LinkInterrupted(q) ==
    /\ pc[q] \in LinkSteps
    /\ Interrupted(q)
    /\ UNCHANGED linkVars

------------------------------------------------------------------------------
\* A link that is created at the same time as another whose slug meets its own is created too,
\* under the next slug: a creation is refused only if one of the two slugs it tried to save was
\* a soft-deleted link's, which the search does not find and the table does not give away, or
\* if at least two slugs came into view while it was looking for its own: of new links, of
\* renamed ones, and of those that an update's slug or deletedAt brought back
\* (PaymentLink.services.ts lines 17 to 61, 67 to 78).
LinksAreCreated == refused = {}
==============================================================================
